------------------------- MODULE ReadersWriterMutex -------------------------
(***************************************************************************)
(* MCF/src/Thread/ReadersWriterMutex.cpp.  Whoever arrives takes the       *)
(* reader guard; the first reader takes the exclusive mutex for all of     *)
(* them and the last one to leave releases it, without the guard.  A       *)
(* writer keeps both.  Each mutex is the lock of AbstractLock; the         *)
(* exclusive one is often released by another thread than took it.         *)
(***************************************************************************)
EXTENDS Naturals, FiniteSets

CONSTANTS Threads     \* the threads that use the lock

ASSUME ReadersAssumption == IsFiniteSet(Threads)

VARIABLES guarded,    \* x_mtxReaderGuard is locked, 0 or 1
          exclusive,  \* x_mtxExclusive is locked, 0 or 1
          readers,    \* x_uReaders
          pc,         \* where each thread is
          timed       \* whether the operation of each thread has a deadline

vars == <<guarded, exclusive, readers, pc, timed>>

ReaderPlaces == {"rguard", "rcount", "rexcl", "rundo", "rgiveup", "rdone",
                 "reading", "rlast"}
WriterPlaces == {"wguard", "wexcl", "wgiveup", "writing", "wleave"}

TypeOK == /\ guarded \in {0, 1}
          /\ exclusive \in {0, 1}
          /\ readers \in 0..Cardinality(Threads)
          /\ pc \in [Threads -> {"idle"} \cup ReaderPlaces \cup WriterPlaces]
          /\ timed \in [Threads -> BOOLEAN]

Init == /\ guarded = 0
        /\ exclusive = 0
        /\ readers = 0
        /\ pc = [t \in Threads |-> "idle"]
        /\ timed = [t \in Threads |-> FALSE]

Move(t, from, to) == pc[t] = from /\ pc' = [pc EXCEPT ![t] = to]

\* Try with a deadline, or Lock.
Begin(t, place, how) == /\ Move(t, "idle", place)
                        /\ timed' = [timed EXCEPT ![t] = how]
                        /\ UNCHANGED <<guarded, exclusive, readers>>

LockGuard(t, from, to) == /\ Move(t, from, to)
                          /\ guarded = 0 /\ guarded' = 1
                          /\ UNCHANGED <<exclusive, readers, timed>>

UnlockGuard(t, from, to) == /\ Move(t, from, to)
                            /\ guarded' = 0
                            /\ UNCHANGED <<exclusive, readers, timed>>

LockExclusive(t, from, to) == /\ Move(t, from, to)
                              /\ exclusive = 0 /\ exclusive' = 1
                              /\ UNCHANGED <<guarded, readers, timed>>

UnlockExclusive(t, from, to) == /\ Move(t, from, to)
                                /\ exclusive' = 0
                                /\ UNCHANGED <<guarded, readers, timed>>

TimeOut(t, from, to) == /\ timed[t]
                        /\ Move(t, from, to)
                        /\ UNCHANGED <<guarded, exclusive, readers, timed>>

-----------------------------------------------------------------------------
\* Mutation: a reader that finds another one to be counted is let in.
CountReaderLate(t) == /\ Move(t, "rcount", IF exclusive = 0 THEN "rexcl" ELSE "rdone")
                      /\ readers' = readers + 1
                      /\ UNCHANGED <<guarded, exclusive, timed>>

\* TryAsReader and LockAsReader.  The first reader locks for all.
CountReader(t) == /\ Move(t, "rcount", IF readers = 0 THEN "rexcl" ELSE "rdone")
                  /\ readers' = readers + 1
                  /\ UNCHANGED <<guarded, exclusive, timed>>

\* The first reader leaves on a time-out.
UndoReader(t) == /\ Move(t, "rundo", "rgiveup")
                 /\ readers' = readers - 1
                 /\ UNCHANGED <<guarded, exclusive, timed>>

AsReader(t) == \/ LockGuard(t, "rguard", "rcount") \/ TimeOut(t, "rguard", "idle")
               \/ CountReader(t)
               \/ LockExclusive(t, "rexcl", "rdone") \/ TimeOut(t, "rexcl", "rundo")
               \/ UndoReader(t) \/ UnlockGuard(t, "rgiveup", "idle")
               \/ UnlockGuard(t, "rdone", "reading")

\* Mutation: who leaves unlocks if one reader remains.
UncountReaderEarly(t) == /\ Move(t, "reading", IF readers <= 2 THEN "rlast" ELSE "idle")
                         /\ readers' = readers - 1
                         /\ UNCHANGED <<guarded, exclusive, timed>>

\* UnlockAsReader.  The last reader unlocks for all, outside the guard.
UncountReader(t) == /\ Move(t, "reading", IF readers = 1 THEN "rlast" ELSE "idle")
                    /\ readers' = readers - 1
                    /\ UNCHANGED <<guarded, exclusive, timed>>

LeaveLast(t) == UnlockExclusive(t, "rlast", "idle")

-----------------------------------------------------------------------------
\* Mutation: a writer lets others pass the guard while it waits.
AsWriterUnguarded(t) == \/ LockGuard(t, "wguard", "wgiveup") \/ TimeOut(t, "wguard", "idle")
                        \/ LockExclusive(t, "wexcl", "writing") \/ TimeOut(t, "wexcl", "idle")
                        \/ UnlockGuard(t, "wgiveup", "wexcl")

\* TryAsWriter and LockAsWriter keep the guard; UnlockAsWriter.
AsWriter(t) == \/ LockGuard(t, "wguard", "wexcl") \/ TimeOut(t, "wguard", "idle")
               \/ LockExclusive(t, "wexcl", "writing") \/ TimeOut(t, "wexcl", "wgiveup")
               \/ UnlockGuard(t, "wgiveup", "idle")

UnlockAsWriter(t) == UnlockExclusive(t, "writing", "wleave")

LeaveWriter(t) == UnlockGuard(t, "wleave", "idle")

-----------------------------------------------------------------------------
Unlock(t)  == UncountReader(t) \/ UnlockAsWriter(t)
Proceed(t) == AsReader(t) \/ LeaveLast(t) \/ AsWriter(t) \/ LeaveWriter(t)

Next == \E t \in Threads : \/ \E how \in BOOLEAN : \/ Begin(t, "rguard", how)
                                                   \/ Begin(t, "wguard", how)
                           \/ Proceed(t) \/ Unlock(t)

Spec == Init /\ [][Next]_vars

\* Threads that can run do run.  A free mutex goes to one of those that ask for
\* it, not to each in turn, as AbstractLock promises.
Asking(t)  == pc[t] \in {"rguard", "wguard", "rexcl", "wexcl"}
Fairness   == /\ \A t \in Threads : WF_vars(~Asking(t) /\ Proceed(t))
              /\ WF_vars(\E t \in Threads : pc[t] \in {"rguard", "wguard"} /\ Proceed(t))
              /\ WF_vars(\E t \in Threads : pc[t] \in {"rexcl", "wexcl"} /\ Proceed(t))

FairSpec == Spec /\ Fairness

\* The same, in a program whose threads unlock what they locked.
Unlocking == \A t \in Threads : WF_vars(Unlock(t))

-----------------------------------------------------------------------------
At(places) == {t \in Threads : pc[t] \in places}

\* Threads between their LockGuard and their UnlockGuard.
Guarding == At({"rcount", "rexcl", "rundo", "rgiveup", "rdone",
                "wexcl", "wgiveup", "writing", "wleave"})

\* Threads that x_uReaders counts, and the one of them that is not yet, or will
\* not be, covered by the exclusive mutex.
Counted == At({"rexcl", "rundo", "rdone", "reading"})
Pending == At({"rexcl", "rundo"})

\* Those that alone answer for the exclusive mutex: a writer, or the last
\* reader between its decrement and its unlock.
Sole == At({"writing", "rlast"})

\* The guard is held by one thread, and for as long as it is inside.
GuardHeld == Cardinality(Guarding) = guarded

\* The count is decremented without the guard, but it is always the number of
\* readers, and while one of them waits for the exclusive mutex it is alone.
ReadersCounted == readers = Cardinality(Counted) /\ (Pending # {} => Counted = Pending)

\* The exclusive mutex is locked once for all readers, once for a writer and
\* until the last reader has unlocked it, and for nobody else: what one thread
\* locked and another unlocks is neither unlocked twice nor left locked.
ExclusiveHeld == exclusive = Cardinality(Sole) + (IF Counted \ Pending # {} THEN 1 ELSE 0)

\* What holds in every state.
Safety == TypeOK /\ GuardHeld /\ ReadersCounted /\ ExclusiveHeld

\* Readers are together, a writer is alone.
Role(t) == CASE pc[t] \in {"rguard", "rcount", "rexcl", "rundo", "rgiveup", "rdone"} -> "reader waits"
             [] pc[t] = "reading" -> "reader"
             [] pc[t] \in {"wguard", "wexcl", "wgiveup"} -> "writer waits"
             [] pc[t] = "writing" -> "writer"
             [] OTHER -> "out"

Abstract == INSTANCE AbstractReadersWriterLock WITH role <- [t \in Threads |-> Role(t)]

ImplementsReadersWriterLock == Abstract!FairSpec

\* A writer that has the guard is not starved by readers that keep coming: it
\* gets the lock, if those who have it unlock it.
WriterNotStarved == Unlocking => \A t \in Threads : pc[t] = "wexcl" ~> pc[t] # "wexcl"

=============================================================================
