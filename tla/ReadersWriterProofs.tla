------------------------- MODULE ReadersWriterProofs -------------------------
(***************************************************************************)
(* Proofs about ReadersWriterMutex for every finite set of threads: the    *)
(* count of readers and the two mutexes agree with who is inside, and a    *)
(* readers-writer lock is implemented.                                     *)
(***************************************************************************)
EXTENDS ReadersWriterMutex, FiniteSetTheorems, TLAPS

Places == {"idle"} \cup ReaderPlaces \cup WriterPlaces

\* The inductive invariant: the three properties need each other, as the guard
\* keeps first readers apart and the exclusive mutex is left to who is counted.
IInv == TypeOK /\ GuardHeld /\ ReadersCounted /\ ExclusiveHeld

\* Sets of threads are finite.
LEMMA AtFinite ==
  ASSUME NEW P
  PROVE  /\ IsFiniteSet(At(P))
         /\ Cardinality(At(P)) \in Nat
         /\ Cardinality(At(P)) <= Cardinality(Threads)
         /\ Cardinality(At(P)) = 0 <=> At(P) = {}
<1>1. At(P) \subseteq Threads
  BY DEF At
<1>2. IsFiniteSet(At(P)) /\ Cardinality(At(P)) <= Cardinality(Threads)
  BY <1>1, ReadersAssumption, FS_Subset
<1>3. QED
  BY <1>2, FS_CardinalityType, FS_EmptySet

\* A set of one element that has t is {t}.
LEMMA OnlyOne ==
  ASSUME NEW S, IsFiniteSet(S), Cardinality(S) <= 1, NEW t \in S
  PROVE  S = {t}
<1>1. Cardinality(S \ {t}) = Cardinality(S) - 1 /\ IsFiniteSet(S \ {t})
  BY FS_RemoveElement
<1>2. Cardinality(S) \in Nat /\ Cardinality(S \ {t}) \in Nat
  BY <1>1, FS_CardinalityType
<1>3. Cardinality(S \ {t}) = 0
  BY <1>1, <1>2
<1>4. S \ {t} = {}
  BY <1>1, <1>3, FS_EmptySet
<1>5. QED
  BY <1>4

\* A thread that moves is counted in its new place and no more in its old one.
LEMMA MoveCounts ==
  ASSUME TypeOK, NEW t \in Threads, NEW from, NEW to \in Places, Move(t, from, to), NEW P
  PROVE  /\ At(P)' = IF to \in P THEN At(P) \cup {t} ELSE At(P) \ {t}
         /\ Cardinality(At(P)') = Cardinality(At(P)) + (IF to \in P THEN 1 ELSE 0)
                                                     - (IF from \in P THEN 1 ELSE 0)
<1> DEFINE S == At(P)
<1>1. /\ S' = IF to \in P THEN S \cup {t} ELSE S \ {t}
      /\ t \in S <=> from \in P
  BY DEF TypeOK, Move, At
<1>2. IsFiniteSet(S) /\ Cardinality(S) \in Nat
  BY AtFinite
<1>3. /\ Cardinality(S \cup {t}) = IF t \in S THEN Cardinality(S) ELSE Cardinality(S) + 1
      /\ Cardinality(S \ {t}) = IF t \in S THEN Cardinality(S) - 1 ELSE Cardinality(S)
  <2> HIDE DEF S
  <2>1. QED
    BY <1>2, FS_AddElement, FS_RemoveElement
<1> HIDE DEF S
<1>4. Cardinality(S') = Cardinality(S) + (IF to \in P THEN 1 ELSE 0) - (IF from \in P THEN 1 ELSE 0)
  BY <1>1, <1>2, <1>3
<1>5. QED
  BY <1>1, <1>4 DEF S

-----------------------------------------------------------------------------
\* What the counts become when a thread moves between two places.
GuardP == {"rcount", "rexcl", "rundo", "rgiveup", "rdone",
           "wexcl", "wgiveup", "writing", "wleave"}
CountP == {"rexcl", "rundo", "rdone", "reading"}
PendP  == {"rexcl", "rundo"}
SoleP  == {"writing", "rlast"}

LEMMA Counts ==
  ASSUME TypeOK, NEW t \in Threads, NEW from, NEW to \in Places, Move(t, from, to)
  PROVE  /\ Cardinality(Guarding') = Cardinality(Guarding)
               + (IF to \in GuardP THEN 1 ELSE 0) - (IF from \in GuardP THEN 1 ELSE 0)
         /\ Cardinality(Counted') = Cardinality(Counted)
               + (IF to \in CountP THEN 1 ELSE 0) - (IF from \in CountP THEN 1 ELSE 0)
         /\ Cardinality(Sole') = Cardinality(Sole)
               + (IF to \in SoleP THEN 1 ELSE 0) - (IF from \in SoleP THEN 1 ELSE 0)
         /\ Counted' = IF to \in CountP THEN Counted \cup {t} ELSE Counted \ {t}
         /\ Pending' = IF to \in PendP THEN Pending \cup {t} ELSE Pending \ {t}
         /\ t \in Guarding <=> from \in GuardP
         /\ t \in Counted <=> from \in CountP
         /\ t \in Pending <=> from \in PendP
         /\ t \in Sole <=> from \in SoleP
         /\ Cardinality(Counted') \in Nat
         /\ Cardinality(Counted') <= Cardinality(Threads)
<1>1. /\ Guarding = At(GuardP) /\ Counted = At(CountP)
      /\ Pending = At(PendP) /\ Sole = At(SoleP)
  BY DEF Guarding, Counted, Pending, Sole, GuardP, CountP, PendP, SoleP
<1>2. \A P : /\ At(P)' = IF to \in P THEN At(P) \cup {t} ELSE At(P) \ {t}
             /\ Cardinality(At(P)') = Cardinality(At(P)) + (IF to \in P THEN 1 ELSE 0)
                                                         - (IF from \in P THEN 1 ELSE 0)
  BY MoveCounts
<1>3. \A P : t \in At(P) <=> from \in P
  BY DEF TypeOK, Move, At
<1>4. /\ Guarding' = At(GuardP)' /\ Counted' = At(CountP)'
      /\ Pending' = At(PendP)' /\ Sole' = At(SoleP)'
  BY DEF Guarding, Counted, Pending, Sole, GuardP, CountP, PendP, SoleP, At
<1>5. Counted' \subseteq Threads
  BY DEF Counted, At
<1>6. /\ Cardinality(Counted') \in Nat
      /\ Cardinality(Counted') <= Cardinality(Threads)
  BY <1>5, ReadersAssumption, FS_Subset, FS_CardinalityType
<1>7. QED
  BY <1>1, <1>2, <1>3, <1>4, <1>6

\* What the invariant says of the sets.
LEMMA Sets ==
  ASSUME IInv
  PROVE  /\ Cardinality(Guarding) \in Nat
         /\ Cardinality(Counted) \in Nat
         /\ Cardinality(Sole) \in Nat
         /\ Cardinality(Counted) = 0 <=> Counted = {}
         /\ Cardinality(Sole) = 0 <=> Sole = {}
         /\ guarded = 0 <=> Guarding = {}
         /\ \A t \in Counted : readers = 1 <=> Counted = {t}
         /\ Pending \subseteq Counted /\ Pending \subseteq Guarding
         /\ \A t \in Guarding : Guarding = {t}
         /\ \A t \in Sole : Sole = {t}
<1>1. /\ Guarding = At(GuardP) /\ Counted = At(CountP)
      /\ Pending = At(PendP) /\ Sole = At(SoleP)
  BY DEF Guarding, Counted, Pending, Sole, GuardP, CountP, PendP, SoleP
<1>2. /\ IsFiniteSet(Guarding) /\ Cardinality(Guarding) \in Nat
      /\ Cardinality(Guarding) = 0 <=> Guarding = {}
      /\ IsFiniteSet(Counted) /\ Cardinality(Counted) \in Nat
      /\ Cardinality(Counted) = 0 <=> Counted = {}
      /\ IsFiniteSet(Sole) /\ Cardinality(Sole) \in Nat
      /\ Cardinality(Sole) = 0 <=> Sole = {}
  BY <1>1, AtFinite
<1>3. Pending \subseteq Counted /\ Pending \subseteq Guarding
  BY DEF At, Guarding, Counted, Pending
<1>4. Cardinality(Guarding) <= 1
  BY DEF IInv, TypeOK, GuardHeld
<1>5. Cardinality(Sole) <= 1
  BY <1>2 DEF IInv, TypeOK, ExclusiveHeld
<1>6. \A t \in Counted : readers = 1 <=> Counted = {t}
  <2>1. readers = Cardinality(Counted)
    BY DEF IInv, ReadersCounted
  <2>2. \A t \in Counted : Cardinality({t}) = 1
    BY FS_Singleton
  <2>3. QED
    BY <1>2, <2>1, <2>2, OnlyOne
<1>7. guarded = 0 <=> Guarding = {}
  BY <1>2 DEF IInv, GuardHeld
<1>8. QED
  BY <1>2, <1>3, <1>4, <1>5, <1>6, <1>7, OnlyOne

-----------------------------------------------------------------------------
(* The invariant is inductive                                               *)

LEMMA Initially == Init => IInv
<1> SUFFICES ASSUME Init
             PROVE  IInv
  OBVIOUS
<1>1. At(GuardP) = {} /\ At(CountP) = {} /\ At(SoleP) = {} /\ At(PendP) = {}
  BY DEF Init, At, GuardP, CountP, SoleP, PendP
<1>2. Guarding = {} /\ Counted = {} /\ Sole = {} /\ Pending = {}
  BY <1>1 DEF Guarding, Counted, Sole, Pending, GuardP, CountP, SoleP, PendP
<1>3. Cardinality({}) = 0
  BY FS_EmptySet
<1>4. Cardinality(Threads) \in Nat
  BY ReadersAssumption, FS_CardinalityType
<1>5. TypeOK
  BY <1>4 DEF Init, TypeOK
<1>6. QED
  BY <1>2, <1>3, <1>5 DEF Init, IInv, GuardHeld, ReadersCounted, ExclusiveHeld

LEMMA Stuttering ==
  ASSUME IInv, UNCHANGED vars
  PROVE  IInv'
BY DEF IInv, vars, TypeOK, GuardHeld, ReadersCounted, ExclusiveHeld, Guarding,
       Counted, Pending, Sole, At

\* A step that moves t and does to each variable what its move asks for.
LEMMA Preserved ==
  ASSUME IInv, NEW t \in Threads, NEW from \in Places, NEW to \in Places,
         Move(t, from, to), timed' \in [Threads -> BOOLEAN],
         guarded' \in {0, 1}, exclusive' \in {0, 1}, readers' \in Int,
         guarded' = guarded + (IF to \in GuardP THEN 1 ELSE 0)
                            - (IF from \in GuardP THEN 1 ELSE 0),
         readers' = readers + (IF to \in CountP THEN 1 ELSE 0)
                            - (IF from \in CountP THEN 1 ELSE 0),
         Pending' # {} => Counted' = Pending',
         exclusive' = Cardinality(Sole') + (IF Counted' \ Pending' # {} THEN 1 ELSE 0)
  PROVE  IInv'
<1>1. /\ GuardHeld'
      /\ readers' = Cardinality(Counted')
  BY Counts, Sets DEF IInv, GuardHeld, ReadersCounted
<1>2. TypeOK'
  <2>1. pc' \in [Threads -> Places]
    BY DEF IInv, TypeOK, Move, Places
  <2>2. readers' \in 0..Cardinality(Threads)
    <3>1. Cardinality(Counted') \in Nat /\ Cardinality(Counted') <= Cardinality(Threads)
      BY Counts DEF IInv
    <3>2. Cardinality(Threads) \in Nat
      BY ReadersAssumption, FS_CardinalityType
    <3>3. QED
      BY <1>1, <3>1, <3>2
  <2>3. QED
    BY <2>1, <2>2 DEF TypeOK, Places
<1>3. QED
  BY <1>1, <1>2 DEF IInv, ReadersCounted, ExclusiveHeld

\* The invariant makes the exclusive mutex tell who may be inside.
LEMMA Exclusion ==
  ASSUME IInv
  PROVE  /\ exclusive = 0 => Sole = {} /\ Counted \subseteq Pending
         /\ Sole # {} => /\ exclusive = 1
                         /\ Cardinality(Sole) = 1
                         /\ Counted \subseteq Pending
         /\ Counted \ Pending # {} => exclusive = 1 /\ Pending = {} /\ Sole = {}
         /\ Counted = {} <=> readers = 0
<1>1. /\ exclusive = Cardinality(Sole) + (IF Counted \ Pending # {} THEN 1 ELSE 0)
      /\ exclusive \in {0, 1}
      /\ Cardinality(Sole) \in Nat
      /\ Cardinality(Sole) = 0 <=> Sole = {}
  BY Sets DEF IInv, TypeOK, ExclusiveHeld
<1>2. QED
  BY <1>1, Sets DEF IInv, ReadersCounted

LEMMA Guarded ==
  ASSUME IInv, NEW t \in Threads, pc[t] \in GuardP
  PROVE  guarded = 1
<1>1. t \in Guarding
  BY DEF Guarding, At, GuardP
<1>2. QED
  BY <1>1, Sets DEF IInv, TypeOK

\* A step that changes the guard at most, and nobody's part in the exclusive
\* mutex or in the count.
LEMMA MoveAside ==
  ASSUME IInv, NEW t \in Threads, NEW from \in Places, NEW to \in Places,
         Move(t, from, to), UNCHANGED <<exclusive, readers, timed>>,
         guarded' \in {0, 1},
         guarded' = guarded + (IF to \in GuardP THEN 1 ELSE 0)
                            - (IF from \in GuardP THEN 1 ELSE 0),
         from \in CountP <=> to \in CountP,
         from \in PendP <=> to \in PendP,
         from \in SoleP <=> to \in SoleP
  PROVE  IInv'
<1>1. Counted' = Counted /\ Pending' = Pending /\ Sole' = Sole
  BY DEF IInv, TypeOK, Move, Counted, Pending, Sole, At, CountP, PendP, SoleP
<1>2. /\ timed' \in [Threads -> BOOLEAN] /\ exclusive' \in {0, 1} /\ readers' \in Int
      /\ readers' = readers + (IF to \in CountP THEN 1 ELSE 0)
                             - (IF from \in CountP THEN 1 ELSE 0)
  BY DEF IInv, TypeOK
<1>3. /\ Pending' # {} => Counted' = Pending'
      /\ exclusive' = Cardinality(Sole') + (IF Counted' \ Pending' # {} THEN 1 ELSE 0)
  BY <1>1 DEF IInv, ReadersCounted, ExclusiveHeld
<1>4. QED
  BY <1>2, <1>3, Preserved

LEMMA Few == Cardinality({}) = 0 /\ \A t \in Threads : Cardinality({t}) = 1
BY FS_EmptySet, FS_Singleton

\* A reader comes and goes.
LEMMA ReaderSteps ==
  ASSUME IInv, NEW t \in Threads, AsReader(t) \/ UncountReader(t) \/ LeaveLast(t)
  PROVE  IInv'
<1>0. /\ TypeOK /\ ReadersCounted
      /\ Pending # {} => Counted = Pending
      /\ exclusive = Cardinality(Sole) + (IF Counted \ Pending # {} THEN 1 ELSE 0)
  BY DEF IInv, ReadersCounted, ExclusiveHeld
<1>1. CASE LockGuard(t, "rguard", "rcount")
  BY <1>0, <1>1, MoveAside DEF LockGuard, TypeOK, Places, ReaderPlaces, WriterPlaces,
     GuardP, CountP, PendP, SoleP
<1>2. CASE TimeOut(t, "rguard", "idle")
  BY <1>0, <1>2, MoveAside DEF TimeOut, TypeOK, Places, ReaderPlaces, WriterPlaces,
     GuardP, CountP, PendP, SoleP
<1>3. CASE CountReader(t) /\ readers = 0
  <2>1. Move(t, "rcount", "rexcl") /\ "rcount" \in Places /\ "rexcl" \in Places
    BY <1>3 DEF CountReader, Places, ReaderPlaces, WriterPlaces
  <2>2. /\ Counted' = Counted \cup {t} /\ t \notin Counted
        /\ Pending' = Pending \cup {t} /\ t \notin Pending
        /\ Sole' = Sole /\ t \notin Sole
        /\ t \in Guarding
    BY <1>0, <2>1 DEF TypeOK, Move, Guarding, Counted, Pending, Sole, At
  <2>3. /\ Pending' # {} => Counted' = Pending'
        /\ exclusive' = Cardinality(Sole') + (IF Counted' \ Pending' # {} THEN 1 ELSE 0)
    BY <1>0, <1>3, <2>2, Sets, Exclusion, Few DEF CountReader
  <2>4. /\ guarded' \in {0, 1} /\ exclusive' \in {0, 1} /\ readers' \in Int
        /\ timed' \in [Threads -> BOOLEAN]
        /\ guarded' = guarded + (IF "rexcl" \in GuardP THEN 1 ELSE 0)
                               - (IF "rcount" \in GuardP THEN 1 ELSE 0)
        /\ readers' = readers + (IF "rexcl" \in CountP THEN 1 ELSE 0)
                               - (IF "rcount" \in CountP THEN 1 ELSE 0)
    BY <1>0, <1>3 DEF CountReader, TypeOK, GuardP, CountP
  <2>5. QED
    BY <2>1, <2>3, <2>4, Preserved
<1>4. CASE CountReader(t) /\ readers # 0
  <2>1. Move(t, "rcount", "rdone") /\ "rcount" \in Places /\ "rdone" \in Places
    BY <1>4 DEF CountReader, Places, ReaderPlaces, WriterPlaces
  <2>2. /\ Counted' = Counted \cup {t} /\ t \notin Counted
        /\ Pending' = Pending /\ t \notin Pending
        /\ Sole' = Sole /\ t \notin Sole
        /\ t \in Guarding
    BY <1>0, <2>1 DEF TypeOK, Move, Guarding, Counted, Pending, Sole, At
  <2>3. /\ Pending' # {} => Counted' = Pending'
        /\ exclusive' = Cardinality(Sole') + (IF Counted' \ Pending' # {} THEN 1 ELSE 0)
    BY <1>0, <1>4, <2>2, Sets, Exclusion, Few DEF CountReader
  <2>4. /\ guarded' \in {0, 1} /\ exclusive' \in {0, 1} /\ readers' \in Int
        /\ timed' \in [Threads -> BOOLEAN]
        /\ guarded' = guarded + (IF "rdone" \in GuardP THEN 1 ELSE 0)
                               - (IF "rcount" \in GuardP THEN 1 ELSE 0)
        /\ readers' = readers + (IF "rdone" \in CountP THEN 1 ELSE 0)
                               - (IF "rcount" \in CountP THEN 1 ELSE 0)
    BY <1>0, <1>4 DEF CountReader, TypeOK, GuardP, CountP
  <2>5. QED
    BY <2>1, <2>3, <2>4, Preserved
<1>5. CASE LockExclusive(t, "rexcl", "rdone")
  <2>1. Move(t, "rexcl", "rdone") /\ "rexcl" \in Places /\ "rdone" \in Places
    BY <1>5 DEF LockExclusive, Places, ReaderPlaces, WriterPlaces
  <2>2. /\ Counted' = Counted /\ t \in Counted
        /\ Pending' = Pending \ {t} /\ t \in Pending
        /\ Sole' = Sole /\ t \notin Sole
        /\ t \in Guarding
    BY <1>0, <2>1 DEF TypeOK, Move, Guarding, Counted, Pending, Sole, At
  <2>3. /\ Pending' # {} => Counted' = Pending'
        /\ exclusive' = Cardinality(Sole') + (IF Counted' \ Pending' # {} THEN 1 ELSE 0)
    BY <1>0, <1>5, <2>2, Sets, Exclusion, Few DEF LockExclusive
  <2>4. /\ guarded' \in {0, 1} /\ exclusive' \in {0, 1} /\ readers' \in Int
        /\ timed' \in [Threads -> BOOLEAN]
        /\ guarded' = guarded + (IF "rdone" \in GuardP THEN 1 ELSE 0)
                               - (IF "rexcl" \in GuardP THEN 1 ELSE 0)
        /\ readers' = readers + (IF "rdone" \in CountP THEN 1 ELSE 0)
                               - (IF "rexcl" \in CountP THEN 1 ELSE 0)
    BY <1>0, <1>5 DEF LockExclusive, TypeOK, GuardP, CountP
  <2>5. QED
    BY <2>1, <2>3, <2>4, Preserved
<1>6. CASE TimeOut(t, "rexcl", "rundo")
  BY <1>0, <1>6, MoveAside DEF TimeOut, TypeOK, Places, ReaderPlaces, WriterPlaces,
     GuardP, CountP, PendP, SoleP
<1>7. CASE UndoReader(t)
  <2>1. Move(t, "rundo", "rgiveup") /\ "rundo" \in Places /\ "rgiveup" \in Places
    BY <1>7 DEF UndoReader, Places, ReaderPlaces, WriterPlaces
  <2>2. /\ Counted' = Counted \ {t} /\ t \in Counted
        /\ Pending' = Pending \ {t} /\ t \in Pending
        /\ Sole' = Sole /\ t \notin Sole
        /\ t \in Guarding
    BY <1>0, <2>1 DEF TypeOK, Move, Guarding, Counted, Pending, Sole, At
  <2>3. /\ Pending' # {} => Counted' = Pending'
        /\ exclusive' = Cardinality(Sole') + (IF Counted' \ Pending' # {} THEN 1 ELSE 0)
    BY <1>0, <1>7, <2>2, Sets, Exclusion, Few DEF UndoReader
  <2>4. /\ guarded' \in {0, 1} /\ exclusive' \in {0, 1} /\ readers' \in Int
        /\ timed' \in [Threads -> BOOLEAN]
        /\ guarded' = guarded + (IF "rgiveup" \in GuardP THEN 1 ELSE 0)
                               - (IF "rundo" \in GuardP THEN 1 ELSE 0)
        /\ readers' = readers + (IF "rgiveup" \in CountP THEN 1 ELSE 0)
                               - (IF "rundo" \in CountP THEN 1 ELSE 0)
    BY <1>0, <1>7 DEF UndoReader, TypeOK, GuardP, CountP
  <2>5. QED
    BY <2>1, <2>3, <2>4, Preserved
<1>8. CASE UnlockGuard(t, "rgiveup", "idle")
  <2>1. guarded = 1
    BY <1>8, Guarded DEF Move, UnlockGuard, GuardP
  <2>2. QED
    BY <1>0, <1>8, <2>1, MoveAside DEF UnlockGuard, TypeOK, Places, ReaderPlaces,
       WriterPlaces, GuardP, CountP, PendP, SoleP
<1>9. CASE UnlockGuard(t, "rdone", "reading")
  <2>1. guarded = 1
    BY <1>9, Guarded DEF Move, UnlockGuard, GuardP
  <2>2. QED
    BY <1>0, <1>9, <2>1, MoveAside DEF UnlockGuard, TypeOK, Places, ReaderPlaces,
       WriterPlaces, GuardP, CountP, PendP, SoleP
<1>10. CASE UncountReader(t) /\ readers = 1
  <2>1. Move(t, "reading", "rlast") /\ "reading" \in Places /\ "rlast" \in Places
    BY <1>10 DEF UncountReader, Places, ReaderPlaces, WriterPlaces
  <2>2. /\ Counted' = Counted \ {t} /\ t \in Counted
        /\ Pending' = Pending /\ t \notin Pending
        /\ Sole' = Sole \cup {t} /\ t \notin Sole
    BY <1>0, <2>1 DEF TypeOK, Move, Guarding, Counted, Pending, Sole, At
  <2>3. /\ Pending' # {} => Counted' = Pending'
        /\ exclusive' = Cardinality(Sole') + (IF Counted' \ Pending' # {} THEN 1 ELSE 0)
    BY <1>0, <1>10, <2>2, Sets, Exclusion, Few DEF UncountReader
  <2>4. /\ guarded' \in {0, 1} /\ exclusive' \in {0, 1} /\ readers' \in Int
        /\ timed' \in [Threads -> BOOLEAN]
        /\ guarded' = guarded + (IF "rlast" \in GuardP THEN 1 ELSE 0)
                               - (IF "reading" \in GuardP THEN 1 ELSE 0)
        /\ readers' = readers + (IF "rlast" \in CountP THEN 1 ELSE 0)
                               - (IF "reading" \in CountP THEN 1 ELSE 0)
    BY <1>0, <1>10 DEF UncountReader, TypeOK, GuardP, CountP
  <2>5. QED
    BY <2>1, <2>3, <2>4, Preserved
<1>11. CASE UncountReader(t) /\ readers # 1
  <2>1. Move(t, "reading", "idle") /\ "reading" \in Places /\ "idle" \in Places
    BY <1>11 DEF UncountReader, Places, ReaderPlaces, WriterPlaces
  <2>2. /\ Counted' = Counted \ {t} /\ t \in Counted
        /\ Pending' = Pending /\ t \notin Pending
        /\ Sole' = Sole /\ t \notin Sole
    BY <1>0, <2>1 DEF TypeOK, Move, Guarding, Counted, Pending, Sole, At
  <2>3. /\ Pending' # {} => Counted' = Pending'
        /\ exclusive' = Cardinality(Sole') + (IF Counted' \ Pending' # {} THEN 1 ELSE 0)
    BY <1>0, <1>11, <2>2, Sets, Exclusion, Few DEF UncountReader
  <2>4. /\ guarded' \in {0, 1} /\ exclusive' \in {0, 1} /\ readers' \in Int
        /\ timed' \in [Threads -> BOOLEAN]
        /\ guarded' = guarded + (IF "idle" \in GuardP THEN 1 ELSE 0)
                               - (IF "reading" \in GuardP THEN 1 ELSE 0)
        /\ readers' = readers + (IF "idle" \in CountP THEN 1 ELSE 0)
                               - (IF "reading" \in CountP THEN 1 ELSE 0)
    BY <1>0, <1>11 DEF UncountReader, TypeOK, GuardP, CountP
  <2>5. QED
    BY <2>1, <2>3, <2>4, Preserved
<1>12. CASE LeaveLast(t)
  <2>1. Move(t, "rlast", "idle") /\ "rlast" \in Places /\ "idle" \in Places
    BY <1>12 DEF LeaveLast, UnlockExclusive, Places, ReaderPlaces, WriterPlaces
  <2>2. /\ Counted' = Counted /\ t \notin Counted
        /\ Pending' = Pending /\ t \notin Pending
        /\ Sole' = Sole \ {t} /\ t \in Sole
    BY <1>0, <2>1 DEF TypeOK, Move, Guarding, Counted, Pending, Sole, At
  <2>3. /\ Pending' # {} => Counted' = Pending'
        /\ exclusive' = Cardinality(Sole') + (IF Counted' \ Pending' # {} THEN 1 ELSE 0)
    BY <1>0, <1>12, <2>2, Sets, Exclusion, Few DEF LeaveLast, UnlockExclusive
  <2>4. /\ guarded' \in {0, 1} /\ exclusive' \in {0, 1} /\ readers' \in Int
        /\ timed' \in [Threads -> BOOLEAN]
        /\ guarded' = guarded + (IF "idle" \in GuardP THEN 1 ELSE 0)
                               - (IF "rlast" \in GuardP THEN 1 ELSE 0)
        /\ readers' = readers + (IF "idle" \in CountP THEN 1 ELSE 0)
                               - (IF "rlast" \in CountP THEN 1 ELSE 0)
    BY <1>0, <1>12 DEF LeaveLast, UnlockExclusive, TypeOK, GuardP, CountP
  <2>5. QED
    BY <2>1, <2>3, <2>4, Preserved
<1>13. QED
  BY <1>1, <1>2, <1>3, <1>4, <1>5, <1>6, <1>7, <1>8, <1>9, <1>10, <1>11, <1>12 DEF AsReader

\* A writer comes and goes.
LEMMA WriterSteps ==
  ASSUME IInv, NEW t \in Threads, AsWriter(t) \/ UnlockAsWriter(t) \/ LeaveWriter(t)
  PROVE  IInv'
<1>0. /\ TypeOK /\ ReadersCounted
      /\ Pending # {} => Counted = Pending
      /\ exclusive = Cardinality(Sole) + (IF Counted \ Pending # {} THEN 1 ELSE 0)
  BY DEF IInv, ReadersCounted, ExclusiveHeld
<1>1. CASE LockGuard(t, "wguard", "wexcl")
  BY <1>0, <1>1, MoveAside DEF LockGuard, TypeOK, Places, ReaderPlaces, WriterPlaces,
     GuardP, CountP, PendP, SoleP
<1>2. CASE TimeOut(t, "wguard", "idle")
  BY <1>0, <1>2, MoveAside DEF TimeOut, TypeOK, Places, ReaderPlaces, WriterPlaces,
     GuardP, CountP, PendP, SoleP
<1>3. CASE LockExclusive(t, "wexcl", "writing")
  <2>1. Move(t, "wexcl", "writing") /\ "wexcl" \in Places /\ "writing" \in Places
    BY <1>3 DEF LockExclusive, Places, ReaderPlaces, WriterPlaces
  <2>2. /\ Counted' = Counted /\ t \notin Counted
        /\ Pending' = Pending /\ t \notin Pending
        /\ Sole' = Sole \cup {t} /\ t \notin Sole
        /\ t \in Guarding
    BY <1>0, <2>1 DEF TypeOK, Move, Guarding, Counted, Pending, Sole, At
  <2>3. /\ Pending' # {} => Counted' = Pending'
        /\ exclusive' = Cardinality(Sole') + (IF Counted' \ Pending' # {} THEN 1 ELSE 0)
    BY <1>0, <1>3, <2>2, Sets, Exclusion, Few DEF LockExclusive
  <2>4. /\ guarded' \in {0, 1} /\ exclusive' \in {0, 1} /\ readers' \in Int
        /\ timed' \in [Threads -> BOOLEAN]
        /\ guarded' = guarded + (IF "writing" \in GuardP THEN 1 ELSE 0)
                               - (IF "wexcl" \in GuardP THEN 1 ELSE 0)
        /\ readers' = readers + (IF "writing" \in CountP THEN 1 ELSE 0)
                               - (IF "wexcl" \in CountP THEN 1 ELSE 0)
    BY <1>0, <1>3 DEF LockExclusive, TypeOK, GuardP, CountP
  <2>5. QED
    BY <2>1, <2>3, <2>4, Preserved
<1>4. CASE TimeOut(t, "wexcl", "wgiveup")
  BY <1>0, <1>4, MoveAside DEF TimeOut, TypeOK, Places, ReaderPlaces, WriterPlaces,
     GuardP, CountP, PendP, SoleP
<1>5. CASE UnlockGuard(t, "wgiveup", "idle")
  <2>1. guarded = 1
    BY <1>5, Guarded DEF Move, UnlockGuard, GuardP
  <2>2. QED
    BY <1>0, <1>5, <2>1, MoveAside DEF UnlockGuard, TypeOK, Places, ReaderPlaces,
       WriterPlaces, GuardP, CountP, PendP, SoleP
<1>6. CASE UnlockAsWriter(t)
  <2>1. Move(t, "writing", "wleave") /\ "writing" \in Places /\ "wleave" \in Places
    BY <1>6 DEF UnlockAsWriter, UnlockExclusive, Places, ReaderPlaces, WriterPlaces
  <2>2. /\ Counted' = Counted /\ t \notin Counted
        /\ Pending' = Pending /\ t \notin Pending
        /\ Sole' = Sole \ {t} /\ t \in Sole
        /\ t \in Guarding
    BY <1>0, <2>1 DEF TypeOK, Move, Guarding, Counted, Pending, Sole, At
  <2>3. /\ Pending' # {} => Counted' = Pending'
        /\ exclusive' = Cardinality(Sole') + (IF Counted' \ Pending' # {} THEN 1 ELSE 0)
    BY <1>0, <1>6, <2>2, Sets, Exclusion, Few DEF UnlockAsWriter, UnlockExclusive
  <2>4. /\ guarded' \in {0, 1} /\ exclusive' \in {0, 1} /\ readers' \in Int
        /\ timed' \in [Threads -> BOOLEAN]
        /\ guarded' = guarded + (IF "wleave" \in GuardP THEN 1 ELSE 0)
                               - (IF "writing" \in GuardP THEN 1 ELSE 0)
        /\ readers' = readers + (IF "wleave" \in CountP THEN 1 ELSE 0)
                               - (IF "writing" \in CountP THEN 1 ELSE 0)
    BY <1>0, <1>6 DEF UnlockAsWriter, UnlockExclusive, TypeOK, GuardP, CountP
  <2>5. QED
    BY <2>1, <2>3, <2>4, Preserved
<1>7. CASE LeaveWriter(t)
  <2>1. guarded = 1
    BY <1>7, Guarded DEF Move, LeaveWriter, UnlockGuard, GuardP
  <2>2. QED
    BY <1>0, <1>7, <2>1, MoveAside DEF LeaveWriter, UnlockGuard, TypeOK, Places, ReaderPlaces,
       WriterPlaces, GuardP, CountP, PendP, SoleP
<1>8. QED
  BY <1>1, <1>2, <1>3, <1>4, <1>5, <1>6, <1>7 DEF AsWriter

-----------------------------------------------------------------------------
\* What the four safety properties say holds together in every reachable state.
LEMMA Inductive == Spec => []IInv
<1>1. IInv /\ [Next]_vars => IInv'
  <2> SUFFICES ASSUME IInv, [Next]_vars
               PROVE  IInv'
    OBVIOUS
  <2>1. CASE UNCHANGED vars
    BY <2>1, Stuttering
  <2>2. ASSUME NEW t \in Threads, NEW how \in BOOLEAN, NEW place \in {"rguard", "wguard"},
               Begin(t, place, how)
        PROVE  IInv'
    <3>1. /\ Counted' = Counted /\ Pending' = Pending /\ Sole' = Sole
      BY <2>2 DEF IInv, TypeOK, Begin, Move, Counted, Pending, Sole, At
    <3>2. /\ Pending' # {} => Counted' = Pending'
          /\ exclusive' = Cardinality(Sole') + (IF Counted' \ Pending' # {} THEN 1 ELSE 0)
      BY <2>2, <3>1 DEF IInv, Begin, ReadersCounted, ExclusiveHeld
    <3>3. /\ Move(t, "idle", place) /\ "idle" \in Places /\ place \in Places
          /\ guarded' \in {0, 1} /\ exclusive' \in {0, 1} /\ readers' \in Int
          /\ timed' \in [Threads -> BOOLEAN]
      BY <2>2 DEF IInv, TypeOK, Begin, Places, ReaderPlaces, WriterPlaces
    <3>4. /\ guarded' = guarded + (IF place \in GuardP THEN 1 ELSE 0)
                                - (IF "idle" \in GuardP THEN 1 ELSE 0)
          /\ readers' = readers + (IF place \in CountP THEN 1 ELSE 0)
                                - (IF "idle" \in CountP THEN 1 ELSE 0)
      BY <2>2 DEF IInv, TypeOK, Begin, GuardP, CountP
    <3>5. QED
      BY <3>2, <3>3, <3>4, Preserved
  <2>3. ASSUME NEW t \in Threads, Proceed(t) \/ Unlock(t)
        PROVE  IInv'
    BY <2>3, ReaderSteps, WriterSteps DEF Proceed, Unlock
  <2>4. QED
    BY <2>1, <2>2, <2>3 DEF Next
<1>2. QED
  BY Initially, <1>1, PTL DEF Spec

\* Every variable keeps its type: x_uReaders never wraps below 0, and never
\* counts more readers than there are threads.
THEOREM TypeCorrect == Spec => []TypeOK
<1>1. IInv => TypeOK
  BY DEF IInv
<1>2. QED
  BY <1>1, Inductive, PTL

\* x_mtxReaderGuard is held by one thread, from its lock to its unlock.
THEOREM GuardIsHeld == Spec => []GuardHeld
<1>1. IInv => GuardHeld
  BY DEF IInv
<1>2. QED
  BY <1>1, Inductive, PTL

\* x_uReaders is the number of readers although UnlockAsReader decrements it
\* without the guard, and a reader that waits for the others' mutex is alone.
THEOREM ReadersAreCounted == Spec => []ReadersCounted
<1>1. IInv => ReadersCounted
  BY DEF IInv
<1>2. QED
  BY <1>1, Inductive, PTL

\* x_mtxExclusive is locked exactly while readers or a writer answer for it,
\* whichever reader locks it and whichever unlocks it.
THEOREM ExclusiveIsHeld == Spec => []ExclusiveHeld
<1>1. IInv => ExclusiveHeld
  BY DEF IInv
<1>2. QED
  BY <1>1, Inductive, PTL

-----------------------------------------------------------------------------
(* The refinement                                                           *)

role == [t \in Threads |-> Role(t)]

\* A step that moves t changes the role of no other thread.
LEMMA RoleMoves ==
  ASSUME IInv, NEW t \in Threads, NEW from, NEW to \in Places, Move(t, from, to)
  PROVE  /\ role[t] = Role(t)
         /\ role' = [role EXCEPT ![t] = Role(t)']
<1>1. /\ pc' \in [Threads -> Places]
      /\ \A u \in Threads : u # t => pc'[u] = pc[u]
  BY DEF IInv, TypeOK, Move, Places
<1>2. \A u \in Threads : u # t => Role(u)' = Role(u)
  BY <1>1 DEF Role
<1>3. QED
  BY <1>2 DEF role

\* Nobody writes while a reader is let in; nobody is inside when a writer is.
LEMMA Entry ==
  ASSUME IInv, NEW t \in Threads
  PROVE  /\ pc[t] = "rdone" => Abstract!In("writer") = {}
         /\ pc[t] = "wexcl" /\ exclusive = 0 => Abstract!Idle
<1>1. \A u \in Threads : /\ Role(u) = "writer" => u \in Sole
                         /\ Role(u) = "reader" => u \in Counted \ Pending
  BY DEF Role, Sole, Counted, Pending, At
<1>2. pc[t] = "rdone" => t \in Counted \ Pending
  BY DEF Counted, Pending, At
<1>3. QED
  BY <1>1, <1>2, Exclusion DEF Abstract!In, Abstract!Idle

LEMMA ReaderRefines ==
  ASSUME IInv, NEW t \in Threads, AsReader(t) \/ UncountReader(t) \/ LeaveLast(t)
  PROVE  Abstract!Next \/ role' = role
<1>0. role \in [Threads -> Abstract!Roles] /\ DOMAIN role = Threads
  BY DEF role, Role, Abstract!Roles
<1>a. ASSUME NEW from, NEW to \in Places, Move(t, from, to), Role(t)' = Role(t)
      PROVE  role' = role
  BY <1>a, <1>0, RoleMoves
<1>b. ASSUME Move(t, "rguard", "idle") \/ Move(t, "rgiveup", "idle")
      PROVE  Abstract!Next
  <2>1. role' = [role EXCEPT ![t] = Role(t)'] /\ role[t] = Role(t)
    BY <1>b, RoleMoves DEF Places, ReaderPlaces
  <2>2. Role(t) = "reader waits" /\ Role(t)' = "out"
    BY <1>b DEF IInv, TypeOK, Move, Role
  <2>3. Abstract!GiveUp(t)
    BY <2>1, <2>2 DEF Abstract!GiveUp, Abstract!Become, role
  <2>4. QED
    BY <2>3 DEF Abstract!Next, Abstract!Served
<1>1. CASE LockGuard(t, "rguard", "rcount")
  BY <1>1, <1>a DEF LockGuard, Move, Role, IInv, TypeOK, Places, ReaderPlaces
<1>2. CASE TimeOut(t, "rguard", "idle")
  BY <1>2, <1>b DEF TimeOut
<1>3. CASE CountReader(t)
  BY <1>3, <1>a DEF CountReader, Move, Role, IInv, TypeOK, Places, ReaderPlaces
<1>4. CASE LockExclusive(t, "rexcl", "rdone")
  BY <1>4, <1>a DEF LockExclusive, Move, Role, IInv, TypeOK, Places, ReaderPlaces
<1>5. CASE TimeOut(t, "rexcl", "rundo")
  BY <1>5, <1>a DEF TimeOut, Move, Role, IInv, TypeOK, Places, ReaderPlaces
<1>6. CASE UndoReader(t)
  BY <1>6, <1>a DEF UndoReader, Move, Role, IInv, TypeOK, Places, ReaderPlaces
<1>7. CASE UnlockGuard(t, "rgiveup", "idle")
  BY <1>7, <1>b DEF UnlockGuard
<1>8. CASE UnlockGuard(t, "rdone", "reading")
  <2>1. Move(t, "rdone", "reading") /\ pc[t] = "rdone"
    BY <1>8 DEF UnlockGuard, Move
  <2>2. role' = [role EXCEPT ![t] = Role(t)'] /\ role[t] = Role(t)
    BY <2>1, RoleMoves DEF Places, ReaderPlaces
  <2>3. Role(t) = "reader waits" /\ Role(t)' = "reader"
    BY <2>1 DEF IInv, TypeOK, Move, Role
  <2>4. Abstract!Read(t)
    BY <2>1, <2>2, <2>3, Entry DEF Abstract!Read, Abstract!Become, role
  <2>5. QED
    BY <2>4 DEF Abstract!Next, Abstract!Served
<1>9. CASE UncountReader(t)
  <2>1. PICK to \in {"rlast", "idle"} : Move(t, "reading", to)
    BY <1>9 DEF UncountReader, Move
  <2>2. role' = [role EXCEPT ![t] = Role(t)'] /\ role[t] = Role(t)
    BY <2>1, RoleMoves DEF Places, ReaderPlaces
  <2>3. Role(t) = "reader" /\ Role(t)' = "out"
    BY <2>1 DEF IInv, TypeOK, Move, Role
  <2>4. Abstract!Leave(t)
    BY <2>2, <2>3 DEF Abstract!Leave, Abstract!Become, role
  <2>5. QED
    BY <2>4 DEF Abstract!Next
<1>10. CASE LeaveLast(t)
  BY <1>10, <1>a DEF LeaveLast, UnlockExclusive, Move, Role, IInv, TypeOK, Places, ReaderPlaces
<1>11. QED
  BY <1>1, <1>2, <1>3, <1>4, <1>5, <1>6, <1>7, <1>8, <1>9, <1>10 DEF AsReader

LEMMA WriterRefines ==
  ASSUME IInv, NEW t \in Threads, AsWriter(t) \/ UnlockAsWriter(t) \/ LeaveWriter(t)
  PROVE  Abstract!Next \/ role' = role
<1>0. role \in [Threads -> Abstract!Roles] /\ DOMAIN role = Threads
  BY DEF role, Role, Abstract!Roles
<1>a. ASSUME NEW from, NEW to \in Places, Move(t, from, to), Role(t)' = Role(t)
      PROVE  role' = role
  BY <1>a, <1>0, RoleMoves
<1>b. ASSUME Move(t, "wguard", "idle") \/ Move(t, "wgiveup", "idle")
      PROVE  Abstract!Next
  <2>1. role' = [role EXCEPT ![t] = Role(t)'] /\ role[t] = Role(t)
    BY <1>b, RoleMoves DEF Places, WriterPlaces
  <2>2. Role(t) = "writer waits" /\ Role(t)' = "out"
    BY <1>b DEF IInv, TypeOK, Move, Role
  <2>3. Abstract!GiveUp(t)
    BY <2>1, <2>2 DEF Abstract!GiveUp, Abstract!Become, role
  <2>4. QED
    BY <2>3 DEF Abstract!Next, Abstract!Served
<1>1. CASE LockGuard(t, "wguard", "wexcl")
  BY <1>1, <1>a DEF LockGuard, Move, Role, IInv, TypeOK, Places, WriterPlaces
<1>2. CASE TimeOut(t, "wguard", "idle")
  BY <1>2, <1>b DEF TimeOut
<1>3. CASE LockExclusive(t, "wexcl", "writing")
  <2>1. Move(t, "wexcl", "writing") /\ pc[t] = "wexcl" /\ exclusive = 0
    BY <1>3 DEF LockExclusive, Move
  <2>2. role' = [role EXCEPT ![t] = Role(t)'] /\ role[t] = Role(t)
    BY <2>1, RoleMoves DEF Places, WriterPlaces
  <2>3. Role(t) = "writer waits" /\ Role(t)' = "writer"
    BY <2>1 DEF IInv, TypeOK, Move, Role
  <2>4. Abstract!Write(t)
    BY <2>1, <2>2, <2>3, Entry DEF Abstract!Write, Abstract!Become, role
  <2>5. QED
    BY <2>4 DEF Abstract!Next, Abstract!Served
<1>4. CASE TimeOut(t, "wexcl", "wgiveup")
  BY <1>4, <1>a DEF TimeOut, Move, Role, IInv, TypeOK, Places, WriterPlaces
<1>5. CASE UnlockGuard(t, "wgiveup", "idle")
  BY <1>5, <1>b DEF UnlockGuard
<1>6. CASE UnlockAsWriter(t)
  <2>1. Move(t, "writing", "wleave")
    BY <1>6 DEF UnlockAsWriter, UnlockExclusive
  <2>2. role' = [role EXCEPT ![t] = Role(t)'] /\ role[t] = Role(t)
    BY <2>1, RoleMoves DEF Places, WriterPlaces
  <2>3. Role(t) = "writer" /\ Role(t)' = "out"
    BY <2>1 DEF IInv, TypeOK, Move, Role
  <2>4. Abstract!Leave(t)
    BY <2>2, <2>3 DEF Abstract!Leave, Abstract!Become, role
  <2>5. QED
    BY <2>4 DEF Abstract!Next
<1>7. CASE LeaveWriter(t)
  BY <1>7, <1>a DEF LeaveWriter, UnlockGuard, Move, Role, IInv, TypeOK, Places, WriterPlaces
<1>8. QED
  BY <1>1, <1>2, <1>3, <1>4, <1>5, <1>6, <1>7 DEF AsWriter

LEMMA StepRefines == IInv /\ [Next]_vars => [Abstract!Next]_role
<1> SUFFICES ASSUME IInv, [Next]_vars PROVE Abstract!Next \/ role' = role
  OBVIOUS
<1>1. CASE UNCHANGED vars
  BY <1>1 DEF vars, role, Role
<1>2. ASSUME NEW t \in Threads, NEW how \in BOOLEAN, NEW place \in {"rguard", "wguard"},
             Begin(t, place, how)
      PROVE  Abstract!Next
  <2>1. Move(t, "idle", place)
    BY <1>2 DEF Begin
  <2>2. role' = [role EXCEPT ![t] = Role(t)'] /\ role[t] = Role(t)
    BY <2>1, <1>2, RoleMoves DEF Places, ReaderPlaces, WriterPlaces
  <2>3. /\ Role(t) = "out"
        /\ Role(t)' = IF place = "rguard" THEN "reader waits" ELSE "writer waits"
    BY <2>1, <1>2 DEF IInv, TypeOK, Move, Role
  <2>4. Abstract!Request(t)
    BY <2>2, <2>3 DEF Abstract!Request, Abstract!Become, role
  <2>5. QED
    BY <2>4 DEF Abstract!Next
<1>3. QED
  BY <1>1, <1>2, ReaderRefines, WriterRefines DEF Next, Proceed, Unlock

\* The readers-writer mutex is the abstract readers-writer lock: readers share
\* it, a writer is alone, for any number of threads and any interleaving of
\* ReadersWriterMutex.cpp.
THEOREM ReadersWriterImplementsLock == Spec => Abstract!Spec
<1>1. Init => Abstract!Init
  BY DEF Init, Abstract!Init, Role
<1>2. IInv /\ [Next]_vars => [Abstract!Next]_(Abstract!vars)
  BY StepRefines DEF role, Abstract!vars
<1>3. QED
  BY <1>1, <1>2, Inductive, PTL DEF Spec, Abstract!Spec

-----------------------------------------------------------------------------
\* All that TLC checks of the states of the lock holds for every set of threads:
\* the guard, the count and the exclusive mutex agree with who is where.
THEOREM SafetyHolds == Spec => []Safety
BY TypeCorrect, GuardIsHeld, ReadersAreCounted, ExclusiveIsHeld, PTL DEF Safety


==============================================================================
