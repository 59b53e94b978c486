---------------------------- MODULE IntrusivePtr ----------------------------
(***************************************************************************)
(* IntrusivePtr and IntrusiveWeakPtr (SmartPointers/IntrusivePtr.hpp):     *)
(* threads share an object that counts the strong references to it.  Weak  *)
(* references go through a view, made when the first one is: a counted     *)
(* block of a FixedSizeAllocator, whose first word is the count, and which *)
(* knows its owner under a mutex.                                          *)
(*                                                                         *)
(* There is one object at a time; when it is gone another may be made.     *)
(* Every access to a shared word is a step of its own.                     *)
(***************************************************************************)
EXTENDS Integers, FiniteSets, Totals

CONSTANTS Blocks,    \* the addresses of all blocks there will be, greater than any count
          Threads, NoThread,
          MaxRefs,   \* bound: strong references of a thread, and weak ones to a view
          Careful    \* whether a last weak reference is kept while the owner leaves the view

VARIABLES pool,      \* x_vControl of the allocator: the first and the last block of its list
          word,      \* the first word of each block
          use,       \* of each block: "fresh" (the backing allocator's), "free" or "used"
          life,      \* of the object: "none", "alive" or "dying"
          ref,       \* x_uRef of the object
          view,      \* x_pView of the object
          owner,     \* whether x_pOwner of the view in a block is the object
          guard,     \* x_mtxGuard of the view in a block: the thread in it, or NoThread
          strong,    \* the strong references of a thread
          weak,      \* its weak references, by view
          pc, reg,   \* the place of a thread, and the view it works on
          list       \* what a thread has taken from the allocator

object == <<life, ref, view>>
handles == <<strong, weak>>
allocator == <<pool, word, use>>
vars == <<object, allocator, owner, guard, handles, pc, reg, list>>

-----------------------------------------------------------------------------
(* MCF::FixedSizeAllocator (Core/FixedSizeAllocator.hpp): free blocks in a  *)
(* list that threads take off whole and put back.  The link of a free       *)
(* block is the first word of whatever is stored in a block in use, so      *)
(* addresses and the numbers in that word share one type here.              *)

Null == 0
Empty == [first |-> Null, last |-> Null]

\* Mutation: the list that was there is forgotten.
AttachAlone(words, new) ==
  /\ pool' = new
  /\ word' = [words EXCEPT ![new.last] = Null]

\* The list that is there goes behind the new one, whose last block is kept as it was.
\* (The compare-and-swap loop takes effect when it succeeds, having linked the block to
\* the first one of the very list that it replaces.)
AttachTo(words, new) ==
  /\ pool' = new
  /\ word' = [words EXCEPT ![new.last] = pool.first]

Detach == pool' = Empty

Fresh == {b \in Blocks : use[b] = "fresh"}

\* Deallocate: a block becomes a list of one.
Deallocate(b) ==
  /\ AttachTo(word, [first |-> b, last |-> b])
  /\ use' = [use EXCEPT ![b] = "free"]

\* The second half of Allocate: what is left of the list goes back, with its last block.
Reattach(taken) ==
  IF word[taken.first] # Null
  THEN AttachTo(word, [first |-> word[taken.first], last |-> taken.last])
  ELSE UNCHANGED <<pool, word>>

\* The blocks of a list: the first one, and whatever one of them links to.
Listed(first) ==
  {b \in Blocks : \A set \in SUBSET Blocks :
     /\ first \in Blocks => first \in set
     /\ \A c \in set : word[c] \in Blocks => word[c] \in set
     => b \in set}

InitAllocator ==
  /\ pool = Empty
  /\ word = [b \in Blocks |-> 0]
  /\ use = [b \in Blocks |-> "fresh"]

-----------------------------------------------------------------------------
(* The object and its view                                                  *)

Init ==
  /\ InitAllocator
  /\ life = "none" /\ ref = 0 /\ view = Null
  /\ owner = [b \in Blocks |-> FALSE]
  /\ guard = [b \in Blocks |-> NoThread]
  /\ strong = [t \in Threads |-> 0]
  /\ weak = [t \in Threads |-> [b \in Blocks |-> 0]]
  /\ pc = [t \in Threads |-> "idle"]
  /\ reg = [t \in Threads |-> Null]
  /\ list = [t \in Threads |-> Empty]

Go(t, place) == pc' = [pc EXCEPT ![t] = place]

\* A finished call forgets what it worked on.
Done(t) == Go(t, "idle") /\ reg' = [reg EXCEPT ![t] = Null]

\* MakeIntrusive.
Make(t) ==
  /\ pc[t] = "idle" /\ life = "none"
  /\ life' = "alive" /\ ref' = 1 /\ view' = Null
  /\ strong' = [strong EXCEPT ![t] = 1]
  /\ UNCHANGED <<allocator, owner, guard, weak, pc, reg, list>>

\* AddRef, through a reference that the thread has.
Fork(t) ==
  /\ pc[t] = "idle" /\ strong[t] \in 1..(MaxRefs - 1)
  /\ ref' = ref + 1
  /\ strong' = [strong EXCEPT ![t] = @ + 1]
  /\ UNCHANGED <<life, view, allocator, owner, guard, weak, pc, reg, list>>

\* A reference handed to another thread, moved and not counted.
Give(t, u) ==
  /\ pc[t] = "idle" /\ strong[t] > 0 /\ u # t /\ strong[u] < MaxRefs
  /\ strong' = [strong EXCEPT ![t] = @ - 1, ![u] = @ + 1]
  /\ UNCHANGED <<object, allocator, owner, guard, weak, pc, reg, list>>

\* X_Dispose: whoever drops the last reference destroys the object.
Drop(t) ==
  /\ pc[t] = "idle" /\ strong[t] > 0
  /\ ref' = ref - 1
  /\ strong' = [strong EXCEPT ![t] = @ - 1]
  /\ IF ref = 1 THEN life' = "dying" /\ Go(t, "destroy") ELSE UNCHANGED <<life, pc>>
  /\ UNCHANGED <<view, allocator, owner, guard, weak, reg, list>>

\* ~DeletableBase: it drops the view, and deletes it or else clears the owner in it.
Destroy(t) ==
  /\ pc[t] = "destroy"
  /\ reg' = [reg EXCEPT ![t] = view]
  /\ CASE view = Null -> life' = "none" /\ Go(t, "idle") /\ UNCHANGED word
       [] view # Null /\ word[view] = 1 ->
            word' = [word EXCEPT ![view] = 0] /\ Go(t, "deleteView") /\ UNCHANGED life
       [] view # Null /\ word[view] # 1 ->
            word' = [word EXCEPT ![view] = @ - 1] /\ Go(t, "clearOwner") /\ UNCHANGED life
  /\ UNCHANGED <<ref, view, pool, use, owner, guard, handles, list>>

ClearOwner(t) ==
  /\ pc[t] = "clearOwner" /\ guard[reg[t]] = NoThread
  /\ owner' = [owner EXCEPT ![reg[t]] = FALSE]
  /\ life' = "none"
  /\ Done(t)
  /\ UNCHANGED <<ref, view, allocator, guard, handles, list>>

\* The view goes back to the allocator: its destructor's, the loser's and the last one's.
DeleteView(t) ==
  /\ pc[t] \in {"deleteView", "deleteNew", "deleteWeak"}
  /\ Deallocate(reg[t])
  /\ owner' = [owner EXCEPT ![reg[t]] = FALSE]
  /\ IF pc[t] = "deleteNew"
     THEN Go(t, "addRef") /\ reg' = [reg EXCEPT ![t] = view] ELSE Done(t)
  /\ life' = IF pc[t] = "deleteView" THEN "none" ELSE life
  /\ UNCHANGED <<ref, view, guard, handles, list>>

\* X_RequireView, for a thread that has a strong reference: is there a view already?
Weaken(t) ==
  /\ pc[t] = "idle" /\ strong[t] > 0
  /\ \A b \in Blocks : weak[t][b] < MaxRefs
  /\ reg' = [reg EXCEPT ![t] = view]
  /\ Go(t, IF view = Null THEN "allocate" ELSE "addRef")
  /\ UNCHANGED <<object, allocator, owner, guard, handles, list>>

\* Allocate takes the whole list, or a fresh block; the backing allocator may throw.
Allocate(t) ==
  /\ pc[t] = "allocate"
  /\ Detach
  /\ list' = [list EXCEPT ![t] = pool]
  /\ IF pool.first # Null
     THEN reg' = [reg EXCEPT ![t] = pool.first] /\ Go(t, "reattach") /\ UNCHANGED use
     ELSE \/ \E b \in Fresh : /\ reg' = [reg EXCEPT ![t] = b]
                              /\ use' = [use EXCEPT ![b] = "free"]
                              /\ Go(t, "construct")
          \/ Done(t) /\ UNCHANGED use
  /\ UNCHANGED <<object, word, owner, guard, handles>>

PutBack(t) ==
  /\ pc[t] = "reattach"
  /\ Reattach(list[t])
  /\ Go(t, "construct")
  /\ UNCHANGED <<object, use, owner, guard, handles, reg, list>>

Construct(t) ==
  /\ pc[t] = "construct"
  /\ word' = [word EXCEPT ![reg[t]] = 1]
  /\ use' = [use EXCEPT ![reg[t]] = "used"]
  /\ owner' = [owner EXCEPT ![reg[t]] = TRUE]
  /\ list' = [list EXCEPT ![t] = Empty]
  /\ Go(t, "install")
  /\ UNCHANGED <<object, pool, guard, handles, reg>>

\* The thread that installs its view first wins; another deletes its own.
Install(t) ==
  /\ pc[t] = "install"
  /\ IF view = Null THEN view' = reg[t] /\ Go(t, "addRef")
                    ELSE Go(t, "deleteNew") /\ UNCHANGED view
  /\ UNCHANGED <<life, ref, allocator, owner, guard, handles, reg, list>>

AddWeakRef(t) ==
  /\ pc[t] = "addRef"
  /\ word' = [word EXCEPT ![reg[t]] = @ + 1]
  /\ weak' = [weak EXCEPT ![t][reg[t]] = @ + 1]
  /\ Done(t)
  /\ UNCHANGED <<object, pool, use, owner, guard, strong, list>>

ForkWeak(t, b) ==
  /\ pc[t] = "idle" /\ weak[t][b] \in 1..(MaxRefs - 1)
  /\ reg' = [reg EXCEPT ![t] = b]
  /\ Go(t, "addRef")
  /\ UNCHANGED <<object, allocator, owner, guard, handles, list>>

\* X_Dispose of a weak reference: the last one deletes the view.
DropWeak(t, b) ==
  /\ pc[t] = "idle" /\ weak[t][b] > 0
  /\ Careful => \A u \in Threads : pc[u] = "clearOwner" => reg[u] # b
  /\ word' = [word EXCEPT ![b] = @ - 1]
  /\ weak' = [weak EXCEPT ![t][b] = @ - 1]
  /\ IF word[b] = 1 THEN reg' = [reg EXCEPT ![t] = b] /\ Go(t, "deleteWeak")
                    ELSE UNCHANGED <<reg, pc>>
  /\ UNCHANGED <<object, pool, use, owner, guard, strong, list>>

\* LockOwner: in the mutex it looks for the owner first ...
Lock(t, b) ==
  /\ pc[t] = "idle" /\ weak[t][b] > 0 /\ strong[t] < MaxRefs
  /\ guard[b] = NoThread
  /\ IF owner[b] THEN /\ guard' = [guard EXCEPT ![b] = t]
                      /\ reg' = [reg EXCEPT ![t] = b]
                      /\ Go(t, "tryAddRef")
                 ELSE UNCHANGED <<guard, reg, pc>>
  /\ UNCHANGED <<object, allocator, owner, handles, list>>

\* Mutation: as AddRef does.
TryAddRefBlindly(t) ==
  /\ pc[t] = "tryAddRef"
  /\ ref' = ref + 1 /\ strong' = [strong EXCEPT ![t] = @ + 1]
  /\ guard' = [guard EXCEPT ![reg[t]] = NoThread]
  /\ Done(t)
  /\ UNCHANGED <<life, view, allocator, owner, weak, list>>

\* ... and then takes a reference, unless there is none left to share (TryAddRef).
TryAddRef(t) ==
  /\ pc[t] = "tryAddRef"
  /\ IF ref = 0 THEN UNCHANGED <<ref, strong>>
                ELSE ref' = ref + 1 /\ strong' = [strong EXCEPT ![t] = @ + 1]
  /\ guard' = [guard EXCEPT ![reg[t]] = NoThread]
  /\ Done(t)
  /\ UNCHANGED <<life, view, allocator, owner, weak, list>>

Next == \E t \in Threads :
  \/ Make(t) \/ Fork(t) \/ Drop(t) \/ Destroy(t) \/ ClearOwner(t) \/ DeleteView(t)
  \/ Weaken(t) \/ Allocate(t) \/ PutBack(t) \/ Construct(t) \/ Install(t) \/ AddWeakRef(t)
  \/ TryAddRef(t)
  \/ \E u \in Threads : Give(t, u)
  \/ \E b \in Blocks : ForkWeak(t, b) \/ DropWeak(t, b) \/ Lock(t, b)

Spec == Init /\ [][Next]_vars
-----------------------------------------------------------------------------
At(t, places) == pc[t] \in places

\* The object lives as long as anyone has a strong reference, and the count says so.
StrongCounted ==
  /\ life = "alive" <=> ref > 0
  /\ ref = Total(strong)

\* A view in use counts its weak references, and one for its owner until it is dropped.
WeakCounted == \A b \in Blocks : use[b] = "used" =>
  LET owned    == life # "none" /\ view = b /\ \A t \in Threads : ~(At(t, {"clearOwner", "deleteView"}) /\ reg[t] = b)
      unshared == \E t \in Threads : At(t, {"install", "deleteNew"}) /\ reg[t] = b
  IN  word[b] = Total([t \in Threads |-> weak[t][b]]) + (IF owned \/ unshared THEN 1 ELSE 0)

\* No thread works on a view that was deleted, nor locks an object that is gone.
NothingDangles == \A t \in Threads :
  /\ At(t, {"addRef", "install", "deleteNew", "deleteView", "deleteWeak", "clearOwner", "tryAddRef"})
       => use[reg[t]] = "used"
  /\ At(t, {"tryAddRef"}) => life # "none" /\ guard[reg[t]] = t
  /\ \A b \in Blocks : weak[t][b] > 0 => use[b] = "used"
  /\ life = "alive" /\ view # Null => use[view] = "used"

\* A block on its way from the allocator or back to it is in the hands of a thread.
Holds(t, b) ==
  /\ At(t, {"reattach", "construct", "install", "deleteNew", "deleteWeak", "deleteView"})
  /\ reg[t] = b

\* The allocator keeps off what others have: the block that it hands out next is nobody's,
\* and it links a list behind no block that is in use.
KeepsOff ==
  /\ pool.first \in Blocks => /\ use[pool.first] = "free"
                             /\ \A t \in Threads : ~Holds(t, pool.first)
  /\ \A t \in Threads : At(t, {"reattach"}) /\ word[reg[t]] # Null =>
       list[t].last \in Blocks /\ use[list[t].last] # "used"

\* When no call is under way, a view in use is needed ...
NoneLeft == (\A t \in Threads : pc[t] = "idle") =>
  \A b \in Blocks : use[b] = "used" =>
    (b = view /\ life = "alive") \/ \E t \in Threads : weak[t][b] > 0

\* ... and a free block is in the list.
NothingLeaks ==
  /\ NoneLeft
  /\ (\A t \in Threads : pc[t] = "idle") =>
       \A b \in Blocks : use[b] = "free" => b \in Listed(pool.first)

\* References are counted without error while any number of threads copy, lock and drop
\* them: nothing dangles, nothing is deleted early, nothing is left behind.
PointersSound == StrongCounted /\ WeakCounted /\ NothingDangles /\ NothingLeaks /\ KeepsOff

\* Once the last strong reference was dropped no weak one brings the object back.
NoRevival == [][life = "dying" => ref' = 0]_vars

\* The check in AddRef and DropRef: what is shared has a positive count.
CountsPositive == \A t \in Threads, b \in Blocks : weak[t][b] > 0 => word[b] > 0
=============================================================================
