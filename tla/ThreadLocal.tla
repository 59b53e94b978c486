----------------------------- MODULE ThreadLocal -----------------------------
(***************************************************************************)
(* Thread-local storage and _MCFCRT_AtThreadExit, in                       *)
(* MCFCRT/src/env/thread.c, for one thread: its objects, in the order in   *)
(* which they were initialized, and the tree that finds them by key.  A    *)
(* block of exit callbacks is an object without a key.  Keys are shared:   *)
(* other threads allocate and free them, and their addresses are used      *)
(* again.                                                                  *)
(*                                                                         *)
(* Constructors, destructors and callbacks are code of the program and     *)
(* call back into this module.                                             *)
(***************************************************************************)
EXTENDS Naturals, Sequences, SequencesExt

CONSTANTS Addresses,     \* where keys can be allocated
          NoKey,         \* the key of a block of callbacks, a null pointer
          BlockSize,     \* CALLBACKS_PER_BLOCK, 64 in the code
          LookUps,       \* whether destructors and callbacks look up keys
          MaxKeys,       \* bound on the keys that are allocated
          MaxItems       \* bound on the objects and callbacks

VARIABLES keys,          \* uCounter of the key at each address, 0 if it is free
          counter,       \* s_uTlsKeyCounter
          list,          \* pLastByThread and its predecessors, the oldest first
          tree,          \* avlObjects, as the storage it leads to for each key
          building,      \* the constructors that are running, the innermost last
          phase,         \* where __MCFCRT_TlsCleanup is
          current,       \* the object it took from the list
          allocated,     \* TlsObjects that were allocated and not freed
          made,          \* storages and callbacks so far; they are numbered
          since,         \* ghost: "made" when the key at each address was allocated
          entered,       \* ghost: how many entered the list, to be destroyed or called
          entry,         \* ghost: the place of each among them, 0 if it did not
          gone,          \* ghost: those that were destroyed or called, in order
          newest,        \* ghost: "entered" when each was taken from the list
          needs          \* ghost: <<i, j>> if j was got in the constructor of i

vars == <<keys, counter, list, tree, building, phase, current, allocated, made,
          since, entered, entry, gone, newest, needs>>

Items  == 1..MaxItems
Keys   == Addresses \X (1..MaxKeys)
Object == [key : Keys \cup {NoKey}, items : {s \in Seq(Items) : Len(s) <= BlockSize}]
Named  == [key : Keys, item : Items]

Nothing == [key |-> NoKey, items |-> <<>>]

TypeOK == /\ keys \in [Addresses -> 0..MaxKeys]
          /\ counter \in 0..MaxKeys
          /\ list \in Seq(Object)
          /\ tree \in SUBSET Named
          /\ building \in Seq(Named)
          /\ phase \in {"up", "next", "destroy", "run", "done"}
          /\ current \in Object
          /\ allocated \in 0..MaxItems
          /\ made \in 0..MaxItems
          /\ since \in [Addresses -> 0..MaxItems]
          /\ entered \in 0..MaxItems
          /\ entry \in [Items -> 0..MaxItems]
          /\ gone \in Seq(Items)
          /\ newest \in [Items -> 0..MaxItems]
          /\ needs \in SUBSET (Items \X Items)

Init == /\ keys = [a \in Addresses |-> 0]
        /\ counter = 0
        /\ list = <<>>
        /\ tree = {}
        /\ building = <<>>
        /\ phase = "up"
        /\ current = Nothing
        /\ allocated = 0
        /\ made = 0
        /\ since = [a \in Addresses |-> 0]
        /\ entered = 0
        /\ entry = [i \in Items |-> 0]
        /\ gone = <<>>
        /\ newest = [i \in Items |-> 0]
        /\ needs = {}

keyVars == <<keys, counter, since>>
cleanup == <<phase, current, gone, newest>>
entries == <<entered, entry>>
storage == <<list, tree, building, allocated, made, entries, needs>>

-----------------------------------------------------------------------------
(* Keys                                                                     *)

\* Mutation: the counter is not advanced.
AllocKeySame(a) == /\ keys[a] = 0 /\ counter < MaxKeys
                   /\ counter' = IF counter = 0 THEN 1 ELSE counter
                   /\ keys' = [keys EXCEPT ![a] = counter']
                   /\ since' = [since EXCEPT ![a] = made]
                   /\ UNCHANGED cleanup /\ UNCHANGED storage

AllocKey(a) == /\ keys[a] = 0 /\ counter < MaxKeys
               /\ counter' = counter + 1
               /\ keys' = [keys EXCEPT ![a] = counter']
               /\ since' = [since EXCEPT ![a] = made]
               /\ UNCHANGED cleanup /\ UNCHANGED storage

InUse(a) == \E i \in DOMAIN building : building[i].key[1] = a

\* Objects of the key are left alone; nobody may be using it.
FreeKey(a) == /\ keys[a] # 0 /\ ~InUse(a)
              /\ keys' = [keys EXCEPT ![a] = 0]
              /\ UNCHANGED <<counter, since>> /\ UNCHANGED cleanup /\ UNCHANGED storage

-----------------------------------------------------------------------------
(* Storage                                                                  *)

\* Code of the program runs in this thread.
Running  == phase \in {"up", "run"}
MayLook  == phase = "up" \/ (phase = "run" /\ LookUps)

\* GetTlsObject.
Found(a) == {o \in tree : o.key = <<a, keys[a]>>}

Needing(i) == {<<building[b].item, i>> : b \in DOMAIN building}

\* TlsRequire, and TlsGet, of storage that there is.
Get(a) == /\ MayLook /\ keys[a] # 0
          /\ \E o \in Found(a) : needs' = needs \cup Needing(o.item)
          /\ UNCHANGED <<keyVars, list, tree, building, allocated, made, entries>>
          /\ UNCHANGED cleanup

\* From now on i is to be destroyed, or called.
EnterAs(i) == entered' = entered + 1 /\ entry' = [entry EXCEPT ![i] = entered']

\* Mutation: the object is linked before it is constructed.
RequireLinked(a) == /\ MayLook /\ keys[a] # 0 /\ ~InUse(a) /\ Found(a) = {}
                    /\ made < MaxItems
                    /\ made' = made + 1
                    /\ allocated' = allocated + 1
                    /\ building' = Append(building, [key |-> <<a, keys[a]>>, item |-> made'])
                    /\ list' = Append(list, [key |-> <<a, keys[a]>>, items |-> <<made'>>])
                    /\ EnterAs(made')
                    /\ UNCHANGED <<keyVars, tree, needs>> /\ UNCHANGED cleanup

\* TlsRequire of storage that there is not: it is allocated and the constructor
\* called.  One that requires its own key again does not end.
Require(a) == /\ MayLook /\ keys[a] # 0 /\ ~InUse(a) /\ Found(a) = {}
              /\ made < MaxItems
              /\ made' = made + 1
              /\ allocated' = allocated + 1
              /\ building' = Append(building, [key |-> <<a, keys[a]>>, item |-> made'])
              /\ UNCHANGED <<keyVars, list, tree, entries, needs>> /\ UNCHANGED cleanup

\* The constructor returns 0.
Constructed == /\ building # <<>>
               /\ LET o == Last(building)
                  IN  /\ list' = Append(list, [key |-> o.key, items |-> <<o.item>>])
                      /\ tree' = tree \cup {o}
                      /\ EnterAs(o.item)
                      /\ needs' = needs \cup {<<building[b].item, o.item>> :
                                                b \in DOMAIN Front(building)}
               /\ building' = Front(building)
               /\ UNCHANGED <<keyVars, allocated, made>> /\ UNCHANGED cleanup

\* The constructor returns another number: the storage is deallocated.
ConstructorFails == /\ building # <<>>
                    /\ building' = Front(building)
                    /\ allocated' = allocated - 1
                    /\ UNCHANGED <<keyVars, list, tree, made, entries, needs>>
                    /\ UNCHANGED cleanup

\* _MCFCRT_AtThreadExit: the callback goes to the newest object if that is a
\* block and has room, or to a new block.
HasRoom(o) == o.key = NoKey /\ Len(o.items) < BlockSize
NewestHasRoom == list # <<>> /\ HasRoom(Last(list))

Enter == /\ Running /\ made < MaxItems
         /\ made' = made + 1
         /\ EnterAs(made')
         /\ needs' = needs \cup Needing(made')

\* Mutation: it goes to a block that is not the newest object.
AddCallbackAnywhere == /\ Enter
                       /\ \E b \in DOMAIN list : /\ HasRoom(list[b])
                                                 /\ list' = [list EXCEPT ![b].items = Append(@, made')]
                       /\ UNCHANGED <<keyVars, tree, building, allocated>>
                       /\ UNCHANGED cleanup

AddCallback == /\ Enter
               /\ NewestHasRoom
               /\ list' = [list EXCEPT ![Len(list)].items = Append(@, made')]
               /\ UNCHANGED <<keyVars, tree, building, allocated>> /\ UNCHANGED cleanup

AddBlock == /\ Enter
            /\ ~NewestHasRoom
            /\ list' = Append(list, [key |-> NoKey, items |-> <<made'>>])
            /\ allocated' = allocated + 1
            /\ UNCHANGED <<keyVars, tree, building>> /\ UNCHANGED cleanup

-----------------------------------------------------------------------------
(* __MCFCRT_TlsCleanup, when the thread exits                               *)

world == <<keyVars, building, made, entries, needs>>

Exit == /\ phase = "up" /\ building = <<>>
        /\ phase' = "next"
        /\ UNCHANGED <<list, tree, current, allocated, gone, newest>> /\ UNCHANGED world

\* The newest object is unlinked from the list, and stays in the tree ...
Take == /\ phase = "next" /\ list # <<>>
        /\ current' = Last(list)
        /\ list' = Front(list)
        /\ newest' = [i \in Items |-> IF i \in ToSet(current'.items) THEN entered ELSE newest[i]]
        /\ phase' = "destroy"
        /\ UNCHANGED <<tree, allocated, gone>> /\ UNCHANGED world

\* ... its destructor runs; that of a block runs the callbacks, the last first ...
Destroy == /\ phase = "destroy" /\ current.items # <<>>
           /\ gone' = Append(gone, Last(current.items))
           /\ current' = [current EXCEPT !.items = Front(@)]
           /\ phase' = "run"
           /\ UNCHANGED <<list, tree, allocated, newest>> /\ UNCHANGED world

Return == /\ phase = "run" /\ building = <<>>
          /\ phase' = "destroy"
          /\ UNCHANGED <<list, tree, current, allocated, gone, newest>> /\ UNCHANGED world

\* ... and it is freed.
Free == /\ phase = "destroy" /\ current.items = <<>>
        /\ allocated' = allocated - 1
        /\ current' = Nothing
        /\ phase' = "next"
        /\ UNCHANGED <<list, tree, gone, newest>> /\ UNCHANGED world

\* The TlsThread is freed, with the root of the tree.
Done == /\ phase = "next" /\ list = <<>>
        /\ phase' = "done"
        /\ tree' = {}
        /\ UNCHANGED <<list, current, allocated, gone, newest>> /\ UNCHANGED world

-----------------------------------------------------------------------------
Cleanup == Exit \/ Take \/ Destroy \/ Return \/ Free \/ Done

Next == \/ \E a \in Addresses : \/ AllocKey(a) \/ FreeKey(a)
                                \/ Get(a) \/ Require(a)
        \/ Constructed \/ ConstructorFails
        \/ AddCallback \/ AddBlock
        \/ Cleanup

Spec == Init /\ [][Next]_vars

-----------------------------------------------------------------------------
\* What went, what is left of the object in hand, and the objects of the list, the
\* newest first, are the rows in which storage and callbacks go, one after the
\* other; the last two backwards.
Rows == 0..Len(list) + 1
Row(b) == IF b = 0 THEN gone
          ELSE IF b = 1 THEN current.items ELSE list[Len(list) + 2 - b].items

Before(b, m, c, n) == b < c \/ (b = c /\ IF b = 0 THEN m < n ELSE m > n)

\* Whatever entered the list is destroyed or called once, also what destructors
\* and callbacks add to the list that is being emptied.
EachOnce == /\ \A b, c \in Rows : \A m \in DOMAIN Row(b), n \in DOMAIN Row(c) :
                 Row(b)[m] = Row(c)[n] => b = c /\ m = n
            /\ \A i \in Items : entry[i] > 0 <=>
                 \E b \in IF phase = "done" THEN {0} ELSE Rows :
                   \E m \in DOMAIN Row(b) : Row(b)[m] = i

\* Every object that was allocated is linked, being constructed, or being
\* destroyed: none is leaked when a constructor fails or the thread ends.
Accounted == allocated = Len(list) + Len(building)
                           + (IF phase \in {"destroy", "run"} THEN 1 ELSE 0)

\* What holds in every state of the objects.
Safety == TypeOK /\ Accounted

\* Storage and callbacks go in the reverse order of their coming, whichever way
\* they came, except that what is in the block already taken goes first.
ReverseOrder == \A c \in Rows : \A m \in DOMAIN gone, n \in DOMAIN Row(c) :
                  Before(0, m, c, n) =>
                    \/ entry[Row(c)[n]] < entry[gone[m]]
                    \/ entry[Row(c)[n]] > newest[gone[m]]

\* Storage that a constructor got, and the callbacks it added, outlive the
\* storage it constructed.
NeededOutlive == \A b, c \in Rows : \A m \in DOMAIN Row(b), n \in DOMAIN Row(c) :
                   <<Row(b)[m], Row(c)[n]>> \in needs => Before(b, m, c, n)

\* One storage at most is found for a key, and it was constructed for this key:
\* the counter tells the key from earlier ones at the same address.
OwnStorage == \A a \in Addresses : keys[a] # 0 =>
                 \A o, p \in Found(a) : o = p /\ o.item > since[a]

\* "If the storage for the current thread has not been initialized, a null
\* pointer is returned" (thread.h, line 81): what TlsGet finds, for code that
\* runs, has not been destroyed and freed.
Freed(i) == i \in ToSet(gone) /\ ~(phase = "run" /\ i = Last(gone))
GetIsSound == MayLook => \A a \in Addresses : keys[a] # 0 =>
                           \A o \in Found(a) : ~Freed(o.item)

=============================================================================
