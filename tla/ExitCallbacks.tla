---------------------------- MODULE ExitCallbacks ----------------------------
(***************************************************************************)
(* The callbacks that run at exit: at_quick_exit and _MCFCRT_ExitProcess   *)
(* in MCFCRT/src/env/crt_module.c.  MCFCRT/src/pre/module.c has the same   *)
(* list, and the same pump, for atexit.                                    *)
(*                                                                         *)
(* The list is a stack of blocks, the first of which is static (the spare  *)
(* block).  The mutex of the list is released while a block is allocated   *)
(* and while callbacks run; the critical sections between are one step     *)
(* each.  Callbacks are numbered in the order in which they entered it.    *)
(***************************************************************************)
EXTENDS Naturals, Sequences, SequencesExt, FiniteSets

CONSTANTS Threads,       \* the threads that register callbacks, and exit
          NoOne,         \* nobody
          BlockSize,     \* CALLBACKS_PER_BLOCK, 64 in the code
          MaxCallbacks   \* bound on the callbacks

ASSUME BlockAssumption == /\ BlockSize \in Nat \ {0} /\ MaxCallbacks \in Nat
                          /\ NoOne \notin Threads

VARIABLES list,          \* g_pAtQuickExitLast, the top block first
          spareInUse,    \* g_bAtQuickExitSpareInUse
          allocated,     \* how many blocks were allocated and not freed
          added,         \* how many callbacks entered the list
          pc,            \* where each thread is in a registration
          exiting,       \* the thread that set s_bExiting
          phase,         \* where the pump is
          block,         \* the block it took from the list
          ran,           \* ghost: the callbacks that ran, in order
          newest         \* ghost: "added" when the block of each callback was taken

vars == <<list, spareInUse, allocated, added, pc, exiting, phase, block, ran, newest>>

Callbacks == 1..MaxCallbacks
Block     == [spare : BOOLEAN, calls : {s \in Seq(Callbacks) : Len(s) <= BlockSize}]
NoBlock   == [spare |-> FALSE, calls |-> <<>>]

TypeOK == /\ list \in Seq(Block)
          /\ spareInUse \in BOOLEAN
          /\ allocated \in 0..MaxCallbacks
          /\ added \in 0..MaxCallbacks
          /\ pc \in [Threads -> {"idle", "allocate", "push", "terminated"}]
          /\ exiting \in Threads \cup {NoOne}
          /\ phase \in {"up", "pump", "run", "call", "over"}
          /\ block \in Block
          /\ ran \in Seq(Callbacks)
          /\ newest \in [Callbacks -> 0..MaxCallbacks]

Init == /\ list = <<>>
        /\ spareInUse = FALSE
        /\ allocated = 0
        /\ added = 0
        /\ pc = [t \in Threads |-> "idle"]
        /\ exiting = NoOne
        /\ phase = "up"
        /\ block = NoBlock
        /\ ran = <<>>
        /\ newest = [c \in Callbacks |-> 0]

Goto(t, to) == pc' = [pc EXCEPT ![t] = to]

pumping == <<exiting, phase, block, ran, newest>>

-----------------------------------------------------------------------------
\* A thread calls in, before the process is over; the one that pumps, from a
\* callback.
CanCall(t) == pc[t] = "idle" /\ phase \in IF exiting = t THEN {"call"}
                                          ELSE {"up", "pump", "run", "call"}

Enter == added < MaxCallbacks /\ added' = added + 1

HasRoom(l) == l # <<>> /\ Len(l[1].calls) < BlockSize

PushBlock(spare) == list' = <<[spare |-> spare, calls |-> <<added'>>]>> \o list

\* The top block is not full.
Add(t) == /\ CanCall(t) /\ HasRoom(list) /\ Enter
          /\ list' = [list EXCEPT ![1].calls = Append(@, added')]
          /\ UNCHANGED <<spareInUse, allocated, pc>> /\ UNCHANGED pumping

\* Or the spare block can be had.
UseSpare(t) == /\ CanCall(t) /\ ~HasRoom(list) /\ ~spareInUse /\ Enter
               /\ spareInUse' = TRUE
               /\ PushBlock(TRUE)
               /\ UNCHANGED <<allocated, pc>> /\ UNCHANGED pumping

\* Or a block has to be allocated, which may fail.
NeedBlock(t) == /\ CanCall(t) /\ ~HasRoom(list) /\ spareInUse /\ added < MaxCallbacks
                /\ Goto(t, "allocate")
                /\ UNCHANGED <<list, spareInUse, allocated, added>> /\ UNCHANGED pumping

Allocate(t) == /\ pc[t] = "allocate" /\ phase # "over"
               /\ \/ Goto(t, "push") /\ allocated < MaxCallbacks /\ allocated' = allocated + 1
                  \/ Goto(t, "idle") /\ UNCHANGED allocated
               /\ UNCHANGED <<list, spareInUse, added>> /\ UNCHANGED pumping

\* Mutation: the block is put in the place of the list it was allocated for.
PushAlone(t) == /\ pc[t] = "push" /\ phase # "over" /\ Enter
                /\ list' = <<[spare |-> FALSE, calls |-> <<added'>>]>>
                /\ Goto(t, "idle")
                /\ UNCHANGED <<spareInUse, allocated>> /\ UNCHANGED pumping

\* It is pushed whatever happened to the list in between.
Push(t) == /\ pc[t] = "push" /\ phase # "over" /\ Enter
           /\ PushBlock(FALSE)
           /\ Goto(t, "idle")
           /\ UNCHANGED <<spareInUse, allocated>> /\ UNCHANGED pumping

-----------------------------------------------------------------------------
\* How many blocks of a list are spare ones, or are not.
Count(blocks, spare) == Cardinality({i \in DOMAIN blocks : blocks[i].spare = spare})

registering == <<list, spareInUse, allocated, added, pc>>

\* _MCFCRT_ExitProcess: who comes second is terminated.
QuickExit(t) == /\ CanCall(t) /\ exiting = NoOne
                /\ exiting' = t
                /\ phase' = "pump"
                /\ UNCHANGED <<block, ran, newest>> /\ UNCHANGED registering

ExitAgain(t) == /\ CanCall(t) /\ exiting \notin {NoOne, t}
                /\ Goto(t, "terminated")
                /\ UNCHANGED <<list, spareInUse, allocated, added>> /\ UNCHANGED pumping

\* PumpAtModuleQuickExit takes the top block ...
TakeBlock == /\ phase = "pump" /\ list # <<>>
             /\ block' = Head(list)
             /\ list' = Tail(list)
             /\ newest' = [c \in Callbacks |->
                             IF c \in ToSet(block'.calls) THEN added ELSE newest[c]]
             /\ phase' = "run"
             /\ UNCHANGED <<spareInUse, allocated, added, pc, exiting, ran>>

\* ... runs its callbacks, the last first ...
RunLast == /\ phase = "run" /\ block.calls # <<>>
           /\ ran' = Append(ran, Last(block.calls))
           /\ block' = [block EXCEPT !.calls = Front(@)]
           /\ phase' = "call"
           /\ UNCHANGED <<exiting, newest>> /\ UNCHANGED registering

Returned == /\ phase = "call" /\ pc[exiting] = "idle"
            /\ phase' = "run"
            /\ UNCHANGED <<exiting, block, ran, newest>> /\ UNCHANGED registering

\* Mutation: the spare block is freed to be used again, and then freed.
FreeBlockTwice == /\ phase = "run" /\ block.calls = <<>>
                  /\ spareInUse' = (spareInUse /\ ~block.spare)
                  /\ allocated' = allocated - 1
                  /\ block' = NoBlock
                  /\ phase' = "pump"
                  /\ UNCHANGED <<list, added, pc, exiting, ran, newest>>

\* ... gives it back ...
FreeBlock == /\ phase = "run" /\ block.calls = <<>>
             /\ IF block.spare
                  THEN spareInUse' = FALSE /\ UNCHANGED allocated
                  ELSE allocated' = allocated - 1 /\ UNCHANGED spareInUse
             /\ block' = NoBlock
             /\ phase' = "pump"
             /\ UNCHANGED <<list, added, pc, exiting, ran, newest>>

\* ... until there is none; then the process is terminated.
PumpEnds == /\ phase = "pump" /\ list = <<>>
            /\ phase' = "over"
            /\ UNCHANGED <<exiting, block, ran, newest>> /\ UNCHANGED registering

\* A normal exit discards the callbacks.  All other threads are gone by then,
\* wherever they were, as ExitProcess has them.
Discard == /\ exiting = NoOne /\ phase = "up"
           /\ phase' = "over"
           /\ list' = <<>>
           /\ spareInUse' = FALSE
           /\ allocated' = allocated - Count(list, FALSE)
           /\ UNCHANGED <<added, pc, exiting, block, ran, newest>>

-----------------------------------------------------------------------------
Register(t) == Add(t) \/ UseSpare(t) \/ NeedBlock(t) \/ Allocate(t) \/ Push(t)
Pump        == TakeBlock \/ RunLast \/ Returned \/ FreeBlock \/ PumpEnds

Next == \/ \E t \in Threads : Register(t) \/ QuickExit(t) \/ ExitAgain(t)
        \/ Pump \/ Discard

Spec == Init /\ [][Next]_vars

-----------------------------------------------------------------------------
\* What ran, what is left of the block in the hands of the pump, and the blocks of
\* the list are the rows in which callbacks go, one after the other; the last two
\* backwards.
Rows == 0..Len(list) + 1
Row(b) == IF b = 0 THEN ran ELSE IF b = 1 THEN block.calls ELSE list[b - 1].calls

Before(b, m, c, n) == b < c \/ (b = c /\ IF b = 0 THEN m < n ELSE m > n)

\* No callback is lost or runs twice, though blocks are allocated, pushed and
\* freed outside the mutex; and when a quick exit terminates the process none
\* is left that was registered before the last look of the pump.
EachOnce == exiting # NoOne \/ phase # "over" =>
              /\ \A b, c \in Rows : \A m \in DOMAIN Row(b), n \in DOMAIN Row(c) :
                   Row(b)[m] = Row(c)[n] => b = c /\ m = n
              /\ \A call \in 1..added :
                   \E b \in IF phase = "over" THEN {0} ELSE Rows :
                     \E m \in DOMAIN Row(b) : Row(b)[m] = call

\* A callback runs before those that were registered earlier, except that the
\* callbacks of a block that was taken before it was registered go first.
ReverseOrder == \A c \in Rows : \A m \in DOMAIN ran, n \in DOMAIN Row(c) :
                  Before(0, m, c, n) /\ ran[m] < Row(c)[n] => Row(c)[n] > newest[ran[m]]

\* The static block is in the list, or in the hands of the pump, exactly while
\* it is marked as used, and never twice; of allocated blocks none is lost.
Held == IF phase \in {"run", "call"} THEN <<block>> \o list ELSE list
BlocksAccounted ==
    /\ Count(Held, TRUE) = IF spareInUse THEN 1 ELSE 0
    /\ allocated = Count(Held, FALSE) + Cardinality({t \in Threads : pc[t] = "push"})

\* What holds in every state of the blocks.
Safety == TypeOK /\ BlocksAccounted

=============================================================================
