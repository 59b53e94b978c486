----------------------------- MODULE Container -----------------------------
(***************************************************************************)
(* What the modules of the containers share: the container, the type of    *)
(* its elements and the last call, each call being one step (a container   *)
(* belongs to one thread at a time), and the raw storage that it keeps its *)
(* elements in.                                                            *)
(***************************************************************************)
EXTENDS Integers, Sequences, FiniteSets, SequencesExt

CONSTANTS Elements,   \* what is stored, tuples
          MaxSize,    \* bound: elements in a container
          Grain,      \* a block grows by multiples of this, 0x10 in the code
          Careful     \* whether callers avoid the calls that the code gets wrong

VARIABLES trait,      \* of the element type: which of its constructors may throw
          self,       \* the container
          call        \* the last call, as AbstractSequence has it

\* "nothrow": nothing throws; "move": copying may; "copy": moving may as well.
Traits == {"nothrow", "move", "copy"}

\* The arguments of a call, as far as the container has room: at most two at a time.
Arguments(room) == UNION {[1..n -> Elements] : n \in 0..(IF room < 2 THEN room ELSE 2)}

\* Where the k-th of n copies throws, or none does.
Failures(n) == IF trait = "nothrow" THEN {0} ELSE 0..n

NoCall == [op |-> "new", at |-> 0, to |-> 0, vals |-> <<>>, done |-> TRUE]

Did(op, at, to, vals, done, new) ==
  /\ self' = new
  /\ call' = [op |-> op, at |-> at, to |-> to, vals |-> vals, done |-> done]
  /\ UNCHANGED trait

\* The size of the block that is allocated to hold n elements.
Growth(slots, n) ==
  LET more    == slots + slots \div 2
      rounded == ((more + Grain - 1) \div Grain) * Grain
  IN  IF rounded < n THEN n ELSE rounded

vars == <<trait, self, call>>
-----------------------------------------------------------------------------
(***************************************************************************)
(* Raw storage, as Core/ConstructDestruct.hpp uses it: a block of slots,   *)
(* each raw or holding an element, on which the containers construct and   *)
(* destroy elements one at a time.  The language forbids to construct over *)
(* an element, to destroy or to read a raw slot, to step outside the block *)
(* and to free a block that still holds elements.  A storage that was      *)
(* misused so remembers it in "bad"; a debug check that fails (they are    *)
(* compiled out of a release build) is remembered there as well.           *)
(*                                                                         *)
(* An element is a tuple that is not empty, a raw slot the empty tuple.    *)
(***************************************************************************)
Raw == <<>>
Null == -1

\* F(v), v being worked out once, as the member of a set, where TLC works out an
\* argument again wherever it is used.
Of(F(_), v) == CHOOSE r \in {F(x) : x \in {v}} : TRUE

\* A fold from the left.  That of the community modules looks for the next index
\* among all that are left.
Fold(Op(_, _), base, seq) ==
  LET Folded(es) ==
        LET f[k \in 0..Len(es)] ==
              IF k = 0 THEN base ELSE CHOOSE r \in {Op(x, es[k]) : x \in {f[k - 1]}} : TRUE
        IN  f[Len(es)]
  IN  CHOOSE r \in {Folded(es) : es \in {seq}} : TRUE

\* The indices from i to j, and from j back to i.
Up(i, j) == [k \in 1..(j - i + 1) |-> i + k - 1]
Down(j, i) == [k \in 1..(j - i + 1) |-> j - k + 1]

Storage(n) == [mem |-> [i \in 0..(n - 1) |-> Raw], bad |-> {}]

Check(s, what, holds) == IF holds THEN s ELSE [s EXCEPT !.bad = @ \cup {what}]

At(s, i) == IF i \in DOMAIN s.mem THEN s.mem[i] ELSE Raw

Construct(s, i, e) ==
  IF At(s, i) = Raw /\ i \in DOMAIN s.mem /\ e # Raw
  THEN [s EXCEPT !.mem[i] = e]
  ELSE Check(s, "slot", FALSE)

Destruct(s, i) ==
  IF At(s, i) # Raw THEN [s EXCEPT !.mem[i] = Raw] ELSE Check(s, "slot", FALSE)

\* Move-construct slot j from slot i and destroy what is left in slot i.
Move(s, i, j) == Destruct(Construct(s, j, At(s, i)), i)

ConstructAll(s, is, es) ==
  Fold(LAMBDA t, k : Construct(t, is[k], es[k]), s, Up(1, Len(is)))
DestructAll(s, is) == Fold(Destruct, s, is)
MoveAll(s, is, Target(_)) == Fold(LAMBDA t, i : Move(t, i, Target(i)), s, is)
MoveBack(s, is, Source(_)) == Fold(LAMBDA t, i : Move(t, Source(i), i), s, is)

Holds(s, is) == [k \in DOMAIN is |-> At(s, is[k])]

\* What goes wrong when the block is freed.
Freed(s) == s.bad \cup (IF \A i \in DOMAIN s.mem : s.mem[i] = Raw THEN {} ELSE {"slot"})
Blame(s, what) == [s EXCEPT !.bad = @ \cup what]

\* The elements that an enumeration visits, from "first" to the null position.
Trail(first, Step(_), bound) ==
  LET Go(t, k) == IF t[Len(t)] = Null THEN t ELSE Append(t, Step(t[Len(t)]))
  IN  Front(Fold(Go, <<first>>, Up(1, bound)))
=============================================================================
