------------------------------- MODULE Vector -------------------------------
(***************************************************************************)
(* MCF::Vector (Containers/Vector.hpp): elements in the first slots of a   *)
(* block that grows.  A call is one step; the loops in it run over the     *)
(* slots in the order of the code, and an element's constructor or the     *)
(* allocator may throw in the middle of them.                              *)
(***************************************************************************)
EXTENDS Container

New == [s |-> Storage(0), size |-> 0]
CapacityOf(v) == Cardinality(DOMAIN v.s.mem)

GetFirst(v) == IF v.size = 0 THEN Null ELSE 0
GetLast(v) == IF v.size = 0 THEN Null ELSE v.size - 1
GetNext(v, i) == IF i + 1 = v.size THEN Null ELSE i + 1
GetPrev(v, i) == IF i = 0 THEN Null ELSE i - 1

\* What an enumeration of the container visits, first to last or last to first.
Enumerate(v) == Trail(GetFirst(v), LAMBDA i : GetNext(v, i), MaxSize + 1)
EnumerateBack(v) == Trail(GetLast(v), LAMBDA i : GetPrev(v, i), MaxSize + 1)
Items(v) == [k \in 1..v.size |-> v.s.mem[k - 1]]

Pop(v, n) == [s |-> DestructAll(v.s, Down(v.size - 1, v.size - n)), size |-> v.size - n]

Destroy(v) == Freed(Pop(v, v.size).s)

\* Throwing at its k-th event (the allocation, then the copies) it undoes itself.
Reserve(v, n, fail) ==
  LET block == Storage(Growth(CapacityOf(v) + 1, n))
      some  == Up(0, (IF fail = 0 THEN v.size ELSE fail - 1) - 1)
      new   == ConstructAll(block, some, Holds(v.s, some))
      old   == DestructAll(v.s, Down(v.size - 1, 0))
  IN  CASE n <= CapacityOf(v) -> v
        [] n > CapacityOf(v) /\ fail = 0 ->
             [v EXCEPT !.s = Blame(new, Freed(old))]
        [] n > CapacityOf(v) /\ fail # 0 ->
             [v EXCEPT !.s = Blame(v.s, Freed(DestructAll(new, Reverse(some))))]

UncheckedPush(v, e) ==
  [s |-> Construct(Check(v.s, "room", CapacityOf(v) - v.size > 0), v.size, e), size |-> v.size + 1]
Push(v, e) == UncheckedPush(Reserve(v, v.size + 1, 0), e)

\* The first k arguments are pushed; if another was to come, they are popped again.
Pushed(v, vals, fail, PushOne(_, _)) ==
  IF fail = 0 THEN Fold(PushOne, v, vals)
  ELSE Pop(Fold(PushOne, v, SubSeq(vals, 1, fail - 1)), fail - 1)

\* From forward iterators the number is known beforehand, from input iterators it is not.
AppendAll(v, vals, forward, fail) ==
  IF forward THEN Pushed(Reserve(v, v.size + Len(vals), 0), vals, fail, UncheckedPush)
  ELSE Pushed(v, vals, fail, Push)

\* A copy with other contents takes the place of the container, unless making it throws.
Rebuild(v, vals, capacity, fail) ==
  LET start == Reserve(New, capacity, 0)
      temp  == Fold(Push, start, IF fail = 0 THEN vals ELSE SubSeq(vals, 1, fail - 1))
  IN  IF fail = 0 THEN [temp EXCEPT !.s = Blame(temp.s, Destroy(v))]
      ELSE [v EXCEPT !.s = Blame(v.s, Destroy(temp))]

AssignFrom(v, vals, fail) ==
  IF trait = "nothrow" \/ v.size = 0
  THEN LET r == Reserve(v, Len(vals), 0)
       IN  IF fail = 0 THEN Fold(UncheckedPush, r, vals)
           ELSE LET some == Fold(UncheckedPush, r, SubSeq(vals, 1, fail - 1)) IN Pop(some, some.size)
  ELSE Rebuild(v, vals, Len(vals), fail)

PrepareForInsertion(v, at, n) == MoveAll(v.s, Down(v.size - 1, at), LAMBDA i : i + n)
UndoPreparation(v, s, at, n) == MoveAll(s, Up(at + n, v.size - 1 + n), LAMBDA i : i - n)

\* Elements that move without throwing make way; others are copied around the new ones.
InsertVals(v, at, vals, forward, fail) ==
  LET n     == Len(vals)
      whole == SubSeq(Items(v), 1, at) \o vals \o SubSeq(Items(v), at + 1, v.size)
      r     == Reserve(v, v.size + n, 0)
      gap   == PrepareForInsertion(r, at, n)
      here  == Up(at, at + (IF fail = 0 THEN n ELSE fail - 1) - 1)
      full  == ConstructAll(gap, here, vals)
  IN  CASE n = 0 -> v
        [] n > 0 /\ trait # "copy" /\ forward ->
             IF fail = 0 THEN [s |-> full, size |-> v.size + n]
             ELSE [r EXCEPT !.s = UndoPreparation(r, DestructAll(full, Reverse(here)), at, n)]
        [] n > 0 /\ ~(trait # "copy" /\ forward) ->
             LET least == IF forward THEN v.size + n ELSE 0
             IN  Rebuild(v, whole, IF least < CapacityOf(v) THEN CapacityOf(v) ELSE least, fail)

EraseRange(v, from, to, fail) ==
  LET n    == to - from
      gap  == DestructAll(v.s, Up(from, to - 1))
      rest == SubSeq(Items(v), 1, from) \o SubSeq(Items(v), to + 1, v.size)
  IN  CASE n = 0 -> v
        [] n > 0 /\ to = v.size -> Pop(v, n)
        [] n > 0 /\ to < v.size /\ trait # "copy" ->
             [s |-> MoveAll(gap, Up(to, v.size - 1), LAMBDA i : i - n), size |-> v.size - n]
        [] n > 0 /\ to < v.size /\ trait = "copy" -> Rebuild(v, rest, CapacityOf(v), fail)
-----------------------------------------------------------------------------
ReserveFailures == 0..(IF trait = "copy" THEN self.size + 1 ELSE 1)

Room == MaxSize - self.size

Init ==
  /\ trait \in Traits
  /\ self = New
  /\ call = NoCall

Assign == \E vals \in Arguments(MaxSize) : \E fail \in Failures(Len(vals)) :
  /\ Careful => trait # "nothrow" \/ self.size = 0
  /\ Did("assign", 0, 0, vals, fail = 0, AssignFrom(self, vals, fail))

\* Reserve, and with it the calls that reserve before they do anything else.
Grow == \E n \in 1..MaxSize : \E fail \in ReserveFailures :
  /\ n > CapacityOf(self)
  /\ Did("keep", 0, 0, <<>>, fail = 0, Reserve(self, n, fail))

AppendOrPush == \E vals \in Arguments(Room), forward \in BOOLEAN : \E fail \in Failures(Len(vals)) :
  Did("insert", self.size, 0, vals, fail = 0, AppendAll(self, vals, forward, fail))

Insert == \E at \in 0..self.size, vals \in Arguments(Room), forward \in BOOLEAN :
  \E fail \in Failures(Len(vals) + (IF trait = "copy" \/ ~forward THEN self.size ELSE 0)) :
    /\ vals # <<>>
    /\ Did("insert", at, 0, vals, fail = 0, InsertVals(self, at, vals, forward, fail))

Erase == \E from \in 0..self.size : \E to \in from..self.size :
  \E fail \in (IF trait = "copy" /\ to < self.size THEN 0..(self.size - (to - from)) ELSE {0}) :
    /\ from < to
    /\ Did("erase", from, to, <<>>, fail = 0, EraseRange(self, from, to, fail))

\* Whoever receives the elements may throw: the container is cleared all the same.
Extract == \E done \in BOOLEAN : Did("extract", 0, 0, <<>>, done, Pop(self, self.size))

Next == Assign \/ Grow \/ AppendOrPush \/ Insert \/ Erase \/ Extract

Spec == Init /\ [][Next]_vars
-----------------------------------------------------------------------------
Sound ==
  /\ self.s.bad = {}
  /\ \A i \in DOMAIN self.s.mem : (self.s.mem[i] # Raw) <=> (i < self.size)
  /\ Holds(self.s, Enumerate(self)) = Items(self)
  /\ EnumerateBack(self) = Reverse(Enumerate(self))
=============================================================================
