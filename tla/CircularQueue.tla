--------------------------- MODULE CircularQueue ---------------------------
(***************************************************************************)
(* MCF::CircularQueue (Containers/CircularQueue.hpp): elements in the      *)
(* slots from x_uBegin to x_uEnd of a ring that keeps one slot free.       *)
(***************************************************************************)
EXTENDS Container

New == [s |-> Storage(0), begin |-> 0, end |-> 0, cap |-> 1]

\* X_IterateForward and X_IterateBackward: the slots they visit.
Forward(q, b, e) == IF b <= e THEN Up(b, e - 1) ELSE Up(b, q.cap - 1) \o Up(0, e - 1)
Backward(q, b, e) == IF b <= e THEN Down(e - 1, b) ELSE Down(e - 1, 0) \o Down(q.cap - 1, b)

Retreat(q, i, n) == IF i < n THEN i - n + q.cap ELSE i - n
\* Mutation: a position that comes to the end of the block does not wrap.
AdvanceBeyond(q, i, n) == IF q.cap - i < n THEN i + n - q.cap ELSE i + n
Advance(q, i, n) == IF q.cap - i <= n THEN i + n - q.cap ELSE i + n

Size(q) == Retreat(q, q.end, q.begin)
CapacityOf(q) == q.cap - 1
Items(q) == [k \in 1..Size(q) |-> At(q.s, Advance(q, q.begin, k - 1))]

GetFirst(q) == IF q.begin = q.end THEN Null ELSE q.begin
GetLast(q) == IF q.begin = q.end THEN Null ELSE Retreat(q, q.end, 1)
GetNext(q, i) == IF Advance(q, i, 1) = q.end THEN Null ELSE Advance(q, i, 1)
GetPrev(q, i) == IF i = q.begin THEN Null ELSE Retreat(q, i, 1)

Enumerate(q) == Trail(GetFirst(q), LAMBDA i : GetNext(q, i), MaxSize + 1)
EnumerateBack(q) == Trail(GetLast(q), LAMBDA i : GetPrev(q, i), MaxSize + 1)

\* The contiguous stretches that a reader and a writer of the ring are given.
LeadingSequence(q) == IF q.begin <= q.end THEN Up(q.begin, q.end - 1) ELSE Up(q.begin, q.cap - 1)
TrailingSequence(q) == IF q.begin <= q.end THEN Up(q.begin, q.end - 1) ELSE Up(0, q.end - 1)

\* Throwing at its k-th event (the allocation, then the copies) it undoes itself.
Reserve(q, n, fail) ==
  LET slots == Growth(q.cap, n + 1)
      is    == Forward(q, q.begin, q.end)
      some  == SubSeq(is, 1, IF fail = 0 THEN Len(is) ELSE fail - 1)
      new   == ConstructAll(Storage(slots), Up(0, Len(some) - 1), Holds(q.s, some))
      old   == DestructAll(q.s, is)
  IN  CASE n <= CapacityOf(q) -> q
        [] n > CapacityOf(q) /\ fail = 0 ->
             [s |-> Blame(new, Freed(old)), begin |-> 0, end |-> Len(is), cap |-> slots]
        [] n > CapacityOf(q) /\ fail # 0 ->
             [q EXCEPT !.s = Blame(q.s, Freed(DestructAll(new, Down(Len(some) - 1, 0))))]
ReserveMore(q, n) == Reserve(q, Size(q) + n, 0)

UncheckedUnshift(q, e) ==
  LET b == Retreat(q, q.begin, 1)
  IN  [q EXCEPT !.s = Construct(Check(q.s, "room", CapacityOf(q) - Size(q) > 0), b, e), !.begin = b]
UncheckedPush(q, e) ==
  [q EXCEPT !.s = Construct(Check(q.s, "room", CapacityOf(q) - Size(q) > 0), q.end, e),
            !.end = Advance(q, q.end, 1)]
Shift(q, n) ==
  LET b == Advance(q, q.begin, n)
  IN  [q EXCEPT !.s = DestructAll(q.s, Forward(q, q.begin, b)), !.begin = b]
Pop(q, n) ==
  LET e == Retreat(q, q.end, n)
  IN  [q EXCEPT !.s = DestructAll(q.s, Backward(q, e, q.end)), !.end = e]

Unshift(q, e) == UncheckedUnshift(ReserveMore(q, 1), e)
Push(q, e) == UncheckedPush(ReserveMore(q, 1), e)
Destroy(q) == Freed(Shift(q, Size(q)).s)

\* The first arguments go in; if another was to come, they are taken out again.
PrependAll(q, vals, forward, fail) ==
  LET n    == IF fail = 0 THEN Len(vals) ELSE fail - 1
      some == SubSeq(Reverse(vals), 1, n)
      full == IF forward THEN Fold(UncheckedUnshift, ReserveMore(q, Len(vals)), some)
                         ELSE Fold(Unshift, q, some)
  IN  IF fail = 0 THEN full ELSE Shift(full, n)

AppendAll(q, vals, forward, fail) ==
  LET n    == IF fail = 0 THEN Len(vals) ELSE fail - 1
      some == SubSeq(vals, 1, n)
      full == IF forward THEN Fold(UncheckedPush, ReserveMore(q, Len(vals)), some)
                         ELSE Fold(Push, q, some)
  IN  IF fail = 0 THEN full ELSE Pop(full, n)

\* A queue with other contents takes this one's place, unless making it throws.
Rebuild(q, vals, capacity, fail) ==
  LET temp == Fold(Push, Reserve(New, capacity, 0), IF fail = 0 THEN vals ELSE SubSeq(vals, 1, fail - 1))
  IN  IF fail = 0 THEN [temp EXCEPT !.s = Blame(temp.s, Destroy(q))]
      ELSE [q EXCEPT !.s = Blame(q.s, Destroy(temp))]

AssignFrom(q, vals, fail) ==
  IF trait = "nothrow" \/ q.begin = q.end
  THEN LET full == Fold(UncheckedPush, Reserve(q, Len(vals), 0),
                        IF fail = 0 THEN vals ELSE SubSeq(vals, 1, fail - 1))
       IN  IF fail = 0 THEN full ELSE Shift(full, Size(full))
  ELSE Rebuild(q, vals, Len(vals), fail)

\* The shorter side makes way: [q, offset of the gap, whether it is the tail that moved].
PrepareForInsertion(q, pos, n) ==
  LET tail == Retreat(q, pos, q.begin) >= Retreat(q, q.end, pos)
      r    == ReserveMore(q, n)
      s    == IF tail THEN MoveAll(r.s, Backward(r, pos, r.end), LAMBDA i : Advance(r, i, n))
                      ELSE MoveAll(r.s, Forward(r, r.begin, pos), LAMBDA i : Retreat(r, i, n))
  IN  [q |-> [r EXCEPT !.s = s], at |-> IF tail THEN pos ELSE Retreat(r, pos, n), tail |-> tail]

UndoPreparation(p, s, n) ==
  IF p.tail THEN MoveBack(s, Forward(p.q, p.at, p.q.end), LAMBDA i : Advance(p.q, i, n))
  ELSE MoveBack(s, Backward(p.q, p.q.begin, Advance(p.q, p.at, n)), LAMBDA i : Retreat(p.q, i, n))

\* Elements that move without throwing have made way in p.q.
InsertPrepared(p, vals, fail) ==
  LET n    == Len(vals)
      here == [i \in 1..(IF fail = 0 THEN n ELSE fail - 1) |-> Advance(p.q, p.at, i - 1)]
      full == ConstructAll(p.q.s, here, vals)
  IN  CASE fail # 0 -> [p.q EXCEPT !.s = UndoPreparation(p, DestructAll(full, Reverse(here)), n)]
        [] fail = 0 /\ p.tail  -> [p.q EXCEPT !.s = full, !.end = Advance(p.q, @, n)]
        [] fail = 0 /\ ~p.tail -> [p.q EXCEPT !.s = full, !.begin = Retreat(p.q, @, n)]

InsertVals(q, pos, vals, forward, fail) ==
  LET n     == Len(vals)
      k     == Retreat(q, pos, q.begin)
      whole == SubSeq(Items(q), 1, k) \o vals \o SubSeq(Items(q), k + 1, Size(q))
      least == IF forward THEN Size(q) + n ELSE 0
  IN  CASE n = 0 -> q
        [] n > 0 /\ trait # "copy" /\ forward ->
             Of(LAMBDA p : InsertPrepared(p, vals, fail), PrepareForInsertion(q, pos, n))
        [] n > 0 /\ ~(trait # "copy" /\ forward) ->
             Rebuild(q, whole, IF least < CapacityOf(q) THEN CapacityOf(q) ELSE least, fail)

EraseRange(q, b, e, fail) ==
  LET n    == Retreat(q, e, b)
      k    == Retreat(q, b, q.begin)
      gap  == DestructAll(q.s, Forward(q, b, e))
      rest == SubSeq(Items(q), 1, k) \o SubSeq(Items(q), k + n + 1, Size(q))
  IN  CASE e = q.end -> Pop(q, n)
        [] e # q.end /\ b = q.begin -> Shift(q, n)
        [] e # q.end /\ b # q.begin /\ trait # "copy" ->
             [q EXCEPT !.s = MoveAll(gap, Forward(q, e, q.end), LAMBDA i : Retreat(q, i, n)),
                       !.end = Retreat(q, @, n)]
        [] e # q.end /\ b # q.begin /\ trait = "copy" -> Rebuild(q, rest, CapacityOf(q), fail)
-----------------------------------------------------------------------------
Room == MaxSize - Size(self)

Init == trait \in Traits /\ self = New /\ call = NoCall

Assign == \E vals \in Arguments(MaxSize) : \E fail \in Failures(Len(vals)) :
  /\ Careful => trait # "nothrow" \/ self.begin = self.end
  /\ Did("assign", 0, 0, vals, fail = 0, AssignFrom(self, vals, fail))

Grow == \E n \in 1..MaxSize : \E fail \in 0..(IF trait = "copy" THEN Size(self) + 1 ELSE 1) :
  /\ n > CapacityOf(self)
  /\ Did("keep", 0, 0, <<>>, fail = 0, Reserve(self, n, fail))

AppendOrPush == \E vals \in Arguments(Room), forward \in BOOLEAN : \E fail \in Failures(Len(vals)) :
  Did("insert", Size(self), 0, vals, fail = 0, AppendAll(self, vals, forward, fail))

PrependOrUnshift == \E vals \in Arguments(Room), forward \in BOOLEAN : \E fail \in Failures(Len(vals)) :
  Did("insert", 0, 0, vals, fail = 0, PrependAll(self, vals, forward, fail))

\* The offset of the position is taken before the ring grows, and used after it:
\* callers who are careful insert into a ring that has room, or starts at slot 0.
Insert == \E k \in 0..Size(self), vals \in Arguments(Room), forward \in BOOLEAN :
  \E fail \in Failures(Len(vals) + (IF trait = "copy" \/ ~forward THEN Size(self) ELSE 0)) :
    /\ vals # <<>>
    /\ Careful => trait = "copy" \/ ~forward \/ self.begin = 0 \/ Size(self) + Len(vals) <= CapacityOf(self)
    /\ Did("insert", k, 0, vals, fail = 0,
           InsertVals(self, Advance(self, self.begin, k), vals, forward, fail))

Erase == \E from \in 0..Size(self) : \E to \in from..Size(self) :
  \E fail \in (IF trait = "copy" /\ from > 0 /\ to < Size(self) THEN 0..(Size(self) - (to - from)) ELSE {0}) :
    /\ from < to
    /\ Did("erase", from, to, <<>>, fail = 0,
           EraseRange(self, Advance(self, self.begin, from), Advance(self, self.begin, to), fail))

\* Whoever receives the elements may throw: the queue is cleared all the same.
Extract == \E done \in BOOLEAN : Did("extract", 0, 0, <<>>, done, Shift(self, Size(self)))

Next == Assign \/ Grow \/ AppendOrPush \/ PrependOrUnshift \/ Insert \/ Erase \/ Extract

Spec == Init /\ [][Next]_vars
-----------------------------------------------------------------------------
Sound ==
  /\ self.s.bad = {}
  /\ {i \in DOMAIN self.s.mem : self.s.mem[i] # Raw} = ToSet(Forward(self, self.begin, self.end))
  /\ Enumerate(self) = Forward(self, self.begin, self.end)
  /\ EnumerateBack(self) = Reverse(Enumerate(self))
  /\ LET wraps == self.begin > self.end
     IN  Enumerate(self) = IF wraps THEN LeadingSequence(self) \o TrailingSequence(self)
                                    ELSE LeadingSequence(self)
=============================================================================
