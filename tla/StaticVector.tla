---------------------------- MODULE StaticVector ----------------------------
(***************************************************************************)
(* MCF::StaticVector (Containers/StaticVector.hpp): elements in the first  *)
(* slots of an array that is part of the container and cannot grow.        *)
(***************************************************************************)
EXTENDS Container

CONSTANT Capacity   \* kCapacityT

V == INSTANCE Vector

New == [s |-> Storage(Capacity), size |-> 0]

Items(v) == V!Items(v)
Enumerate(v) == V!Enumerate(v)
EnumerateBack(v) == V!EnumerateBack(v)

\* A container that is full refuses; otherwise as a Vector that has the room.
AppendAll(v, vals, forward, fail) ==
  LET fits == v.size + Len(vals) <= Capacity
      stop == IF fits THEN fail ELSE Capacity - v.size + 1
  IN  IF forward /\ ~fits THEN v
      ELSE V!Pushed(v, vals, IF fail # 0 /\ fail < stop THEN fail ELSE stop, V!UncheckedPush)

\* Assignment clears first: nothing is left to go back to when a copy throws.
AssignFrom(v, vals, fail) == AppendAll(V!Pop(v, v.size), vals, TRUE, fail)

Init == trait \in Traits /\ self = New /\ call = NoCall

Assign == \E vals \in Arguments(Capacity) : \E fail \in Failures(Len(vals)) :
  Did("assign", 0, 0, vals, fail = 0, AssignFrom(self, vals, fail))

AppendOrPush == \E vals \in Arguments(MaxSize - self.size), forward \in BOOLEAN :
  \E fail \in Failures(Len(vals)) :
    LET fits == self.size + Len(vals) <= Capacity
    IN  Did("insert", self.size, 0, vals, fail = 0 /\ fits, AppendAll(self, vals, forward, fail))

Pop == \E n \in 1..self.size :
  Did("erase", self.size - n, self.size, <<>>, TRUE, V!Pop(self, n))

Extract == \E done \in BOOLEAN : Did("extract", 0, 0, <<>>, done, V!Pop(self, self.size))

Next == Assign \/ AppendOrPush \/ Pop \/ Extract

Spec == Init /\ [][Next]_vars

Sound ==
  /\ self.s.bad = {}
  /\ DOMAIN self.s.mem = 0..(Capacity - 1)
  /\ \A i \in DOMAIN self.s.mem : (self.s.mem[i] # Raw) <=> (i < self.size)
  /\ Holds(self.s, Enumerate(self)) = Items(self)
  /\ EnumerateBack(self) = Reverse(Enumerate(self))
=============================================================================
