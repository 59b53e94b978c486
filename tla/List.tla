-------------------------------- MODULE List --------------------------------
(***************************************************************************)
(* MCF::List (Containers/List.hpp): a doubly linked list.  Nodes are slots *)
(* of one heap, which the list shares with the temporary lists that its    *)
(* calls build and splice from.                                            *)
(***************************************************************************)
EXTENDS Container

Nodes == 0..(MaxSize + 1)   \* a bound: the list and what a call allocates beside it

\* s.mem holds the element of each node (raw: not allocated), prev and next its links,
\* and first and last the ends of the list itself and of the temporary one.
Lists == {"this", "new"}
New == [s |-> Storage(MaxSize + 2),
        prev |-> [i \in Nodes |-> Null], next |-> [i \in Nodes |-> Null],
        first |-> [l \in Lists |-> Null], last |-> [l \in Lists |-> Null]]

\* Following the links; a list that does not end within the heap stays where it is.
Path(from, link) ==
  LET p[k \in Nat] == IF k = 0 THEN from ELSE LET i == p[k - 1] IN IF i = Null THEN Null ELSE link[i]
      n == CHOOSE k \in 0..(MaxSize + 2) : k = MaxSize + 2 \/ p[k] = Null
  IN  [k \in 1..n |-> p[k - 1]]

Enumerate(h, l) == Path(h.first[l], h.next)
EnumerateBack(h, l) == Path(h.last[l], h.prev)
ItemsOf(h, l) == LET p == Enumerate(h, l) IN [k \in DOMAIN p |-> h.s.mem[p[k]]]
Items(h) == ItemsOf(h, "this")

Position(h, k) == IF k < Len(Items(h)) THEN Enumerate(h, "this")[k + 1] ELSE Null

\* (p ? p->pPrev : x_pLast) = i, and (p ? p->pNext : x_pFirst) = i.
SetPrev(h, l, p, i) == IF p = Null THEN [h EXCEPT !.last[l] = i] ELSE [h EXCEPT !.prev[p] = i]
SetNext(h, l, p, i) == IF p = Null THEN [h EXCEPT !.first[l] = i] ELSE [h EXCEPT !.next[p] = i]
GetPrev(h, l, p) == IF p = Null THEN h.last[l] ELSE h.prev[p]

Free(h) == CHOOSE i \in Nodes : h.s.mem[i] = Raw /\ \A j \in Nodes : j < i => h.s.mem[j] # Raw
Release(h, i) == [h EXCEPT !.s = Destruct(@, i), !.prev[i] = Null, !.next[i] = Null]

Push(h, l, e) ==
  LET i == Free(h)
      n == [h EXCEPT !.s = Construct(@, i, e), !.prev[i] = h.last[l], !.next[i] = Null]
  IN  SetPrev(SetNext(n, l, h.last[l], i), l, Null, i)
Unshift(h, l, e) ==
  LET i == Free(h)
      n == [h EXCEPT !.s = Construct(@, i, e), !.prev[i] = Null, !.next[i] = h.first[l]]
  IN  SetNext(SetPrev(n, l, h.first[l], i), l, Null, i)

\* Nodes are freed one by one from an end, and the new end is cut off.
Pop(h, l, n) ==
  LET back == EnumerateBack(h, l)
      left == IF n < Len(back) THEN back[n + 1] ELSE Null
  IN  SetPrev(SetNext(Fold(Release, h, SubSeq(back, 1, n)), l, left, Null), l, Null, left)
Shift(h, l, n) ==
  LET forth == Enumerate(h, l)
      left  == IF n < Len(forth) THEN forth[n + 1] ELSE Null
  IN  SetNext(SetPrev(Fold(Release, h, SubSeq(forth, 1, n)), l, left, Null), l, Null, left)
Clear(h, l) ==
  [Fold(Release, h, EnumerateBack(h, l)) EXCEPT !.first[l] = Null, !.last[l] = Null]

\* The nodes from b up to e of list "src" go before node "at" of list "dst".
Splice(h, dst, at, src, b, e) ==
  LET beforeBegin  == h.prev[b]
      h1           == SetPrev(h, src, e, beforeBegin)
      beforeEnd    == GetPrev(h, src, e)
      h2           == SetPrev(h1, dst, at, beforeEnd)
      beforeInsert == GetPrev(h1, dst, at)
      h3           == SetNext(SetNext(h2, dst, beforeInsert, b), src, beforeBegin, e)
  IN  IF b = e THEN h
      ELSE [h3 EXCEPT !.prev[b] = beforeInsert, !.next[beforeEnd] = at]

\* Prepend, Append, Emplace, Insert: a new list is built first and spliced in whole.
InsertVals(h, at, vals, fail) ==
  LET PushNew(g, e) == Push(g, "new", e)
      built == Fold(PushNew, h, IF fail = 0 THEN vals ELSE SubSeq(vals, 1, fail - 1))
  IN  IF fail = 0 THEN Splice(built, "this", at, "new", built.first["new"], Null)
      ELSE Clear(built, "new")

\* Erase: the nodes are spliced into a new list, which is then destroyed.
EraseRange(h, b, e) == Clear(Splice(h, "new", Null, "this", b, e), "new")

\* The copy constructor takes each element from the next node instead of its own:
\* it leaves out the first one and takes the last one from no node at all.
CopyVals(vals) == [k \in DOMAIN vals |-> IF k < Len(vals) THEN vals[k + 1] ELSE Raw]

\* Assignment: a copy is built, swapped in, and the old nodes die with the copy.
AssignFrom(h, vals, fail) ==
  LET PushNew(g, e) == Push(g, "new", e)
      built == Fold(PushNew, h, CopyVals(IF fail = 0 THEN vals ELSE SubSeq(vals, 1, fail - 1)))
      swapped == [built EXCEPT !.first = [this |-> built.first["new"], new |-> built.first["this"]],
                               !.last  = [this |-> built.last["new"], new |-> built.last["this"]]]
  IN  Clear(IF fail = 0 THEN swapped ELSE built, "new")

\* The links are exchanged in each place from the list's ends through all nodes.
Turn(h) ==
  LET Swap(g, i) == [g EXCEPT !.next[i] = g.prev[i], !.prev[i] = g.next[i]]
  IN  [Fold(Swap, h, Enumerate(h, "this")) EXCEPT
         !.first["this"] = h.last["this"], !.last["this"] = h.first["this"]]
-----------------------------------------------------------------------------
Size == Len(Items(self))

Init == trait = "move" /\ self = New /\ call = NoCall

Assign == \E vals \in Arguments(IF Careful THEN 0 ELSE 2) : \E fail \in Failures(Len(vals)) :
  Did("assign", 0, 0, vals, fail = 0, AssignFrom(self, vals, fail))

Insert == \E at \in 0..Size, vals \in Arguments(MaxSize - Size) : \E fail \in Failures(Len(vals)) :
  /\ vals # <<>>
  /\ Did("insert", at, 0, vals, fail = 0, InsertVals(self, Position(self, at), vals, fail))

\* Push and Unshift link a single node by themselves.
PushOrUnshift == \E e \in Elements :
  /\ Size < MaxSize
  /\ \/ Did("insert", Size, 0, <<e>>, TRUE, Push(self, "this", e))
     \/ Did("insert", 0, 0, <<e>>, TRUE, Unshift(self, "this", e))

PopOrShift == \E n \in 1..Size :
  \/ Did("erase", Size - n, Size, <<>>, TRUE, Pop(self, "this", n))
  \/ Did("erase", 0, n, <<>>, TRUE, Shift(self, "this", n))

Erase == \E from \in 0..Size : \E to \in (from + 1)..Size :
  Did("erase", from, to, <<>>, TRUE, EraseRange(self, Position(self, from), Position(self, to)))

Extract == \E done \in BOOLEAN : Did("extract", 0, 0, <<>>, done, Clear(self, "this"))

\* Nodes from a place of another list, which then dies with the rest of its nodes.
SpliceFrom == \E at \in 0..Size, vals \in Arguments(MaxSize - Size) : \E b \in 1..Len(vals) : \E e \in (b + 1)..(Len(vals) + 1) :
  LET PushNew(g, x) == Push(g, "new", x)
      built == Fold(PushNew, self, vals)
      nodes == Enumerate(built, "new")
      moved == Splice(built, "this", Position(self, at), "new", nodes[b],
                      IF e <= Len(vals) THEN nodes[e] ELSE Null)
  IN  Did("insert", at, 0, SubSeq(vals, b, e - 1), TRUE, Clear(moved, "new"))

Turnaround == Did("reverse", 0, 0, <<>>, TRUE, Turn(self))

Next == Assign \/ Insert \/ PushOrUnshift \/ PopOrShift \/ Erase \/ Extract \/ SpliceFrom \/ Turnaround

Spec == Init /\ [][Next]_vars
-----------------------------------------------------------------------------
Sound ==
  /\ self.s.bad = {}
  /\ EnumerateBack(self, "this") = Reverse(Enumerate(self, "this"))
  /\ {i \in Nodes : self.s.mem[i] # Raw} = ToSet(Enumerate(self, "this"))
  /\ self.first["new"] = Null /\ self.last["new"] = Null
=============================================================================
