--------------------------- MODULE FlatContainers ---------------------------
(***************************************************************************)
(* MCF::FlatMap, FlatMultiMap, FlatSet and FlatMultiSet: elements in the   *)
(* order of their keys in one block (Impl_FlatContainer::FlatContainer),   *)
(* found by binary search.                                                 *)
(*                                                                         *)
(* An element is a key and a tag: the value of a FlatMap or FlatSet, and   *)
(* in the other two the number of its kind, which tells equal keys apart   *)
(* by the order in which they came.                                        *)
(***************************************************************************)
EXTENDS Container

CONSTANTS Keys,     \* a set of numbers
          MaxTag    \* bound: of tags

V == INSTANCE Vector

Unique == {"FlatMap", "FlatSet"}
Classes == Unique \cup {"FlatMultiMap", "FlatMultiSet"}

New(class) == [s |-> Storage(0), size |-> 0, class |-> class]
Items(f) == V!Items(f)
Key(f, i) == f.s.mem[i][1]

\* What enumerating visits, from the first element on and from the last one back.
Walk(f) ==
  LET On(i)   == IF i + 1 = f.size THEN Null ELSE i + 1
      Back(i) == IF i = 0 THEN Null ELSE i - 1
      Ends(i) == IF f.size = 0 THEN Null ELSE i
  IN  <<Trail(Ends(0), On, MaxSize + 1), Trail(Ends(f.size - 1), Back, MaxSize + 1)>>

\* Elements that move without throwing (kEnabled) make way for the new one, as in a Vector.
Emplace(f, i, e, fail) ==
  Of(LAMBDA v : [s |-> v.s, size |-> v.size, class |-> f.class],
     V!InsertVals([s |-> f.s, size |-> f.size], i, <<e>>, TRUE, fail))

EraseRange(f, b, e, fail) ==
  LET n    == e - b
      gap  == DestructAll(f.s, Up(b, e - 1))
      rest == SubSeq(Items(f), 1, b) \o SubSeq(Items(f), e + 1, f.size)
      v    == IF trait # "copy"
              THEN [s |-> MoveAll(gap, Up(e, f.size - 1), LAMBDA i : i - n), size |-> f.size - n]
              ELSE V!Rebuild([s |-> f.s, size |-> f.size], rest, Cardinality(DOMAIN f.s.mem), fail)
  IN  IF n = 0 THEN f ELSE [s |-> v.s, size |-> v.size, class |-> f.class]

\* The first place in [b, e) from which on Before no longer holds of the keys.
Bound(f, b, e, Before(_)) ==
  LET p[x \in Nat \X Nat] ==
        LET lower == x[1]  upper == x[2]  middle == lower + (upper - lower) \div 2
        IN  CASE lower = upper -> lower
              [] lower # upper /\ Before(Key(f, middle)) -> p[<<middle + 1, upper>>]
              [] lower # upper /\ ~Before(Key(f, middle)) -> p[<<lower, middle>>]
  IN  p[<<b, e>>]
LowerBound(f, b, e, k) == Bound(f, b, e, LAMBDA key : key < k)
UpperBound(f, b, e, k) == Bound(f, b, e, LAMBDA key : ~(k < key))
Match(f, k) ==
  LET p[x \in Nat \X Nat] ==
        LET lower == x[1]  upper == x[2]  middle == lower + (upper - lower) \div 2
        IN  CASE lower = upper -> f.size
              [] lower # upper /\ Key(f, middle) < k -> p[<<middle + 1, upper>>]
              [] lower # upper /\ k < Key(f, middle) -> p[<<lower, middle>>]
              [] lower # upper /\ Key(f, middle) = k -> middle
  IN  p[<<0, f.size>>]

\* The equal range of a map or set is empty, at its match.  That of the other two lies on
\* both sides of a match; without one, it goes from the first greater key to the end.
FlatMapEqualRange(f, k) == <<Match(f, k), Match(f, k)>>
FlatSetEqualRange(f, k) == <<Match(f, k), Match(f, k)>>
FlatMultiMapEqualRange(f, k) == <<LowerBound(f, 0, Match(f, k), k), UpperBound(f, Match(f, k), f.size, k)>>
FlatMultiSetEqualRange(f, k) == <<LowerBound(f, 0, Match(f, k), k), UpperBound(f, Match(f, k), f.size, k)>>

\* What the look-ups by key return.
Found(f, k, range) ==
  [lower |-> LowerBound(f, 0, f.size, k), upper |-> UpperBound(f, 0, f.size, k), match |-> Match(f, k), range |-> range]
FlatMapLookUp(f, k) == Found(f, k, FlatMapEqualRange(f, k))
FlatSetLookUp(f, k) == Found(f, k, FlatSetEqualRange(f, k))
FlatMultiMapLookUp(f, k) == Found(f, k, FlatMultiMapEqualRange(f, k))
FlatMultiSetLookUp(f, k) == Found(f, k, FlatMultiSetEqualRange(f, k))

LookUp(f, k) ==
  CASE f.class = "FlatMap" -> FlatMapLookUp(f, k)
    [] f.class = "FlatSet" -> FlatSetLookUp(f, k)
    [] f.class = "FlatMultiMap" -> FlatMultiMapLookUp(f, k)
    [] f.class = "FlatMultiSet" -> FlatMultiSetLookUp(f, k)

\* Where AddWithHint puts key k: at a hint that fits, or else after all that are not greater.
Hinted(f, hint, k) ==
  LET before(i) == i = 0 \/ ~(k < Key(f, i - 1))
      fits == IF hint = Null THEN before(f.size)
              ELSE before(hint) /\ (hint = f.size \/ k < Key(f, hint))
  IN  CASE ~fits -> UpperBound(f, 0, f.size, k)
        [] fits /\ hint = Null -> f.size
        [] fits /\ hint # Null -> hint
Taken(f, i, k) == i > 0 /\ ~(Key(f, i - 1) < k)

FlatMapAdd(f, hint, e, fail) ==
  LET i == Hinted(f, hint, e[1]) IN IF Taken(f, i, e[1]) THEN f ELSE Emplace(f, i, e, fail)
FlatSetAdd(f, hint, e, fail) ==
  LET i == Hinted(f, hint, e[1]) IN IF Taken(f, i, e[1]) THEN f ELSE Emplace(f, i, e, fail)
FlatMultiMapAdd(f, hint, e, fail) == Emplace(f, Hinted(f, hint, e[1]), e, fail)
FlatMultiSetAdd(f, hint, e, fail) == Emplace(f, Hinted(f, hint, e[1]), e, fail)

AddWithHint(f, hint, e, fail) ==
  CASE f.class = "FlatMap" -> FlatMapAdd(f, hint, e, fail)
    [] f.class = "FlatSet" -> FlatSetAdd(f, hint, e, fail)
    [] f.class = "FlatMultiMap" -> FlatMultiMapAdd(f, hint, e, fail)
    [] f.class = "FlatMultiSet" -> FlatMultiSetAdd(f, hint, e, fail)

\* AddWithHint returns the place after a key that is taken: that value is overwritten.
ReplaceValue(f, e, fail) ==
  LET i == Hinted(f, Null, e[1])
  IN  CASE ~Taken(f, i, e[1]) -> AddWithHint(f, Null, e, fail)
        [] Taken(f, i, e[1]) /\ i < f.size -> [f EXCEPT !.s.mem[i] = <<Key(f, i), e[2]>>]
        [] Taken(f, i, e[1]) /\ i = f.size -> [f EXCEPT !.s = Check(f.s, "slot", FALSE)]

RemoveKey(f, k, fail) == LET r == LookUp(f, k).range IN EraseRange(f, r[1], r[2], fail)

\* The constructors from a range add one element after the other, hinting at the end.
FlatMapBuild(es) == Fold(LAMBDA f, e : FlatMapAdd(f, f.size, e, 0), New("FlatMap"), es)
FlatSetBuild(es) == Fold(LAMBDA f, e : FlatSetAdd(f, f.size, e, 0), New("FlatSet"), es)
FlatMultiMapBuild(es) == Fold(LAMBDA f, e : FlatMultiMapAdd(f, f.size, e, 0), New("FlatMultiMap"), es)
FlatMultiSetBuild(es) == Fold(LAMBDA f, e : FlatMultiSetAdd(f, f.size, e, 0), New("FlatMultiSet"), es)

Build(class, es) ==
  CASE class = "FlatMap" -> FlatMapBuild(es)
    [] class = "FlatSet" -> FlatSetBuild(es)
    [] class = "FlatMultiMap" -> FlatMultiMapBuild(es)
    [] class = "FlatMultiSet" -> FlatMultiSetBuild(es)
-----------------------------------------------------------------------------
Here == {i \in 0..(self.size - 1) : TRUE}
NotGreater(k) == Cardinality({i \in Here : Key(self, i) <= k})
Smaller(k) == Cardinality({i \in Here : Key(self, i) < k})
Has(k) == \E i \in Here : Key(self, i) = k

\* The tags that a new element with key k may have.
Tags(k) ==
  IF self.class \in Unique THEN 1..2
  ELSE {t \in 1..MaxTag : /\ \A i \in Here : Key(self, i) = k => self.s.mem[i][2] < t
                          /\ t = 1 \/ \E i \in Here : self.s.mem[i] = <<k, t - 1>>}
CopyFailures(n) == IF trait = "copy" THEN 0..n ELSE {0}

Init == \E class \in Classes : trait \in {"move", "copy"} /\ self = New(class) /\ call = NoCall

Add == \E k \in Keys, hint \in {Null} \cup 0..self.size : \E t \in Tags(k) :
  \E fail \in 0..(IF trait = "copy" THEN self.size + 1 ELSE 1) :
    LET taken == self.class \in Unique /\ Has(k)
    IN  /\ self.size < MaxSize
        /\ IF taken THEN fail = 0 /\ Did("keep", 0, 0, <<>>, TRUE, AddWithHint(self, hint, <<k, t>>, 0))
           ELSE Did("insert", NotGreater(k), 0, <<<<k, t>>>>, fail = 0, AddWithHint(self, hint, <<k, t>>, fail))

\* Careful callers replace only what is not there yet.
Replace == \E k \in Keys, t \in 1..2, fail \in 0..1 :
  /\ self.class = "FlatMap" /\ self.size < MaxSize
  /\ Careful => ~Has(k)
  /\ Did("insert", NotGreater(k), 0, <<<<k, t>>>>, fail = 0, ReplaceValue(self, <<k, t>>, fail))

\* Careful callers remove by key what is there from a container that allows duplicates, and
\* what is not there from one that does not (in which Remove finds nothing in any case).
RemoveByKey == \E k \in Keys : \E fail \in CopyFailures(self.size - (NotGreater(k) - Smaller(k))) :
  /\ Careful => (Has(k) <=> self.class \notin Unique)
  /\ fail # 0 => Has(k)
  /\ Did("erase", Smaller(k), NotGreater(k), <<>>, fail = 0, RemoveKey(self, k, fail))

Erase == \E b \in 0..self.size : \E e \in (b + 1)..self.size : \E fail \in CopyFailures(self.size - (e - b)) :
  Did("erase", b, e, <<>>, fail = 0, EraseRange(self, b, e, fail))

\* A copy or a new container of elements in any order takes this one's place.
Assign == \E n \in 1..3 : \E ks \in [1..n -> Keys] :
  LET Nth(i)  == Cardinality({j \in 1..i : ks[j] = ks[i]})
      es      == [i \in 1..n |-> <<ks[i], Nth(i)>>]
      kept    == {es[i] : i \in {j \in 1..n : self.class \in Unique => Nth(j) = 1}}
      sorted  == SetToSortSeq(kept, LAMBDA x, y : x[1] < y[1] \/ (x[1] = y[1] /\ x[2] < y[2]))
      Replaced(new) == [new EXCEPT !.s = Blame(@, V!Destroy([s |-> self.s, size |-> self.size]))]
  IN  Did("assign", 0, 0, sorted, TRUE, Of(Replaced, Build(self.class, es)))

Next == Add \/ Replace \/ RemoveByKey \/ Erase \/ Assign

Spec == Init /\ [][Next]_vars
-----------------------------------------------------------------------------
Sound ==
  /\ V!Sound
  /\ Walk(self) = <<Up(0, self.size - 1), Down(self.size - 1, 0)>>
  /\ \A i, j \in Here : i < j =>
       \/ Key(self, i) < Key(self, j)
       \/ self.class \notin Unique /\ Key(self, i) = Key(self, j) /\ self.s.mem[i][2] < self.s.mem[j][2]
  /\ \A k \in Keys :
       LET found == LookUp(self, k)
       IN  /\ found.lower = Smaller(k) /\ found.upper = NotGreater(k)
           /\ IF Has(k) THEN found.match \in Here /\ Key(self, found.match) = k ELSE found.match = self.size
           /\ Has(k) /\ self.class \notin Unique => found.range = <<found.lower, found.upper>>
=============================================================================
