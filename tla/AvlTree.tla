------------------------------ MODULE AvlTree ------------------------------
(***************************************************************************)
(* The tree that the run-time keeps its threads, thread-local objects,     *)
(* heap blocks and thunks in (env/avl_tree.c, avl_tree.h): height-balanced *)
(* and threaded, each node refers to its parent, to the pointer that refers*)
(* to it ("refl"), to its two children and to both its neighbours.  A call *)
(* is one step: callers hold a lock.  After each call nodes are numbered   *)
(* afresh, in their order.                                                 *)
(***************************************************************************)
EXTENDS Container

CONSTANTS Keys, MaxTag     \* what the nodes hold; equal keys differ in the tag

Mirror(side) == IF side = "left" THEN "right" ELSE "left"
Ref(of, side) == [of |-> of, side |-> side]
RootRef == Ref(Null, "left")

New == [root |-> Null, node |-> <<>>]

Height(t, i) == IF i = Null THEN 0 ELSE t.node[i].height

\* *ref = i
Point(t, ref, i) ==
  IF ref.of = Null THEN [t EXCEPT !.root = i] ELSE [t EXCEPT !.node[ref.of][ref.side] = i]

Pointed(t, ref) == IF ref.of = Null THEN t.root ELSE t.node[ref.of][ref.side]

Set(t, i, field, x) == IF i = Null THEN t ELSE [t EXCEPT !.node[i][field] = x]
Hang(t, i, ref) == Set(Set(t, i, "parent", ref.of), i, "refl", ref)

\* Node i whose child on a side is too high: the child takes its place.
RotateOnce(t, i, side) ==
  LET other == Mirror(side)
      up    == t.node[i].refl
      child == t.node[i][side]
      inner == t.node[child][other]
      outer == t.node[child][side]
      kids  == Hang(Hang(t, inner, Ref(i, side)), outer, Ref(child, side))
      low   == [Set(Hang(kids, i, Ref(child, other)), i, side, inner) EXCEPT
                  !.node[i].height = Height(t, inner) + 1]
      top   == [Set(Set(Set(low, child, "parent", t.node[i].parent), child, "refl", up), child, other, i) EXCEPT
                  !.node[child].height = Max({Height(low, outer), Height(low, i)}) + 1]
  IN  [t |-> Point(top, up, child), top |-> child]

\* The same where it is the inner grandchild that is too high: this takes the place.
RotateTwice(t, i, side) ==
  LET other == Mirror(side)
      up    == t.node[i].refl
      child == t.node[i][side]
      mid   == t.node[child][other]
      near  == t.node[mid][side]
      far   == t.node[mid][other]
      kids  == Hang(Hang(t, near, Ref(child, other)), far, Ref(i, side))
      one   == [Set(Hang(kids, child, Ref(mid, side)), child, other, near) EXCEPT
                  !.node[child].height = Max({Height(t, t.node[child][side]), Height(t, near)}) + 1]
      two   == [Set(Hang(one, i, Ref(mid, other)), i, side, far) EXCEPT
                  !.node[i].height = Max({Height(t, far), Height(t, t.node[i][other])}) + 1]
      top   == [Set(Set(Set(Set(two, mid, "parent", t.node[i].parent), mid, "refl", up), mid, side, child), mid, other, i)
                  EXCEPT !.node[mid].height = Max({Height(two, child), Height(two, i)}) + 1]
  IN  [t |-> Point(top, up, mid), top |-> mid]

\* From node i upwards heights are set and subtrees rotated, until one keeps its height.
UpdateRecur(t, i) ==
  LET Balance(s) ==
        LET left  == Height(s.t, s.t.node[s.at].left)
            right == Height(s.t, s.t.node[s.at].right)
            side  == IF left > right THEN "left" ELSE "right"
            child == s.t.node[s.at][side]
            outer == Height(s.t, s.t.node[child][side])
            inner == Height(s.t, s.t.node[child][Mirror(side)])
        IN  IF left - right \in -1..1
            THEN [t |-> Set(s.t, s.at, "height", Max({left, right}) + 1), top |-> s.at]
            ELSE IF outer >= inner THEN RotateOnce(s.t, s.at, side) ELSE RotateTwice(s.t, s.at, side)
      Next_(s, b) ==
        [t |-> b.t, at |-> IF Height(b.t, b.top) = Height(s.t, s.at) THEN Null ELSE s.t.node[s.at].parent]
      Step(s, k) == IF s.at = Null THEN s ELSE Of(LAMBDA b : Next_(s, b), Balance(s))
  IN  Fold(Step, [t |-> t, at |-> i], Up(1, Len(t.node))).t

\* _MCFCRT_AvlInternalAttach: node i becomes a leaf, a neighbour of its parent.
InternalAttach(t, i, ref) ==
  LET parent == ref.of
      prev   == IF parent = Null THEN Null
                ELSE IF ref.side = "left" THEN t.node[parent].prev ELSE parent
      next   == IF parent = Null THEN Null
                ELSE IF ref.side = "left" THEN parent ELSE t.node[parent].next
      leaf   == [t.node[i] EXCEPT !.parent = parent, !.refl = ref, !.left = Null, !.right = Null,
                                  !.height = 1, !.prev = prev, !.next = next]
      linked == Set(Set([Point(t, ref, i) EXCEPT !.node[i] = leaf], prev, "next", i), next, "prev", i)
  IN  IF parent = Null THEN linked ELSE UpdateRecur(linked, parent)

\* _MCFCRT_AvlInternalDetach: a node with a left child is replaced by the one before it.
InternalDetach(t, i) ==
  LET n    == t.node[i]
      left == n.left
      prev == n.prev
      none == Hang(Point(t, n.refl, n.right), n.right, n.refl)
      \* The left child is the one before.
      near == Set(Set(Set(Set(Hang(Point(t, n.refl, left), n.right, Ref(left, "right")),
                              left, "parent", n.parent), left, "refl", n.refl),
                      left, "right", n.right), left, "height", n.height)
      \* The one before is deeper, and leaves its place to its left child.
      from == t.node[prev].refl
      gone == t.node[prev].left
      put  == [Point(t, n.refl, prev) EXCEPT
                 !.node[prev] = [@ EXCEPT !.parent = n.parent, !.refl = n.refl, !.left = left,
                                          !.right = n.right, !.height = n.height]]
      kids == Hang(Hang(put, left, Ref(prev, "left")), n.right, Ref(prev, "right"))
      far  == Hang(Point(kids, from, gone), gone, from)
      done == IF left = Null THEN (IF n.parent = Null THEN none ELSE UpdateRecur(none, n.parent))
              ELSE IF prev = left THEN UpdateRecur(near, left)
              ELSE UpdateRecur(far, from.of)
  IN  Set(Set(done, prev, "next", n.next), n.next, "prev", prev)

\* Below "ref", where a key belongs, behind those that are equal.
Descend(t, key, ref) ==
  LET Step(r, k) ==
        LET cur == Pointed(t, r)
        IN  IF cur = Null THEN r ELSE Ref(cur, IF key < t.node[cur].key THEN "left" ELSE "right")
  IN  Fold(Step, ref, Up(1, Len(t.node)))

\* Next to the hint, if the key belongs there: below whichever of two neighbours is lower.
HintedPlace(t, hint, key) ==
  LET h == t.node[hint]
  IN  IF key < h.key
      THEN IF h.prev = Null THEN Ref(hint, "left")
           ELSE IF key < t.node[h.prev].key THEN RootRef
           ELSE IF Height(t, h.prev) < h.height THEN Ref(h.prev, "right") ELSE Ref(hint, "left")
      ELSE IF h.next = Null THEN Ref(hint, "right")
           ELSE IF ~(key < t.node[h.next].key) THEN RootRef
           ELSE IF h.height < Height(t, h.next) THEN Ref(hint, "right") ELSE Ref(h.next, "left")

\* _MCFCRT_AvlAttachWithHint; without a hint, _MCFCRT_AvlAttach.
AttachWithHint(t, hint, key, tag) ==
  LET i     == Len(t.node) + 1
      place == IF hint = Null THEN RootRef ELSE HintedPlace(t, hint, key)
      n     == [parent |-> Null, refl |-> RootRef, left |-> Null, right |-> Null, height |-> 1,
                prev |-> Null, next |-> Null, key |-> key, tag |-> tag]
  IN  InternalAttach([t EXCEPT !.node = Append(@, n)], i,
                     IF place = RootRef THEN Descend(t, key, RootRef) ELSE place)

\* As far as possible to one side, from the root.
Outermost(t, side) ==
  Fold(LAMBDA i, k : IF t.node[i][side] = Null THEN i ELSE t.node[i][side], t.root,
       IF t.root = Null THEN <<>> ELSE Up(1, Len(t.node)))

\* The first node whose key is not below (strict: is above) a key.
Bound(t, key, strict) ==
  LET Step(s, k) ==
        IF s.cur = Null THEN s
        ELSE IF t.node[s.cur].key < key \/ (strict /\ t.node[s.cur].key = key)
             THEN [s EXCEPT !.cur = t.node[s.cur].right]
             ELSE [ret |-> s.cur, cur |-> t.node[s.cur].left]
  IN  Fold(Step, [ret |-> Null, cur |-> t.root], Up(1, Len(t.node))).ret

AvlFind(t, key) ==
  LET Step(i, k) ==
        IF i = Null \/ t.node[i].key = key THEN i
        ELSE IF t.node[i].key < key THEN t.node[i].right ELSE t.node[i].left
  IN  Fold(Step, t.root, Up(1, Len(t.node)))

Chain(t) == Trail(Outermost(t, "left"), LAMBDA i : t.node[i].next, Len(t.node) + 1)
ChainBack(t) == Trail(Outermost(t, "right"), LAMBDA i : t.node[i].prev, Len(t.node) + 1)

Items(t) == LET chain == Chain(t) IN [k \in DOMAIN chain |-> <<t.node[chain[k]].key, t.node[chain[k]].tag>>]

\* The nodes along the thread, and then those that cannot be reached.
Order(t, gone) ==
  LET Completed(chain) == chain \o SetToSeq(((DOMAIN t.node) \ gone) \ {chain[k] : k \in DOMAIN chain})
  IN  Of(Completed, Chain(t))

\* The nodes in "order" become 1, 2, ...
Renumbered(t, order) ==
  LET place   == [i \in {order[k] : k \in DOMAIN order} |-> CHOOSE k \in DOMAIN order : order[k] = i]
      Now(i)  == IF i \in DOMAIN place THEN place[i] ELSE Null
      Node(n) == [n EXCEPT !.parent = Now(@), !.refl.of = Now(@), !.left = Now(@), !.right = Now(@),
                           !.prev = Now(@), !.next = Now(@)]
  IN  [root |-> Now(t.root), node |-> [k \in DOMAIN order |-> Node(t.node[order[k]])]]

Renumber(t, gone) ==
  LET Ordered(u) == Of(LAMBDA order : Renumbered(u, order), Order(u, gone)) IN Of(Ordered, t)
-----------------------------------------------------------------------------
\* Trees that a node being detached unbalances, from the root downwards: the fewest nodes
\* of height five, where subtrees are then rotated on two levels, and one in which the
\* outer grandchild of a node is as high as the inner one.
Orders == {<<8, 5, 11, 3, 7, 10, 12, 2, 4, 6, 9, 1>>, <<6, 3, 7, 2, 4, 8, 1, 5>>}

Size == Len(self.node)

Init ==
  /\ trait = "nothrow"
  /\ self = New
  /\ call = NoCall

\* The position behind the keys that are not above the new one.
Position(key) == Cardinality({i \in DOMAIN self.node : self.node[i].key <= key})

Attach == \E key \in Keys, tag \in 1..MaxTag, hint \in (DOMAIN self.node) \cup {Null} :
  /\ Size < MaxSize
  /\ Did("insert", Position(key), 0, <<<<key, tag>>>>, TRUE, Renumber(AttachWithHint(self, hint, key, tag), {}))

\* One of these trees, or its mirror image, is put together node by node.
AttachMany == \E order \in Orders, mirrored \in BOOLEAN :
  LET keys == [k \in DOMAIN order |-> IF mirrored THEN Len(order) + 1 - order[k] ELSE order[k]]
  IN  /\ Size = 0
      /\ Did("insert", 0, 0, [k \in DOMAIN order |-> <<k, 1>>], TRUE,
             Renumber(Fold(LAMBDA t, key : AttachWithHint(t, Null, key, 1), self, keys), {}))

\* Bound: of one of these three nodes are detached.
Detach == \E i \in DOMAIN self.node :
  /\ (\A j \in DOMAIN self.node : self.node[j].key \in Keys) \/ Size \notin {Len(order) - 3 : order \in Orders}
  /\ Did("erase", i - 1, i, <<>>, TRUE, Renumber(InternalDetach(self, i), {i}))

Next == Attach \/ AttachMany \/ Detach

Spec == Init /\ [][Next]_vars
-----------------------------------------------------------------------------
\* The nodes above i that it is below on a side, itself left out.
Above(i, side) ==
  LET path == Trail(i, LAMBDA j : self.node[j].parent, Size + 1)
  IN  {path[k + 1] : k \in {k \in DOMAIN path : k < Len(path) /\ self.node[path[k]].refl.side = side}}

\* Nodes are numbered along the thread: it visits all of them, the same both ways, what
\* hangs on the left of a node comes before it, what hangs on the right behind it, each
\* node knows the pointer that refers to it, and the tree is balanced and sorted.
Sound ==
  /\ Chain(self) = Up(1, Size)
  /\ ChainBack(self) = Down(Size, 1)
  /\ (self.root = Null) <=> (Size = 0)
  /\ \A i \in DOMAIN self.node :
       LET n == self.node[i]
       IN  /\ Pointed(self, n.refl) = i /\ n.parent = n.refl.of
           /\ (n.parent = Null) <=> (self.root = i)
           /\ n.height = Max({Height(self, n.left), Height(self, n.right)}) + 1
           /\ Height(self, n.left) - Height(self, n.right) \in -1..1
           /\ \A a \in Above(i, "left") : i < a
           /\ \A a \in Above(i, "right") : a < i
           /\ i > 1 => self.node[i - 1].key <= n.key
  /\ \A key \in Keys :
       LET from(strict) == {i \in DOMAIN self.node : self.node[i].key > key \/ (~strict /\ self.node[i].key = key)}
           found == AvlFind(self, key)
       IN  /\ \A strict \in BOOLEAN : Bound(self, key, strict) = IF from(strict) = {} THEN Null ELSE Min(from(strict))
           /\ IF found = Null THEN from(FALSE) = from(TRUE) ELSE self.node[found].key = key
=============================================================================
