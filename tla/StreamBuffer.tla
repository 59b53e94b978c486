---------------------------- MODULE StreamBuffer ----------------------------
(***************************************************************************)
(* MCF::StreamBuffer (Core/StreamBuffer.cpp): a queue of bytes in a doubly *)
(* linked list of chunks, each with bytes from "begin" to "end", that can  *)
(* be cut in two and joined without copying.  A call is one step; only the *)
(* allocator may throw in it.  After each call chunks are numbered afresh, *)
(* in their order, and what no chunk holds is forgotten.                   *)
(***************************************************************************)
EXTENDS Container

CONSTANT ChunkSize     \* bytes in a chunk, 256 in the code

Junk == <<0>>

New == [chunk |-> <<>>, first |-> Null, last |-> Null, size |-> 0]

Chunk(prev, next, at) ==
  [prev |-> prev, next |-> next, begin |-> at, end |-> at, data |-> [k \in 0..(ChunkSize - 1) |-> Junk]]

Fresh(b) == Max({0} \cup DOMAIN b.chunk) + 1
With(b, id, c) == [b EXCEPT !.chunk = [i \in DOMAIN b.chunk \cup {id} |-> IF i = id THEN c ELSE b.chunk[i]]]
Delete(b, ids) == [b EXCEPT !.chunk = [i \in DOMAIN b.chunk \ ids |-> b.chunk[i]]]

\* The chunks from "first" on; no list is longer than there are chunks.
Chain(b, first) == Trail(first, LAMBDA i : b.chunk[i].next, Cardinality(DOMAIN b.chunk) + 1)
ChainBack(b) == Trail(b.last, LAMBDA i : b.chunk[i].prev, Cardinality(DOMAIN b.chunk) + 1)

Bytes(c) == [k \in 1..(c.end - c.begin) |-> c.data[c.begin + k - 1]]
Items(b) == Fold(LAMBDA bytes, i : bytes \o Bytes(b.chunk[i]), <<>>, Chain(b, b.first))

Clear(b, first) == Delete(b, {Chain(b, first)[k] : k \in DOMAIN Chain(b, first)})

AddLast(b) ==
  LET id     == Fresh(b)
      linked == IF b.last = Null THEN [b EXCEPT !.first = id] ELSE [b EXCEPT !.chunk[b.last].next = id]
  IN  With([linked EXCEPT !.last = id], id, Chunk(b.last, Null, 0))

AddFirst(b) ==
  LET id     == Fresh(b)
      linked == IF b.first = Null THEN [b EXCEPT !.last = id] ELSE [b EXCEPT !.chunk[b.first].prev = id]
  IN  With([linked EXCEPT !.first = id], id, Chunk(Null, b.first, ChunkSize))

Put(b, byte) ==
  LET room == IF b.last = Null \/ b.chunk[b.last].end = ChunkSize THEN AddLast(b) ELSE b
      last == room.chunk[room.last]
  IN  [room EXCEPT !.chunk[room.last] = [last EXCEPT !.data[last.end] = byte, !.end = @ + 1],
                   !.size = @ + 1]

Unget(b, byte) ==
  LET room  == IF b.first = Null \/ b.chunk[b.first].begin = 0 THEN AddFirst(b) ELSE b
      first == room.chunk[room.first]
  IN  [room EXCEPT !.chunk[room.first] = [first EXCEPT !.data[first.begin - 1] = byte, !.begin = @ - 1],
                   !.size = @ + 1]

\* A chunk at either end that is used up is unlinked and deleted.
DropFirst(b) ==
  LET c      == b.chunk[b.first]
      linked == IF c.next = Null THEN [b EXCEPT !.last = Null] ELSE [b EXCEPT !.chunk[c.next].prev = Null]
  IN  IF c.begin # c.end THEN b ELSE [Delete(linked, {b.first}) EXCEPT !.first = c.next]

DropLast(b) ==
  LET c      == b.chunk[b.last]
      linked == IF c.prev = Null THEN [b EXCEPT !.first = Null] ELSE [b EXCEPT !.chunk[c.prev].next = Null]
  IN  IF c.begin # c.end THEN b ELSE [Delete(linked, {b.last}) EXCEPT !.last = c.prev]

Unput(b) == DropLast([b EXCEPT !.chunk[b.last].end = @ - 1, !.size = @ - 1])

Take(b, n) == DropFirst([b EXCEPT !.chunk[b.first].begin = @ + n, !.size = @ - n])

\* Up to n bytes are taken, chunk after chunk: what is left, and what was taken.
Get(b, n) ==
  LET Step(s, k) ==
        LET bytes == Bytes(s.b.chunk[s.b.first])
            most  == Min({Len(bytes), n - Len(s.got)})
        IN  IF Len(s.got) = n \/ s.b.first = Null THEN s
            ELSE [b |-> Take(s.b, most), got |-> s.got \o SubSeq(bytes, 1, most)]
  IN  Fold(Step, [b |-> b, got |-> <<>>], Up(1, n))

\* The chunks that are missing are allocated first, all or none of them.
PutAll(b, vals) ==
  LET avail == IF b.last = Null THEN 0 ELSE ChunkSize - b.chunk[b.last].end
      more  == IF avail >= Len(vals) THEN 0 ELSE (Len(vals) - avail + ChunkSize - 1) \div ChunkSize
      long  == Fold(LAMBDA c, k : AddLast(c), b, Up(1, more))
      Fill(s, k) ==
        LET c    == s.b.chunk[s.at]
            most == Min({ChunkSize - c.end, Len(s.left)})
            full == [c EXCEPT !.end = @ + most,
                       !.data = [i \in DOMAIN c.data |->
                                   IF i \in c.end..(c.end + most - 1) THEN s.left[i - c.end + 1] ELSE c.data[i]]]
        IN  IF s.left = <<>> THEN s
            ELSE [b |-> [s.b EXCEPT !.chunk[s.at] = full, !.size = @ + most],
                  at |-> c.next, left |-> SubSeq(s.left, most + 1, Len(s.left))]
      start == [b |-> long, at |-> IF b.last = Null THEN long.first ELSE b.last, left |-> vals]
  IN  Fold(Fill, start, Up(1, more + 1)).b

\* A copy is put together chunk by chunk.
Copy(b) == Fold(LAMBDA c, i : PutAll(c, Bytes(b.chunk[i])), New, Chain(b, b.first))

\* All but the first n bytes of a chunk go to a new one behind it.
Split(b, id, n) ==
  LET c    == b.chunk[id]
      new  == Fresh(b)
      left == c.end - c.begin - n
      rest == [Chunk(id, c.next, 0) EXCEPT !.end = left,
                 !.data = [k \in DOMAIN @ |-> IF k < left THEN c.data[c.begin + n + k] ELSE @[k]]]
      tail == IF c.next = Null THEN [b EXCEPT !.last = new] ELSE [b EXCEPT !.chunk[c.next].prev = new]
  IN  With([tail EXCEPT !.chunk[id].end = @ - left, !.chunk[id].next = new], new, rest)

\* The first n bytes become a buffer of their own, "head", on chunks that are moved.
CutOff(b, n) ==
  LET Step(s, k) ==
        LET c     == s.b.chunk[s.at]
            has   == c.end - c.begin
            split == IF has > n - s.cut THEN Split(s.b, s.at, n - s.cut) ELSE s.b
        IN  IF s.cut = n \/ s.at = Null THEN s
            ELSE [b |-> split, at |-> split.chunk[s.at].next, cut |-> s.cut + Min({has, n - s.cut})]
      s      == Fold(Step, [b |-> b, at |-> b.first, cut |-> 0], Up(1, n))
      before == IF s.at = Null THEN s.b.last ELSE s.b.chunk[s.at].prev
      cut    == IF s.at = Null THEN [s.b EXCEPT !.last = Null] ELSE [s.b EXCEPT !.chunk[s.at].prev = Null]
  IN  IF s.at = b.first THEN [rest |-> s.b, head |-> New]
      ELSE [rest |-> [cut EXCEPT !.first = s.at, !.chunk[before].next = Null, !.size = @ - s.cut],
            head |-> [first |-> b.first, last |-> before, size |-> s.cut]]

\* Another buffer, whose chunks are in the same store, is joined on behind.
Splice(b, other) ==
  LET linked == IF b.last = Null THEN [b EXCEPT !.first = other.first]
                ELSE [b EXCEPT !.chunk[b.last].next = other.first]
  IN  IF other.first = Null THEN b
      ELSE [linked EXCEPT !.chunk[other.first].prev = b.last, !.last = other.last, !.size = @ + other.size]

\* Chunks are numbered in their order, those that are in no list last.
Renumber(b) ==
  LET chain  == Chain(b, b.first)
      listed == {chain[k] : k \in DOMAIN chain}
      order  == chain \o SetToSeq(DOMAIN b.chunk \ listed)
      New_(i) == IF i = Null THEN Null ELSE CHOOSE k \in DOMAIN order : order[k] = i
      Clean(c) == [c EXCEPT !.prev = New_(@), !.next = New_(@),
                     !.data = [k \in DOMAIN @ |-> IF k \in c.begin..(c.end - 1) THEN @[k] ELSE Junk]]
  IN  [b EXCEPT !.chunk = [k \in DOMAIN order |-> Clean(b.chunk[order[k]])],
                !.first = New_(@), !.last = New_(@)]
-----------------------------------------------------------------------------
Room == MaxSize - self.size

\* A call that allocates chunks may fail, and has changed nothing then.
May(op, at, to, vals, new, allocates) ==
  \/ Did(op, at, to, vals, TRUE, Renumber(new))
  \/ allocates /\ Did(op, at, to, vals, FALSE, self)

Init ==
  /\ trait = "nothrow"
  /\ self = New
  /\ call = NoCall

PutByte == \E e \in Elements : Room > 0 /\ May("insert", self.size, 0, <<e>>, Put(self, e), TRUE)

UngetByte == \E e \in Elements : Room > 0 /\ May("insert", 0, 0, <<e>>, Unget(self, e), TRUE)

UnputByte ==
  /\ self.last # Null
  /\ Did("take", self.size - 1, self.size, <<self.chunk[self.last].data[self.chunk[self.last].end - 1]>>, TRUE,
         Renumber(Unput(self)))

\* Get and Discard; Peek sees the same bytes and takes none.
GetBytes == \E n \in 1..MaxSize, peek \in BOOLEAN :
  LET got == Get(self, n)
  IN  Did(IF peek THEN "look" ELSE "take", 0, Len(got.got), got.got, TRUE,
          IF peek THEN self ELSE Renumber(got.b))

PutBytes == \E vals \in Arguments(Room) : May("insert", self.size, 0, vals, PutAll(self, vals), TRUE)

Assign == May("keep", 0, 0, <<>>, Copy(self), TRUE)

\* The head is cut off and dropped, or joined on again behind the rest.
Cut == \E n \in 0..MaxSize, again \in BOOLEAN :
  LET cut == CutOff(self, n)
      at  == Min({n, self.size})
  IN  May(IF again THEN "rotate" ELSE "take", IF again THEN at ELSE 0, at,
          IF again THEN <<>> ELSE Items([cut.rest EXCEPT !.first = cut.head.first]),
          IF again THEN Splice(cut.rest, cut.head) ELSE Clear(cut.rest, cut.head.first), TRUE)

Next == PutByte \/ UngetByte \/ UnputByte \/ GetBytes \/ PutBytes \/ Assign \/ Cut

Spec == Init /\ [][Next]_vars
-----------------------------------------------------------------------------
\* The list can be followed both ways, holds all chunks there are, and none is empty.
Sound ==
  LET chain == Chain(self, self.first)
  IN  /\ {chain[k] : k \in DOMAIN chain} = DOMAIN self.chunk
      /\ ChainBack(self) = Reverse(chain)
      /\ \A i \in DOMAIN self.chunk : 0 <= self.chunk[i].begin /\ self.chunk[i].begin < self.chunk[i].end
                                        /\ self.chunk[i].end <= ChunkSize
      /\ Len(Items(self)) = self.size
=============================================================================
