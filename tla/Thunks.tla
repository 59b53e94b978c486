------------------------------- MODULE Thunks -------------------------------
(***************************************************************************)
(* The allocator of executable blocks (MCFCRT/src/ext/thunk.c).  Chunks    *)
(* that VirtualAlloc gives are split into thunks, in use or free; two free *)
(* ones that touch become one, and a chunk that is free as a whole is      *)
(* given back.  A call is one step, under g_vThunkMutex, save that a chunk *)
(* is released after the mutex, when other calls may have come between.    *)
(*                                                                         *)
(* Memory is counted in cells of 8 bytes.  The two trees are given by the  *)
(* order of their nodes: "info" by address, "bySize" by what is free,      *)
(* without the thunks in use, which come first there and are never found.  *)
(***************************************************************************)
EXTENDS Container

CONSTANTS ChunkUnit,   \* cells that chunks are multiples of, 64 KiB in the code
          Space,       \* bound: cells of address space
          Width,       \* a size_t counts cells modulo this
          Requests     \* the sizes asked for

Trap == <<-2>>        \* 0xCC
Zero == <<-1>>

New == [info     |-> <<>>,                              \* the ThunkInfo of every thunk, by pThunk
        bySize   |-> <<>>,                              \* g_avlThunksByFreeSize
        mem      |-> [i \in 0..(Space - 1) |-> Zero],
        reserved |-> {},                                \* chunks: first cells and sizes
        leaving  |-> {},                                \* those to be released
        nodes    |-> 0]                                 \* ThunkInfos on the heap

InUse(s) == {a \in DOMAIN s.info : s.info[a].free = 0}
Content(s, a) == [i \in 1..s.info[a].size |-> s.mem[a + i - 1]]
Below(a, s) == Cardinality({b \in InUse(s) : b < a})
Items(s) == [k \in 1..Cardinality(InUse(s)) |-> Content(s, CHOOSE a \in InUse(s) : Below(a, s) = k - 1)]

RoundUp(n, unit) == (((n + unit - 1) \div unit) * unit) % Width
\* At least one cell of traps follows; 16 bytes are the unit.
ThunkSize(n) == RoundUp((n + 1) % Width, 2)
ChunkFor(n) == IF RoundUp(n, ChunkUnit) < n THEN n ELSE RoundUp(n, ChunkUnit)

\* _MCFCRT_AvlAttach goes behind what compares equal; _MCFCRT_AvlGetLowerBound finds the first.
Index(s, a) ==
  LET before == SelectSeq(s.bySize, LAMBDA b : s.info[b].free <= s.info[a].free)
  IN  [s EXCEPT !.bySize = before \o <<a>> \o SubSeq(@, Len(before) + 1, Len(@))]
Unindex(s, a) == [s EXCEPT !.bySize = SelectSeq(@, LAMBDA b : b # a)]
LargeEnough(s, n) ==
  LET fit == SelectSeq(s.bySize, LAMBDA b : s.info[b].free >= n)
  IN  IF fit = <<>> THEN Null ELSE fit[1]

Attach(s, a, i) ==
  Index([s EXCEPT !.info = [b \in DOMAIN @ \cup {a} |-> IF b = a THEN i ELSE @[b]], !.nodes = @ + 1], a)
Detach(s, a) ==
  LET t == Unindex(s, a) IN [t EXCEPT !.info = [b \in DOMAIN @ \ {a} |-> @[b]]]
Discard(s) == [s EXCEPT !.nodes = @ - 1]
SetFree(s, a, n) == Index([Unindex(s, a) EXCEPT !.info[a].free = n], a)
SetUsed(s, a) == [Unindex(s, a) EXCEPT !.info[a].free = 0]

Info(chunk, of, size) == [chunk |-> chunk, of |-> of, size |-> size, free |-> size]
Reserve(s, chunk, size) ==
  [s EXCEPT !.reserved = @ \cup {<<chunk, size>>},
            !.mem = [i \in DOMAIN @ |-> IF i \in chunk..(chunk + size - 1) THEN Zero ELSE @[i]]]
Release(s, chunk, size) == [s EXCEPT !.reserved = @ \ {<<chunk, size>>}]

\* The thunk for "need" cells, in a new chunk where there is none to take.
Obtain(s, need, chunk) ==
  IF LargeEnough(s, need) # Null THEN s
  ELSE Attach(Reserve(s, chunk, ChunkFor(need)), chunk, Info(chunk, ChunkFor(need), ChunkFor(need)))

\* What remains of thunk a is a thunk of its own, or is too small for that.
Split(s, a, need) ==
  LET i == s.info[a]
  IN  IF i.free - need < 4 THEN s
      ELSE [Attach(s, a + need, Info(i.chunk, i.of, i.free - need)) EXCEPT !.info[a].size = need]

\* memcpy of n cells, and traps behind them.
Fill(s, a, n) ==
  [s EXCEPT !.mem = [i \in DOMAIN @ |-> CASE i \notin a..(a + s.info[a].size - 1) -> @[i]
                                          [] i \in a..(a + n - 1) -> <<i - a>>
                                          [] i \in (a + n)..(a + s.info[a].size - 1) -> Trap]]

\* "fail" is the allocation that fails: of a ThunkInfo, of the chunk, or of the one for
\* the rest: then a chunk that was allocated for this call is given back.
AllocateThunk(s, n, chunk, fail) ==
  LET need  == ThunkSize(n)
      fresh == LargeEnough(s, need) = Null
      Use(got, a) ==
        CASE fail = "spare" ->
               IF fresh THEN Release(Discard(Detach(got, a)), chunk, ChunkFor(need)) ELSE got
          [] fail = "none" -> Of(LAMBDA t : Fill(t, a, n), SetUsed(Split(got, a, need), a))
  IN  IF need < n \/ (fresh /\ fail \in {"info", "chunk"}) THEN s
      ELSE Of(LAMBDA got : Use(got, LargeEnough(got, need)), Obtain(s, need, chunk))

After(s, a) == {b \in DOMAIN s.info : b > a}
Before(s, a) == {b \in DOMAIN s.info : b < a}

\* Thunk a takes in the one that follows it in its chunk, if that is free.
TakeNext(s, a) ==
  LET b == Min(After(s, a))
  IN  IF After(s, a) # {} /\ s.info[b].chunk = s.info[a].chunk /\ s.info[b].free # 0
      THEN [Discard(Detach(s, b)) EXCEPT !.info[a].size = @ + s.info[b].size]
      ELSE s

\* The thunk that a is part of when it has joined a free one before it.
Joined(s, a) ==
  LET b == Max(Before(s, a))
  IN  IF Before(s, a) # {} /\ s.info[b].chunk = s.info[a].chunk /\ s.info[b].free # 0 THEN b ELSE a
JoinPrevious(s, a) ==
  LET b == Joined(s, a)
  IN  IF b = a THEN s ELSE [Discard(Detach(s, a)) EXCEPT !.info[b].size = @ + s.info[a].size]

\* A debug build poisons whether it is asked to or not.
Poison(s, a) == [s EXCEPT !.mem = [i \in DOMAIN @ |-> IF i \in a..(a + s.info[a].size - 1) THEN Trap ELSE @[i]]]

\* A chunk that is free as a whole is no longer found, and is released after the mutex.
DeallocateThunk(s, a) ==
  LET Free(t, b) ==
        IF b = t.info[b].chunk /\ t.info[b].size = t.info[b].of
        THEN [Detach(t, b) EXCEPT !.leaving = @ \cup {<<b, t.info[b].of>>}]
        ELSE SetFree(t, b, t.info[b].size)
      Join(t) == Of(LAMBDA u : Free(u, Joined(t, a)), JoinPrevious(t, a))
  IN  Of(Join, Of(LAMBDA t : TakeNext(t, a), Poison(s, a)))

ReleaseChunk(s, c) == Discard(Release([s EXCEPT !.leaving = @ \ {c}], c[1], c[2]))
-----------------------------------------------------------------------------
\* Where VirtualAlloc finds room.
Room(size) ==
  {c \in 0..(Space - size) :
     c % ChunkUnit = 0 /\ \A r \in self.reserved : c + size <= r[1] \/ r[1] + r[2] <= c}

Init ==
  /\ trait = "nothrow"
  /\ self = New
  /\ call = NoCall

Allocate == \E n \in Requests, fail \in {"none", "info", "chunk", "spare"} :
  LET need  == ThunkSize(n)
      fresh == LargeEnough(self, need) = Null
      left  == (IF fresh THEN ChunkFor(need) ELSE self.info[LargeEnough(self, need)].free) - need
      Got(new, a) ==
        Did("insert", Below(a, self), 0,
            <<[i \in 1..new.info[a].size |-> IF i <= n THEN <<i - 1>> ELSE Trap]>>, TRUE, new)
  IN  /\ need < n => fail = "none"
      /\ fail \in {"info", "chunk"} => fresh
      /\ fail = "spare" => left >= 4
      /\ \E chunk \in IF fresh /\ need >= n /\ fail \in {"none", "spare"} THEN Room(ChunkFor(need)) ELSE {0} :
           \E new \in {AllocateThunk(self, n, chunk, fail)} :
             IF need < n \/ fail # "none" THEN Did("insert", 0, 0, <<>>, FALSE, new)
             ELSE \E a \in InUse(new) \ InUse(self) : Got(new, a)

Deallocate == \E a \in InUse(self) :
  Did("erase", Below(a, self), Below(a, self) + 1, <<>>, TRUE, DeallocateThunk(self, a))

ReleaseAfterwards == \E c \in self.leaving : Did("keep", 0, 0, <<>>, TRUE, ReleaseChunk(self, c))

Next == Allocate \/ Deallocate \/ ReleaseAfterwards

Spec == Init /\ [][Next]_vars
-----------------------------------------------------------------------------
LastCell(a) == a + self.info[a].size - 1

Sound ==
  /\ {self.bySize[k] : k \in 1..Len(self.bySize)} = DOMAIN self.info \ InUse(self)
  /\ \A j, k \in 1..Len(self.bySize) : j < k =>
       self.bySize[j] # self.bySize[k] /\ self.info[self.bySize[j]].free <= self.info[self.bySize[k]].free
  /\ \A a \in DOMAIN self.info :
       LET i == self.info[a]
       IN  /\ i.free \in {0, i.size} /\ i.size > 0
           /\ i.free = 0 => self.mem[LastCell(a)] = Trap
           \* Thunks fill their chunk; none is free next to a free one, or as a whole chunk.
           /\ <<i.chunk, i.of>> \in self.reserved \ self.leaving
           /\ a = i.chunk \/ \E b \in DOMAIN self.info :
                               /\ LastCell(b) + 1 = a /\ self.info[b].chunk = i.chunk
                               /\ i.free = 0 \/ self.info[b].free = 0
           /\ LastCell(a) <= i.chunk + i.of - 1
           /\ LastCell(a) + 1 \in DOMAIN self.info \cup {i.chunk + i.of}
           /\ i.free < i.of
  \* Nothing is leaked: neither chunks nor the nodes that describe thunks.
  /\ self.leaving \subseteq self.reserved
  /\ \A c \in self.reserved \ self.leaving : c[1] \in DOMAIN self.info
  /\ self.nodes = Cardinality(DOMAIN self.info) + Cardinality(self.leaving)
=============================================================================
