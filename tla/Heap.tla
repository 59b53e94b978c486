-------------------------------- MODULE Heap --------------------------------
(***************************************************************************)
(* The heap of the run-time (MCFCRT/src/env/heap.c, heap_dbg.c): blocks of *)
(* the process heap between guard bands, which a release build (heap debug *)
(* level 2) and a debug build (level 4) check when a block is freed or     *)
(* reallocated.  A debug build registers its blocks as well, poisons new   *)
(* and freed ones, and tells of those that are left in the end.            *)
(*                                                                         *)
(* A call is one step, under g_vHeapMutex, save reallocation, which lets   *)
(* go of the mutex between the check and the rest.  Memory is counted in   *)
(* cells; a guard band is one.  The callbacks of hooks.h are left out.     *)
(***************************************************************************)
EXTENDS Container

CONSTANTS Places,      \* where HeapAlloc may put blocks, numbers
          Width,       \* a size_t counts cells modulo this
          Requests     \* the sizes asked for

Zero   == <<"zero">>
Junk   == <<"any">>
Fresh  == <<"CD">>      \* what a debug build fills new memory with
Spoilt == <<"overrun">>

\* A guard is the encoded address of its counterpart.
Guard(of, at, n) == <<of, at, n>>

New == [raw     |-> <<>>,    \* the blocks of the process heap, by address: their cells
        infos   |-> {},      \* g_avlBlocks: addresses and sizes
        held    |-> <<>>,    \* ghost: what the program holds, in the order it came
        pending |-> {},      \* reallocations between their two steps
        leaks   |-> {},
        ended   |-> FALSE,   \* after __MCFCRT_HeapDbgUninit or _MCFCRT_Bail
        bad     |-> {}]

Content(s, h) == SubSeq(s.raw[h.at], 2, h.size + 1)
Items(s) == [k \in 1..Len(s.held) |-> Content(s, s.held[k])]

RawSize(n) == (n + 2) % Width
Overflows(n) == RawSize(n) < n

Place(s, at, cells) == [s EXCEPT !.raw = [p \in DOMAIN @ \cup {at} |-> IF p = at THEN cells ELSE @[p]]]
Vacate(s, at) == [s EXCEPT !.raw = [p \in DOMAIN @ \ {at} |-> @[p]]]
SizeAt(s, at) == Len(s.raw[at]) - 2

AddBlockGuards(s, at, n) ==
  [s EXCEPT !.raw[at][1] = Guard("start", at, n), !.raw[at][n + 2] = Guard("end", at, n)]

Register(s, at, n) == AddBlockGuards([s EXCEPT !.infos = @ \cup {<<at, n>>}], at, n)
Unregister(s, at) == [s EXCEPT !.infos = {i \in @ : i[1] # at}]

\* Whether the guards are those of a block of its size, and in a debug build known.
GuardsHold(s, at, n) ==
  /\ s.raw[at][1] = Guard("start", at, n)
  /\ s.raw[at][n + 2] = Guard("end", at, n)
ValidateBlock(s, at) == \E i \in s.infos : i[1] = at /\ GuardsHold(s, at, i[2])
ValidateBlockBasic(s, at) == GuardsHold(s, at, SizeAt(s, at))
Valid(s, at) == IF trait = "debug" THEN ValidateBlock(s, at) ELSE ValidateBlockBasic(s, at)
Bail(s) == [s EXCEPT !.ended = TRUE]

\* A debug build fills with 0xCD what is new in a block, unless it is to be zero.
Dress(s, at, old, n, zero) ==
  [s EXCEPT !.raw[at] = [c \in DOMAIN @ |-> IF trait = "debug" /\ ~zero /\ c \in (old + 2)..(n + 1) THEN Fresh ELSE @[c]]]

\* "at" is where HeapAlloc puts the block, unless it fails, or the allocation of the
\* block's information does ("info"), when the block is given back.
HeapAlloc(s, n, zero, at, fail) ==
  LET raw == Place(s, at, [c \in 1..RawSize(n) |-> IF zero THEN Zero ELSE Junk])
      grd == IF trait = "debug" THEN Register(raw, at, n) ELSE AddBlockGuards(raw, at, n)
  IN  CASE Overflows(n) \/ fail = "block" -> s
        [] ~Overflows(n) /\ fail = "info" -> Vacate(raw, at)
        [] ~Overflows(n) /\ fail = "none" -> Dress(grd, at, 0, n, zero)

\* The first step checks the block and remembers its size, the second moves it to "to",
\* or leaves all as it was where there is no memory.  What comes behind the old block,
\* its second guard included, is new; only what was not of it is set to zero.
ReallocBegin(s, at, n, zero) ==
  IF Overflows(n) THEN s
  ELSE IF ~Valid(s, at) THEN Bail(s)
  ELSE [s EXCEPT !.pending = @ \cup {[at |-> at, old |-> SizeAt(s, at), size |-> n, zero |-> zero]}]
ReallocEnd(s, p, to, fail) ==
  LET cells == [c \in 1..RawSize(p.size) |->
                  CASE c <= p.old + 2 -> s.raw[p.at][c]
                    [] c > p.old + 2 -> IF p.zero THEN Zero ELSE Junk]
      moved == Place(Vacate(s, p.at), to, cells)
      grd   == IF trait = "debug" THEN Register(Unregister(moved, p.at), to, p.size)
               ELSE AddBlockGuards(moved, to, p.size)
  IN  IF fail THEN s ELSE Dress(grd, to, p.old, p.size, p.zero)

HeapFree(s, at) ==
  IF ~Valid(s, at) THEN Bail(s)
  ELSE Vacate(IF trait = "debug" THEN Unregister(s, at) ELSE s, at)

\* __MCFCRT_HeapDbgUninit: leaks are told of one by one before the program bails.
Uninit(s) == [s EXCEPT !.ended = TRUE, !.infos = {}, !.leaks = {i[1] : i \in s.infos}]
-----------------------------------------------------------------------------
Init == /\ trait \in {"release", "debug"}
        /\ self = New
        /\ call = NoCall

Held == 1..Len(self.held)
Idle(k) == \A p \in self.pending : p.at # self.held[k].at
Vacant == Places \ DOMAIN self.raw
Block(at, n) == [at |-> at, size |-> n, hurt |-> FALSE]
Filled(n, zero, Old(_)) ==
  [c \in 1..n |-> IF zero THEN Zero ELSE IF trait = "debug" THEN Fresh ELSE Old(c)]

Alloc == \E n \in Requests, zero \in BOOLEAN, fail \in {"none", "block", "info"}, at \in Vacant :
  LET new == HeapAlloc(self, n, zero, at, fail)
      all == Len(self.held)
  IN  /\ all < MaxSize
      /\ fail # "none" => at = Min(Vacant)
      /\ fail = "info" => trait = "debug"
      /\ IF Overflows(n) \/ fail # "none" THEN Did("insert", 0, 0, <<>>, FALSE, new)
         ELSE Did("insert", all, 0, <<Filled(n, zero, LAMBDA c : Junk)>>, TRUE,
                  [new EXCEPT !.held = Append(@, Block(at, n))])

\* A block whose guards were overrun must not pass for one whose guards were not.
Checked(h, new) == Check(new, "check", new.ended <=> h.hurt)

\* Nothing in the repository reallocates with zeros, which leaves a guard among them.
BeginRealloc == \E k \in Held, n \in Requests, zero \in BOOLEAN :
  /\ Idle(k)
  /\ Careful /\ n > self.held[k].size => ~zero
  /\ LET new == ReallocBegin(self, self.held[k].at, n, zero)
     IN  Did("keep", 0, 0, <<>>, TRUE, IF Overflows(n) THEN new ELSE Checked(self.held[k], new))

EndRealloc == \E p \in self.pending, fail \in BOOLEAN : \E to \in Vacant \cup {p.at} :
  \E k \in {k \in Held : self.held[k].at = p.at} :
    \E new \in {[ReallocEnd(self, p, to, fail) EXCEPT !.pending = @ \ {p}]} :
      LET was == self.held[k].size
          all == Filled(p.size, p.zero, LAMBDA c : new.raw[to][c + 1])
          now == [c \in 1..p.size |-> IF c <= was THEN Content(self, self.held[k])[c] ELSE all[c]]
      IN  /\ fail => to = p.at
          /\ IF fail THEN Did("keep", 0, 0, <<>>, TRUE, new)
             ELSE Did("replace", k - 1, k, <<now>>, TRUE,
                      [new EXCEPT !.held[k].at = to, !.held[k].size = p.size])

Free == \E k \in Held :
  \E new \in {Checked(self.held[k], HeapFree(self, self.held[k].at))} :
    /\ Idle(k)
    /\ IF new.ended THEN Did("keep", 0, 0, <<>>, TRUE, new)
       ELSE Did("erase", k - 1, k, <<>>, TRUE, [new EXCEPT !.held = RemoveAt(@, k)])

\* The program writes to all of a block, or beyond one of its ends.
Write == \E k \in Held :
  LET h == self.held[k]
  IN  /\ Idle(k)
      /\ Did("replace", k - 1, k, <<[c \in 1..h.size |-> <<"data", c>>]>>, TRUE,
             [self EXCEPT !.raw[h.at] = [c \in DOMAIN @ |-> IF c \in 2..(h.size + 1) THEN <<"data", c - 1>> ELSE @[c]]])
Overrun == \E k \in Held : \E c \in {1, self.held[k].size + 2} :
  LET h == self.held[k]
  IN  /\ Idle(k)
      /\ Did("keep", 0, 0, <<>>, TRUE, [self EXCEPT !.raw[h.at][c] = Spoilt, !.held[k].hurt = TRUE])

End == trait = "debug" /\ self.pending = {} /\ Did("keep", 0, 0, <<>>, TRUE, Uninit(self))

Next == /\ ~self.ended
        /\ Alloc \/ BeginRealloc \/ EndRealloc \/ Free \/ Write \/ Overrun \/ End

Spec == Init /\ [][Next]_vars
-----------------------------------------------------------------------------
Sound ==
  \* Every block is held by the program, as large as it asked for and apart from others.
  /\ self.bad = {}
  /\ DOMAIN self.raw = {self.held[k].at : k \in Held}
  /\ \A j, k \in Held : self.held[j].at = self.held[k].at => j = k
  /\ \A k \in Held : Len(self.raw[self.held[k].at]) = self.held[k].size + 2
  \* The guards tell whether a block was overrun, wherever it was moved to since.
  /\ \A k \in Held : ~self.held[k].hurt => Valid(self, self.held[k].at) \/ self.ended
  /\ ~self.ended /\ trait = "debug" =>
       self.infos = {<<self.held[k].at, self.held[k].size>> : k \in Held}
  \* What is left in the end is told of.
  /\ self.ended /\ trait = "debug" /\ self.infos = {} => self.leaks = {self.held[k].at : k \in Held}
=============================================================================
