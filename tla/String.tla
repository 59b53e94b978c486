------------------------------- MODULE String -------------------------------
(***************************************************************************)
(* MCF::String (Core/String.hpp) and the searches of Core/StringView.hpp.  *)
(* A short string is kept inside the object, Small characters of it, 31 in *)
(* the code, behind which the number of characters that are free is kept:  *)
(* when there are none left it is the terminator.  A longer one is in a    *)
(* block.  A call is one step; only the allocator may throw in it.         *)
(*                                                                         *)
(* What a call leaves behind the end of the string is Junk: no call reads  *)
(* it but the search, see FindsFirst.                                      *)
(***************************************************************************)
EXTENDS Container

CONSTANTS Small,      \* characters that the object itself has room for
          Patterns    \* what is searched for

Junk == <<0>>
Zero == <<-1>>

Block(n) == [i \in 0..(n - 1) |-> Junk]

\* "free" is schComplLength: negative if the string is in a block of its own.
New == [free |-> Small, length |-> 0, mem |-> Block(Small + 1), bad |-> {}]

InBlock(s) == s.free < 0
GetSize(s) == IF InBlock(s) THEN s.length ELSE Small - s.free
GetCapacity(s) == Cardinality(DOMAIN s.mem) - 1
Items(s) == [k \in 1..GetSize(s) |-> s.mem[k - 1]]

\* What an enumeration visits, first to last and last to first.
Enumerate(s) ==
  Trail(IF GetSize(s) = 0 THEN Null ELSE 0, LAMBDA i : IF i + 1 = GetSize(s) THEN Null ELSE i + 1, MaxSize + 1)
EnumerateBack(s) ==
  Trail(IF GetSize(s) = 0 THEN Null ELSE GetSize(s) - 1, LAMBDA i : IF i = 0 THEN Null ELSE i - 1, MaxSize + 1)

SetSize(s, n) ==
  LET in == Check(s, "room", n \in 0..GetCapacity(s))
  IN  IF InBlock(s) THEN [in EXCEPT !.length = n] ELSE [in EXCEPT !.free = Small - n]

Pop(s, n) == SetSize(s, GetSize(s) - n)

\* n characters are copied from where "from" begins to where "to" begins.
Put(s, to, chars) ==
  [Check(s, "room", to + Len(chars) <= GetCapacity(s)) EXCEPT
     !.mem = [i \in DOMAIN @ |-> IF i \in to..(to + Len(chars) - 1) THEN chars[i - to + 1] ELSE @[i]]]

\* The characters before "from" stay, those after "to" move to "third"; the size does
\* not change yet, and what lies between is for the caller to fill.
ChopAndSplice(s, from, to, third) ==
  LET size   == GetSize(s)
      need   == third + (size - to)
      grows  == GetCapacity(s) < need
      block  == [free |-> -1, length |-> size, mem |-> Block(Growth(need + 1, need + 1)), bad |-> s.bad]
      before == SubSeq(Items(s), 1, from)
      after  == SubSeq(Items(s), to + 1, size)
  IN  Put(Put(IF grows THEN block ELSE s, 0, before), third, after)

Reserve(s, n) ==
  IF n <= GetCapacity(s) THEN s ELSE ChopAndSplice(s, GetSize(s), GetSize(s), n)

Resize(s, n) == IF n > GetSize(s) THEN SetSize(Reserve(s, n), n) ELSE Pop(s, GetSize(s) - n)

ResizeMore(s, n) ==
  LET size == GetSize(s) IN SetSize(ChopAndSplice(s, size, size, size + n), size + n)

AssignView(s, vals) == Put(Resize(s, Len(vals)), 0, vals)

AppendView(s, vals) == Put(ResizeMore(s, Len(vals)), GetSize(s), vals)

\* The string itself is appended: its end is looked up after the size was doubled, and
\* twice as many characters are copied as there were.
AppendSelf(s) ==
  LET twice == ResizeMore(s, GetSize(s))
  IN  Put(twice, GetSize(s), Items(s) \o Items(s))

\* Text in another encoding: room for the worst case, and what was not needed, or
\* everything if the text is malformed, is popped again.
Transcode(s, vals, worst, fail) ==
  LET more    == ResizeMore(s, worst)
      written == IF fail = 0 THEN vals ELSE SubSeq(vals, 1, fail - 1)
      put     == Put(more, GetSize(s), written)
  IN  Pop(put, GetSize(put) - (GetSize(s) + (IF fail = 0 THEN Len(vals) ELSE 0)))

\* Assigned from another encoding it is appended first and moved down then.
AssignTranscoded(s, vals, worst, fail) ==
  LET both == Transcode(s, vals, worst, fail)
  IN  IF fail # 0 \/ GetSize(s) = 0 THEN both ELSE Pop(Put(both, 0, vals), GetSize(s))

\* What lhs + rhs makes: a copy of the left one, or itself if it is a temporary, to which
\* the right one is appended.
Concatenated(s, vals, temporary) == AppendView(IF temporary THEN s ELSE AssignView(New, Items(s)), vals)

UncheckedPush(s, c) ==
  LET put == Put(s, GetSize(s), <<c>>)
  IN  IF InBlock(s) THEN [put EXCEPT !.length = @ + 1] ELSE [put EXCEPT !.free = @ - 1]

\* Mutation: what follows the replacement is put where the removed part began.
ReplaceShort(s, from, to, vals) ==
  SetSize(Put(ChopAndSplice(s, from, to, from), from, vals), GetSize(s) - (to - from) + Len(vals))

Replace(s, from, to, vals) ==
  SetSize(Put(ChopAndSplice(s, from, to, from + Len(vals)), from, vals),
          GetSize(s) - (to - from) + Len(vals))

\* The replacement is a part of the string: it is put together in another, which then
\* takes this one's place.
ReplaceByOwn(s, from, to, vals) ==
  LET temp == Resize(New, GetSize(s) - (to - from) + Len(vals))
      old  == Items(s)
  IN  Put(Put(Put(temp, 0, SubSeq(old, 1, from)), from, vals),
          from + Len(vals), SubSeq(old, to + 1, Len(old)))

\* Characters are swapped from both ends until the positions meet.
Turned(s) ==
  LET n == GetSize(s)
      Swap(m, i) == [m EXCEPT ![i] = m[n - 1 - i], ![n - 1 - i] = m[i]]
  IN  [s EXCEPT !.mem = Fold(Swap, @, Up(0, n \div 2 - 1))]

\* What is behind the end is forgotten.
Forget(s) == [s EXCEPT !.mem = [i \in DOMAIN @ |-> IF i < GetSize(s) THEN @[i] ELSE Junk]]
-----------------------------------------------------------------------------
(* Offsets count from the end when they are negative, -1 being the end.     *)
TranslateOffset(n, length) == IF n < 0 THEN n + length + 1 ELSE n

\* What an enumeration of a view visits, forwards and backwards, as numbers of characters.
ViewWalk(chars) ==
  LET n       == Len(chars)
      On(i)   == IF i + 1 = n THEN Null ELSE i + 1
      Back(i) == IF i = 0 THEN Null ELSE i - 1
      From(i) == IF n = 0 THEN Null ELSE i
  IN  <<Trail(From(0), On, n + 1), Trail(From(n - 1), Back, n + 1)>>

\* Both ends are compared at once: 0 if both were reached, -1 or 1 if one of them was.
Compare(l, r) ==
  LET most == (IF Len(l) > Len(r) THEN Len(l) ELSE Len(r)) + 1
      Stops(k) == k > Len(l) \/ k > Len(r) \/ l[k] # r[k]
      stop == CHOOSE k \in 1..most : Stops(k) /\ \A j \in 1..(k - 1) : ~Stops(j)
  IN  CASE stop > Len(l) /\ stop > Len(r)   -> 0
        [] stop > Len(l) /\ stop <= Len(r)  -> -1
        [] stop <= Len(l) /\ stop > Len(r)  -> 1
        [] stop <= Len(l) /\ stop <= Len(r) -> IF l[stop][1] < r[stop][1] THEN -1 ELSE 1

\* The sizes are compared first.
Equal(l, r) == Len(l) = Len(r) /\ Compare(l, r) = 0

\* Mutation: after a mismatch the search goes on behind all that matched.
FallBackNowhere(p, pos, cand, table) == 0

\* The longest end of the first pos + 1 characters that the pattern begins with as well,
\* and that does not continue with the same character.
FallBack(p, pos, cand, table) == IF p[pos + 2] = p[cand + 1] THEN table[cand - 1] ELSE cand

\* How far to fall back when a character does not match, after 1, 2, ... that did.
Table(p) ==
  LET n == Len(p)
      Step(t) ==
        CASE p[t.pos + 1] = p[t.cand + 1] ->
               [pos |-> t.pos + 1, cand |-> t.cand + 1,
                table |-> [t.table EXCEPT ![t.pos] = FallBack(p, t.pos, t.cand + 1, t.table)]]
          [] p[t.pos + 1] # p[t.cand + 1] /\ t.cand = 0 -> [t EXCEPT !.pos = @ + 1]
          [] p[t.pos + 1] # p[t.cand + 1] /\ t.cand # 0 -> [t EXCEPT !.cand = t.table[@ - 1]]
      Go(t, k) == IF t.pos >= n - 1 THEN t ELSE Step(t)
  IN  Fold(Go, [pos |-> 1, cand |-> 0, table |-> [i \in 0..(n - 1) |-> 0]], Up(1, 2 * n)).table

\* Knuth, Morris and Pratt's search.  After falling back it does not ask again whether
\* the text is long enough: "text" goes on behind the end of what is searched.
StrStr(text, length, p) ==
  LET n == Len(p)
      table == Table(p)
      Step(s) ==
        CASE s.match = 0 /\ length - s.at < n -> [s EXCEPT !.found = Null]
          [] s.match = 0 /\ length - s.at >= n ->
               IF text[s.at + 1] = p[1] THEN [s EXCEPT !.match = 1] ELSE [s EXCEPT !.at = @ + 1]
          [] s.match >= n -> [s EXCEPT !.found = s.at]
          [] s.match \in 1..(n - 1) ->
               IF text[s.at + s.match + 1] = p[s.match + 1] THEN [s EXCEPT !.match = @ + 1]
               ELSE LET back == table[s.match - 1]
                    IN  [s EXCEPT !.at = @ + s.match - back, !.match = back]
      Go(s, k) == IF s.found # length + 1 THEN s ELSE Step(s)
  IN  Fold(Go, [at |-> 0, match |-> 0, found |-> length + 1], Up(1, 3 * length + n + 2)).found

\* Runs of the one character, looked for without a table.
StrChrRep(text, length, c, n) ==
  LET Run(at) == {k \in 0..n : k = n \/ text[at + k + 1] # c}
      Step(s) ==
        CASE length - s.at < n -> [s EXCEPT !.found = Null]
          [] length - s.at >= n /\ text[s.at + 1] # c -> [s EXCEPT !.at = @ + 1]
          [] length - s.at >= n /\ text[s.at + 1] = c ->
               LET match == CHOOSE k \in Run(s.at) : \A j \in Run(s.at) : k <= j
               IN  IF match >= n THEN [s EXCEPT !.found = s.at] ELSE [s EXCEPT !.at = @ + match + 1]
      Go(s, k) == IF s.found # length + 1 THEN s ELSE Step(s)
  IN  Fold(Go, [at |-> 0, found |-> length + 1], Up(1, length + 2)).found

\* Searches from "begin" on, in a text that is followed by "beyond".
Find(chars, beyond, p, begin) ==
  LET pos == StrStr(SubSeq(chars, begin + 1, Len(chars)) \o beyond, Len(chars) - begin, p)
  IN  CASE p = <<>> -> begin
        [] p # <<>> /\ begin + Len(p) > Len(chars) -> Null
        [] p # <<>> /\ begin + Len(p) <= Len(chars) -> IF pos = Null THEN Null ELSE pos + begin

\* Searches up to "end", backwards: the text and the pattern are turned round.
FindBackward(chars, beyond, p, end) ==
  LET pos == StrStr(Reverse(SubSeq(chars, 1, end)) \o beyond, end, Reverse(p))
  IN  CASE p = <<>> -> end
        [] p # <<>> /\ end < Len(p) -> Null
        [] p # <<>> /\ end >= Len(p) -> IF pos = Null THEN Null ELSE end - pos - Len(p)

FindRep(chars, c, n, begin) ==
  LET pos == StrChrRep(SubSeq(chars, begin + 1, Len(chars)), Len(chars) - begin, c, n)
  IN  CASE n = 0 -> begin
        [] n > 0 /\ begin + n > Len(chars) -> Null
        [] n > 0 /\ begin + n <= Len(chars) -> IF pos = Null THEN Null ELSE pos + begin
-----------------------------------------------------------------------------
Room == MaxSize - GetSize(self)

\* The allocator may throw where the call would grow the string: nothing changed then.
May(op, at, to, vals, new) ==
  \/ Did(op, at, to, vals, TRUE, Forget(new))
  \/ DOMAIN new.mem # DOMAIN self.mem /\ Did(op, at, to, vals, FALSE, self)

Init ==
  /\ trait = "nothrow"
  /\ self = New
  /\ call = NoCall

Assign == \E vals \in Arguments(MaxSize) : May("assign", 0, 0, vals, AssignView(self, vals))

\* A part of the string itself is assigned to it.
AssignOwn == \E from \in 0..GetSize(self) : \E to \in from..GetSize(self) :
  LET vals == SubSeq(Items(self), from + 1, to)
  IN  May("assign", 0, 0, vals, AssignView(self, vals))

\* A temporary string is moved in, and dropped with what it was left.
MoveIn == \E vals \in Arguments(MaxSize) : Did("assign", 0, 0, vals, TRUE, Forget(AppendView(New, vals)))

AppendMore == \E vals \in Arguments(Room) : May("insert", GetSize(self), 0, vals, AppendView(self, vals))

\* The sum of the string and others takes its place.
Add == \E vals \in Arguments(Room), temporary \in BOOLEAN :
  Did("insert", GetSize(self), 0, vals, TRUE, Forget(Concatenated(self, vals, temporary)))

\* A part of the string is appended to it: in a block of before, if that is given up.
AppendOwn == \E from \in 0..GetSize(self) : \E to \in from..GetSize(self) :
  LET vals == SubSeq(Items(self), from + 1, to)
      new  == AppendView(self, vals)
  IN  /\ to - from <= Room
      /\ ~Careful \/ GetCapacity(new) = GetCapacity(self)
      /\ May("insert", GetSize(self), 0, vals,
             IF GetCapacity(new) = GetCapacity(self) THEN new
             ELSE AppendView(self, [k \in DOMAIN vals |-> Junk]))

\* The whole string is appended to it: right if three times its size has room.
AppendItself ==
  LET new == AppendSelf(self)
  IN  /\ GetSize(self) <= Room
      /\ Careful => new.bad = {}
      /\ May("insert", GetSize(self), 0, Items(self), new)

PushUnchecked == \E c \in Elements :
  /\ GetSize(self) < GetCapacity(self) /\ Room > 0
  /\ Did("insert", GetSize(self), 0, <<c>>, TRUE, Forget(UncheckedPush(self, c)))

FromOther == \E vals \in Arguments(Room) : \E worst \in Len(vals)..(2 * Len(vals)) :
  \E fail \in 0..Len(vals), assign \in BOOLEAN :
    /\ vals # <<>>
    /\ Did(IF assign THEN "assign" ELSE "insert", IF assign THEN 0 ELSE GetSize(self), 0, vals, fail = 0,
           Forget(IF assign THEN AssignTranscoded(self, vals, worst, fail)
                  ELSE Transcode(self, vals, worst, fail)))

Grow == \E n \in 1..MaxSize :
  /\ n > GetCapacity(self)
  /\ May("keep", 0, 0, <<>>, Reserve(self, n))

Erase == \E n \in 1..GetSize(self) :
  Did("erase", GetSize(self) - n, GetSize(self), <<>>, TRUE, Forget(Pop(self, n)))

Clear == \E done \in BOOLEAN : Did("extract", 0, 0, <<>>, done, Forget(SetSize(self, 0)))

\* By other characters, or by a part of the string itself.
ReplacePart == \E begin, end \in (-1 - GetSize(self))..GetSize(self) :
  LET size == GetSize(self)
      from == TranslateOffset(begin, size)
      to   == TranslateOffset(end, size)
  IN  /\ from <= to
      /\ \/ \E vals \in Arguments(Room + (to - from)) :
              May("replace", from, to, vals, Replace(self, from, to, vals))
         \/ \E i, j \in 0..size :
              /\ i < j /\ j - i <= Room + (to - from)
              /\ LET vals == SubSeq(Items(self), i + 1, j)
                 IN  May("replace", from, to, vals, ReplaceByOwn(self, from, to, vals))

Turn == Did("reverse", 0, 0, <<>>, TRUE, Turned(self))

Next ==
  \/ Assign \/ AssignOwn \/ MoveIn \/ AppendMore \/ Add \/ AppendOwn \/ AppendItself \/ PushUnchecked
  \/ FromOther \/ Grow \/ Erase \/ Clear \/ ReplacePart \/ Turn

Spec == Init /\ [][Next]_vars
-----------------------------------------------------------------------------
\* The terminator, which is written when the characters are asked for, has a place:
\* behind them, or in the number of free characters when that is zero.
Sound ==
  /\ self.bad = {}
  /\ GetSize(self) \in DOMAIN self.mem
  /\ ~InBlock(self) => self.free \in 0..Small /\ GetCapacity(self) = Small
  /\ \A k \in 1..GetSize(self) : self.mem[k - 1] \in Elements
  /\ [k \in DOMAIN Enumerate(self) |-> self.mem[Enumerate(self)[k]]] = Items(self)
  /\ EnumerateBack(self) = Reverse(Enumerate(self))
  /\ ViewWalk(Items(self)) = <<Enumerate(self), EnumerateBack(self)>>

Occurs(chars, p, at) == at + Len(p) <= Len(chars) /\ SubSeq(chars, at + 1, at + Len(p)) = p

First(S) == IF S = {} THEN Null ELSE CHOOSE x \in S : \A y \in S : x <= y
Final(S) == IF S = {} THEN Null ELSE CHOOSE x \in S : \A y \in S : x >= y

\* What the characters lie between is in no pattern; otherwise a search may find what
\* begins before their end and goes on behind it, such as "aab" in "aaa" before a "b".
Finds(chars) ==
  \A p \in Patterns : \A from \in 0..Len(chars) :
    LET beyond == [k \in 1..(Len(p) + 1) |-> Zero]
    IN  /\ Find(chars, beyond, p, from)
             = First({at \in from..Len(chars) : Occurs(chars, p, at)})
        /\ FindBackward(chars, beyond, p, from)
             = Final({at \in 0..from : Occurs(SubSeq(chars, 1, from), p, at)})
        /\ \A c \in Elements :
             LET run == [k \in 1..Len(p) |-> c]
             IN  FindRep(chars, c, Len(p), from) = First({at \in from..Len(chars) : Occurs(chars, run, at)})

\* Comparing is an order, and a prefix comes first.
Compares(chars) ==
  \A p \in Patterns :
    LET differ == {k \in 1..Len(chars) : k <= Len(p) /\ chars[k] # p[k]}
        k == First(differ)
    IN  /\ Compare(chars, p) = -Compare(p, chars)
        /\ Equal(chars, p) <=> chars = p
        /\ Compare(chars, p) =
             CASE differ # {} -> IF chars[k][1] < p[k][1] THEN -1 ELSE 1
               [] differ = {} /\ Len(chars) = Len(p) -> 0
               [] differ = {} /\ Len(chars) # Len(p) -> IF Len(chars) < Len(p) THEN -1 ELSE 1
=============================================================================
