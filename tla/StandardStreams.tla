--------------------------- MODULE StandardStreams ---------------------------
(***************************************************************************)
(* The standard streams of the run-time (standard_streams.c).              *)
(*                                                                         *)
(* A stream holds UTF-16 units if it is a console and bytes of UTF-8       *)
(* otherwise.  A unit is <<c, i>>, the i-th unit of the code point c; "?"   *)
(* is U+FFFD, which stands for what can not be decoded.  The lock of a     *)
(* stream is a mutex, which Mutex is about: what is done under it is one   *)
(* step, but for input, where a thread may block with the lock held.       *)
(* What the last error is set to and the echo mode are left out.           *)
(***************************************************************************)
EXTENDS Integers, Sequences

CONSTANTS Threads,
          Inputs,           \* what may come in: sequences of code points
          Writes, Reads,    \* the calls that the program makes
          Whole,            \* whether a device hands out whole code points
          Careful,          \* whether the program leaves out what does not work
          FLUSH_THRESHOLD, INCREMENT, GRAIN,    \* of bytes
          MaxCalls

Outputs == {"out", "err"}
Streams == Outputs \cup {"in"}

VARIABLES console,          \* which streams are consoles
          stream,           \* the buffer of every stream
          input, rest,      \* the units that come in, those not yet read
          gave,             \* those given to readers, or discarded for them
          seen,             \* what the last call, if it peeked, has seen
          accepted, shown,  \* the units written to an output, those on its device
          pc,               \* what every thread is doing
          calls, up

vars == <<console, stream, input, rest, gave, seen, accepted, shown, pc, calls, up>>

Lesser(m, n)  == IF m < n THEN m ELSE n
Greater(m, n) == IF m > n THEN m ELSE n
Drop(q, n)    == SubSeq(q, n + 1, Len(q))
Prefix(p, q)  == Len(p) <= Len(q) /\ p = SubSeq(q, 1, Len(p))

-----------------------------------------------------------------------------
(* Code points: "a" and the line feed take one unit, "w" three bytes, "s"   *)
(* four bytes or a pair of surrogates; "z" is Control-Z.                    *)

CodePoints == {"a", "n", "w", "s", "z", "?"}

Width(c, wide) == IF c = "s" THEN (IF wide THEN 2 ELSE 4)
                  ELSE IF c \in {"w", "?"} /\ ~wide THEN 3 ELSE 1

Encode(c, wide) == [i \in 1..Width(c, wide) |-> <<c, i>>]

\* The code point at the front, and how many units it takes: none if the last
\* of it has yet to come.  The first unit that does not fit is taken with it.
Decode(d, wide) ==
  LET c   == d[1][1]
      w   == Width(c, wide)
      bad == {i \in 1..w : d[i] # <<c, i>>}
  IN  IF d = <<>> THEN [c |-> "?", units |-> 0]
      ELSE IF d[1][2] # 1 THEN [c |-> "?", units |-> 1]
      ELSE IF Len(d) < w THEN [c |-> "?", units |-> 0]
      ELSE IF bad = {} THEN [c |-> c, units |-> w]
      ELSE [c |-> "?", units |-> CHOOSE i \in bad : \A j \in bad : i <= j]

\* A turn of the loop, which ends when nothing is left, or what is left lacks
\* its last units.
RecodeTurn(l, from, to) ==
  LET k == Decode(l.left, from)
  IN  IF l.left = <<>> THEN l
      ELSE IF k.units = 0 THEN [left |-> <<>>, put |-> l.put \o Encode("?", to)]
      ELSE [left |-> Drop(l.left, k.units), put |-> l.put \o Encode(k.c, to)]

Recode(d, from, to) ==
  LET turn[n \in 0..Len(d)] ==
        IF n = 0 THEN [left |-> d, put |-> <<>>] ELSE RecodeTurn(turn[n - 1], from, to)
  IN  turn[Len(d)].put

EncodeAll(cs, wide) ==
  LET put[n \in 0..Len(cs)] ==
        IF n = 0 THEN <<>> ELSE put[n - 1] \o Encode(cs[n], wide)
  IN  put[Len(cs)]

-----------------------------------------------------------------------------
(* The buffer: begin bytes of cap were discarded, data is in it, of which    *)
(* every unit takes Unit(s) bytes.                                           *)

Empty(b) == [data |-> <<>>, begin |-> 0, cap |-> 0, buffered |-> b]

Unit(s)      == IF console[s] THEN 2 ELSE 1
Size(s, b)   == Unit(s) * Len(b.data)
Reserved(s, b) == b.cap - b.begin - Size(s, b)

\* Mutation: what the device did not take is discarded as well.
DiscardAll(s, b, n) == [b EXCEPT !.data = <<>>, !.begin = @ + n * Unit(s)]

Discard(s, b, n) == [b EXCEPT !.data = Drop(@, n), !.begin = @ + n * Unit(s)]

\* Data moves to the front of the storage or to a larger one.
ReserveMore(s, b, size) ==
  LET needed == Size(s, b) + size
      grown  == (b.cap + 1) + (b.cap + 1) \div 2
      rounded == ((grown + GRAIN - 1) \div GRAIN) * GRAIN
  IN  IF size <= Reserved(s, b) THEN b
      ELSE [b EXCEPT !.begin = 0,
                     !.cap = IF needed <= @ THEN @ ELSE Greater(rounded, needed)]

\* Whether there may be no memory: a larger storage is needed.
MayFail(s, b, size) == Size(s, b) + size > b.cap

\* What is read is put where the data begins, and counted as behind its end.
ReadInto(b, new) ==
  [b EXCEPT !.data = [i \in 1..(Len(@) + Len(new)) |->
                       IF i <= Len(new) THEN new[i]
                       ELSE IF i <= Len(@) THEN @[i] ELSE <<"?", 2>>]]

\* How many units Flush may write: the device takes what it likes at a time,
\* and fails when it likes.  It is tried while there are threshold bytes left.
Flushable(s, b, threshold) ==
  IF b.data = <<>> \/ Size(s, b) < threshold THEN {0} ELSE 0..Len(b.data)

FlushesTo(s, b, threshold) ==
  \E n \in Flushable(s, b, threshold) :
    /\ stream' = [stream EXCEPT ![s] = Discard(s, b, n)]
    /\ shown' = [shown EXCEPT ![s] = @ \o SubSeq(b.data, 1, n)]

-----------------------------------------------------------------------------
(* Output: w says what is written, the data and whether a line feed follows. *)

\* The bytes that are reserved for it.
Room(s, w) ==
  CASE w.what = "byte"   -> Unit(s)
    [] w.what = "binary" -> Unit(s) * Len(w.data)
    [] w.what = "char"   -> 4
    [] w.what = "text"   -> IF console[s] THEN 2 * (Len(w.data) + 1)
                                          ELSE 6 * Len(w.data) + 1

\* The units that are put.  A byte is taken for a UTF-16 unit by a console.
Put(s, w) ==
  CASE w.what = "byte"   -> w.data
    [] w.what = "binary" -> IF console[s] THEN Recode(w.data, FALSE, TRUE) ELSE w.data
    [] w.what = "char"   -> EncodeAll(w.data, console[s])
    [] w.what = "text"   -> Recode(w.data, TRUE, console[s])
                              \o (IF w.line THEN <<<<"n", 1>>>> ELSE <<>>)

Write(s, w) ==
  LET e         == stream[s]
      threshold == IF e.buffered THEN FLUSH_THRESHOLD ELSE 0
      put       == Put(s, w)
      wider     == ReserveMore(s, e, Room(s, w))
  IN  \/ /\ FlushesTo(s, [wider EXCEPT !.data = @ \o put], threshold)
         /\ accepted' = [accepted EXCEPT ![s] = @ \o put]
      \/ /\ MayFail(s, e, Room(s, w))
         /\ FlushesTo(s, e, threshold)
         /\ UNCHANGED accepted

Idle == [at |-> "idle"]

Starts(t) == /\ up /\ pc[t] = Idle /\ calls < MaxCalls
             /\ calls' = calls + 1

WriteStandardOutput(t, w) ==
  /\ Starts(t) /\ Write("out", w)
  /\ UNCHANGED <<console, input, rest, gave, seen, pc, up>>

FlushStandard(t, s) ==
  /\ Starts(t) /\ FlushesTo(s, stream[s], 0)
  /\ UNCHANGED <<console, input, rest, gave, seen, accepted, pc, up>>

SetStandardOutputBuffered(t, b) ==
  /\ Starts(t)
  /\ \E n \in IF b THEN {0} ELSE Flushable("out", stream["out"], 0) :
       /\ stream' = [stream EXCEPT !["out"] = [Discard("out", @, n) EXCEPT !.buffered = b]]
       /\ shown' = [shown EXCEPT !["out"] = @ \o SubSeq(stream["out"].data, 1, n)]
  /\ UNCHANGED <<console, input, rest, gave, seen, accepted, pc, up>>

\* Mutation: the output is flushed only when there is a block of it.
FlushBeforeBlocks(t, at, what) ==
  /\ Starts(t) /\ FlushesTo("out", stream["out"], FLUSH_THRESHOLD)
  /\ pc' = [pc EXCEPT ![t] = [at |-> at, what |-> what, threshold |-> 1,
                              told |-> Len(accepted["out"]), flushed |-> TRUE]]
  /\ UNCHANGED <<console, input, rest, gave, seen, accepted, up>>

\* A call on another stream flushes the output before it does anything.
FlushBefore(t, at, what) ==
  /\ Starts(t) /\ FlushesTo("out", stream["out"], 0)
  /\ pc' = [pc EXCEPT ![t] = [at |-> at, what |-> what, threshold |-> 1,
                              told |-> Len(accepted["out"]),
                              flushed |-> stream'["out"].data = <<>>]]
  /\ UNCHANGED <<console, input, rest, gave, seen, accepted, up>>

BeginError(t, w) == FlushBefore(t, "error", w)

WriteStandardError(t) ==
  /\ up /\ pc[t].at = "error" /\ Write("err", pc[t].what)
  /\ pc' = [pc EXCEPT ![t] = Idle]
  /\ UNCHANGED <<console, input, rest, gave, seen, calls, up>>

-----------------------------------------------------------------------------
(* Input: r says what is read and how ("peek", "read" or "discard"), the     *)
(* room for it, and whether to stop behind a line feed.                      *)

Peeks(r) == r.how = "peek"

\* Bytes of what is not a console.
TakeRaw(r, d) ==
  LET n == Lesser(r.room, Len(d))
  IN  [out |-> SubSeq(d, 1, n), used |-> IF Peeks(r) THEN 0 ELSE n,
       again |-> FALSE, ended |-> FALSE]

\* One code point; Byte takes its low bits.
TakeOne(r, d, wide) ==
  LET k   == Decode(d, wide)
      eof == wide /\ k.c = "z"
      out == IF k.c = "?" THEN <<<<"?", 1>>>> ELSE Encode(k.c, wide)
  IN  [out |-> IF k.units = 0 \/ eof THEN <<>> ELSE out,
       used |-> IF Peeks(r) \/ eof THEN 0 ELSE k.units,
       again |-> k.units = 0, ended |-> eof]

\* One code point more, while there is room.  Peeking does not go on to the next;
\* discarding counts the last, and a console discards also what has no room.
TakeTurn(r, d, wide, l) ==
  LET k     == Decode(Drop(d, l.used), wide)
      size  == Width(k.c, r.what = "text")
      fits  == size <= r.room - l.copied
      count == IF r.how # "discard" THEN l.copied + size
               ELSE IF fits \/ r.what = "text" THEN size ELSE 0
      last  == r.line /\ k.c = "n"
      stays == Peeks(r) \/ (last /\ wide /\ r.how = "read")
      out   == IF k.c = "?" THEN <<<<"?", 1>>>> ELSE Encode(k.c, wide)
  IN  IF l.stop THEN l
      ELSE IF k.units = 0 THEN [l EXCEPT !.stop = TRUE, !.again = l.copied = 0]
      ELSE IF wide /\ k.c = "z" THEN [l EXCEPT !.stop = TRUE, !.ended = TRUE]
      ELSE IF ~fits /\ ~(r.how = "discard" /\ wide) THEN [l EXCEPT !.stop = TRUE]
      ELSE [l EXCEPT !.stop = last, !.copied = count, !.out = @ \o out,
                     !.used = IF stays THEN @ ELSE @ + k.units]

TakeMany(r, d, wide) ==
  LET turn[n \in 0..(Len(d) + r.room + 1)] ==
        IF n = 0 THEN [out |-> <<>>, used |-> 0, again |-> FALSE, ended |-> FALSE,
                       copied |-> 0, stop |-> FALSE]
                 ELSE TakeTurn(r, d, wide, turn[n - 1])
  IN  turn[Len(d) + r.room + 1]

Take(r, d) ==
  LET wide == console["in"]
  IN  IF r.what \in {"byte", "binary"} /\ ~wide THEN TakeRaw(r, d)
      ELSE IF r.what \in {"byte", "char"} THEN TakeOne(r, d, wide)
      ELSE TakeMany(r, d, wide)

\* What comes to nothing good: peeking does not go on and discarding does not
\* stop where it should, and a line feed that ends a line stays on a console.
Works(r) == \/ r.what \in {"byte", "char"}
            \/ console["in"] /\ r.how = "read" /\ ~r.line
            \/ ~console["in"] /\ (r.what = "binary" \/ r.how = "read")

BeginRead(t, r) ==
  /\ Careful => Works(r)
  /\ FlushBefore(t, "lock", r)

LockInput(t) ==
  /\ up /\ pc[t].at = "lock" /\ \A u \in Threads : pc[u].at # "input"
  /\ pc' = [pc EXCEPT ![t].at = "input"]
  /\ UNCHANGED <<console, stream, input, rest, gave, seen, accepted, shown, calls, up>>

Reading(t) == up /\ pc[t].at = "input"
Short(t)   == Len(stream["in"].data) < pc[t].threshold

\* Populate answers with an error: input was ended, is at its end, can not be
\* read, or there is no memory.
PopulateFails(t) ==
  /\ Reading(t)
  /\ LET e == stream["in"]
     IN  \/ ~e.buffered /\ stream' = [stream EXCEPT !["in"] = Empty(FALSE)]
         \/ /\ e.buffered /\ Short(t)
            /\ stream' = [stream EXCEPT !["in"] = ReserveMore("in", @, INCREMENT)]
         \/ e.buffered /\ Short(t) /\ MayFail("in", e, INCREMENT) /\ UNCHANGED stream
  /\ seen' = <<>> /\ pc' = [pc EXCEPT ![t] = Idle]
  /\ UNCHANGED <<console, input, rest, gave, accepted, shown, calls, up>>

\* One turn of Populate, which reads at least one unit.
Populate(t) ==
  /\ Reading(t) /\ stream["in"].buffered /\ Short(t)
  /\ LET e == ReserveMore("in", stream["in"], INCREMENT)
     IN  \E n \in 1..Lesser(Len(rest), Reserved("in", e) \div Unit("in")) :
           /\ Whole /\ n < Len(rest) => rest[n + 1][2] = 1
           /\ stream' = [stream EXCEPT !["in"] = ReadInto(e, SubSeq(rest, 1, n))]
           /\ rest' = Drop(rest, n)
  /\ UNCHANGED <<console, input, gave, seen, accepted, shown, pc, calls, up>>

\* There is enough to look at.  If nothing came of it, one unit more is needed.
Consume(t) ==
  /\ Reading(t) /\ stream["in"].buffered /\ ~Short(t)
  /\ LET r == pc[t].what
         x == Take(r, stream["in"].data)
     IN  /\ stream' = [stream EXCEPT !["in"] =
                         [Discard("in", @, x.used) EXCEPT !.buffered = ~x.ended]]
         /\ gave' = IF Peeks(r) THEN gave ELSE gave \o x.out
         /\ seen' = IF Peeks(r) THEN x.out ELSE <<>>
         /\ IF x.again THEN pc' = [pc EXCEPT ![t].threshold = @ + 1]
                       ELSE pc' = [pc EXCEPT ![t] = Idle]
  /\ UNCHANGED <<console, input, rest, accepted, shown, calls, up>>

-----------------------------------------------------------------------------

Init == /\ console \in [Streams -> BOOLEAN]
        /\ stream = [s \in Streams |-> Empty(s # "err")]
        /\ input \in {EncodeAll(cs, console["in"]) : cs \in Inputs}
        /\ rest = input /\ gave = <<>> /\ seen = <<>>
        /\ accepted = [s \in Outputs |-> <<>>] /\ shown = [s \in Outputs |-> <<>>]
        /\ pc = [t \in Threads |-> Idle] /\ calls = 0 /\ up = TRUE

\* The other threads have been terminated, wherever they were.
StandardStreamsUninit ==
  /\ up /\ up' = FALSE
  /\ \E n \in Flushable("out", stream["out"], 0), m \in Flushable("err", stream["err"], 0) :
       shown' = [s \in Outputs |->
                   shown[s] \o SubSeq(stream[s].data, 1, IF s = "out" THEN n ELSE m)]
  /\ stream' = [s \in Streams |-> Empty(FALSE)]
  /\ pc' = [t \in Threads |-> Idle] /\ seen' = <<>>
  /\ UNCHANGED <<console, input, rest, gave, accepted, calls>>

Next == \/ \E t \in Threads :
             \/ \E w \in Writes : WriteStandardOutput(t, w) \/ BeginError(t, w)
             \/ \E s \in Outputs : FlushStandard(t, s)
             \/ \E b \in BOOLEAN : SetStandardOutputBuffered(t, b)
             \/ \E r \in Reads : BeginRead(t, r)
             \/ WriteStandardError(t) \/ LockInput(t)
             \/ PopulateFails(t) \/ Populate(t) \/ Consume(t)
        \/ StandardStreamsUninit

Spec == Init /\ [][Next]_vars

-----------------------------------------------------------------------------

\* Data lies in the storage: neither reading nor putting is ever beyond it.
InStorage == \A s \in Streams : Reserved(s, stream[s]) >= 0

\* "?" stands for a unit that was left of a code point.
Same(p, q) == /\ Len(p) <= Len(q)
              /\ \A i \in 1..Len(p) : p[i] = q[i] \/ p[i] = <<"?", 1>>

\* Readers are given, one after another and all together, what came in, each
\* unit once; what a peek has seen is what is read next.
InputInOrder ==
  LET ahead == stream["in"].data \o rest
  IN  /\ Same(gave, input)
      /\ stream["in"].buffered => gave \o ahead = gave \o Drop(input, Len(gave))
      /\ stream["in"].buffered => Same(seen, ahead)

\* An output shows what was written to it, each unit once and in order, and
\* still has the rest, whatever parts of it the device took and refused.
OutputInOrder ==
  \A s \in Outputs : /\ Prefix(shown[s], accepted[s])
                     /\ up => shown[s] \o stream[s].data = accepted[s]

\* Nothing is lost, repeated or put out of order or out of the storage, on
\* the way from a device to the readers or from the writers to a device.
StreamsSound == InStorage /\ InputInOrder /\ OutputInOrder

\* When a thread reads, or writes an error, all that was put out before its
\* call is on the device, unless the device refused it: a prompt is shown
\* before the program waits for the answer.
PromptShown ==
  \A t \in Threads : pc[t] # Idle /\ pc[t].flushed => Len(shown["out"]) >= pc[t].told

\* Reading text never returns part of a code point, if whole ones come in.
TextIsWhole == \A i \in 1..Len(gave) : gave[i][1] # "?"

=============================================================================
