------------------------------ MODULE Filters ------------------------------
(***************************************************************************)
(* The filters of streams (StreamFilters/): a writer puts bytes into an    *)
(* output filter, whose buffered stream passes them on to a device in      *)
(* steps; a reader gets them from an input filter of the same kind, whose  *)
(* buffered stream reads ahead of it, and sees the bytes that were put.    *)
(* Filters buffer, translate the ends of lines, or encode in base 16 or    *)
(* 64.  The device, external, may fail to take or to give what it is       *)
(* asked for, and others may write to it what is no encoding of anything.  *)
(*                                                                         *)
(* Buffers are sequences, as StreamBuffer and Vector show.  A character of *)
(* an encoding is its index in the table; the end of a group is marked by  *)
(* one more.                                                               *)
(***************************************************************************)
EXTENDS Container

LF == 10
CR == 13
Pad == 64                \* '='
Bad == 99                \* in neither table
Step == 4                \* kStepSize, 4096 in the code

New == [filter |-> "buffering", plainOut |-> <<>>, frontOut |-> <<>>, backOut |-> <<>>,
        device |-> <<>>, frontIn |-> <<>>, plainIn |-> <<>>]

Filters == {"buffering", "text", "hex", "base64"}
Group(filter) == IF filter = "base64" THEN 4 ELSE 2

First(s, n) == SubSeq(s, 1, Min({n, Len(s)}))
Rest(s, n) == SubSeq(s, n + 1, Len(s))

\* BufferedOutputStream::Flush: in steps from the front buffer by the back buffer to the
\* device.  The fail-th time the device takes nothing and throws, which leaves all in the
\* back buffer; 0: it never does.
FlushBuffer(f, now, fail) ==
  LET Drain(s) ==
        IF s.f.backOut = <<>> THEN s
        ELSE IF fail = s.puts + 1 THEN [s EXCEPT !.ended = TRUE, !.thrown = TRUE]
        ELSE [s EXCEPT !.puts = @ + 1, !.f.device = @ \o s.f.backOut, !.f.backOut = <<>>]
      Fill(s) ==
        IF s.ended \/ s.last \/ (~now /\ Len(s.f.frontOut) < Step) THEN [s EXCEPT !.ended = TRUE]
        ELSE [s EXCEPT !.f.backOut = First(s.f.frontOut, Step), !.f.frontOut = Rest(s.f.frontOut, Step),
                       !.last = Len(s.f.frontOut) < Step]
      start == [f |-> f, puts |-> 0, last |-> FALSE, ended |-> FALSE, thrown |-> FALSE]
  IN  Fold(LAMBDA s, k : IF s.ended THEN s ELSE Of(Fill, Drain(s)), start, Up(1, Len(f.frontOut) \div Step + 3))

\* BufferedInputStream::PopulateBuffer, until so many bytes are in the front buffer or
\* the device has no more.  It reads at most twice; the fail-th time it throws.
PopulateBuffer(f, expected, fail) ==
  LET Read(s, k) ==
        IF s.ended \/ Len(s.f.frontIn) >= expected THEN [s EXCEPT !.ended = TRUE]
        ELSE IF fail = k THEN [s EXCEPT !.ended = TRUE, !.thrown = TRUE]
        ELSE [s EXCEPT !.f.frontIn = @ \o First(s.f.device, Step), !.f.device = Rest(@, Step),
                       !.ended = Len(s.f.device) < Step]
  IN  Fold(Read, [f |-> f, ended |-> FALSE, thrown |-> FALSE], Up(1, expected + 1))
-----------------------------------------------------------------------------
\* What X_FlushPlainBuffer of each filter makes of the bytes in the plain buffer: what it
\* puts out, what it keeps, and whether all has to be flushed then.
EncodeText(plain, force) ==
  [out |-> Fold(LAMBDA out, b : out \o (IF b = LF THEN <<CR, LF>> ELSE <<b>>), <<>>, plain),
   keep |-> <<>>, force |-> force \/ LF \in {plain[k] : k \in DOMAIN plain}]

EncodeHex(plain, force) ==
  [out |-> Fold(LAMBDA out, b : out \o <<b \div 16, b % 16>>, <<>>, plain), keep |-> <<>>, force |-> force]

\* Three bytes make a word of 24 bits and four characters; fewer wait for more unless forced.
EncodeBase64(plain, force) ==
  LET groups == (Len(plain) + (IF force THEN 2 ELSE 0)) \div 3
      Encode(b) ==
        LET At_(k) == IF k <= Len(b) THEN b[k] ELSE 0
            word == (At_(1) * 256 + At_(2)) * 256 + At_(3)
        IN  <<word \div 262144, (word \div 4096) % 64,
              IF Len(b) >= 2 THEN (word \div 64) % 64 ELSE Pad, IF Len(b) = 3 THEN word % 64 ELSE Pad>>
  IN  [out |-> Fold(LAMBDA out, k : out \o Encode(First(Rest(plain, 3 * (k - 1)), 3)), <<>>, Up(1, groups)),
       keep |-> Rest(plain, 3 * groups), force |-> force]

Encoded(filter, plain, force) ==
  CASE filter = "buffering" -> [out |-> plain, keep |-> <<>>, force |-> force]
    [] filter = "text"      -> EncodeText(plain, force)
    [] filter = "hex"       -> EncodeHex(plain, force)
    [] filter = "base64"    -> EncodeBase64(plain, force)

\* What X_PopulatePlainBuffer of each filter makes of the next bytes, no more than a group:
\* what it adds to the plain buffer, how many it discards, whether it ends then, or throws.
Taking(got, discard, ended, thrown) == [got |-> got, discard |-> discard, ended |-> ended, thrown |-> thrown]

\* A single carriage return is left where it is: a line feed may follow.
DecodeText(next) ==
  CASE next = <<>>              -> Taking(<<>>, 0, TRUE, FALSE)
    [] Len(next) = 1            -> IF next[1] = CR THEN Taking(<<>>, 0, TRUE, FALSE) ELSE Taking(next, 1, TRUE, FALSE)
    [] next = <<CR, LF>>        -> Taking(<<LF>>, 2, FALSE, FALSE)
    [] Len(next) = 2 /\ next # <<CR, LF>> ->
         IF next[2] = CR THEN Taking(First(next, 1), 1, FALSE, FALSE) ELSE Taking(next, 2, FALSE, FALSE)

DecodeHex(next) ==
  CASE Len(next) < 2 -> Taking(<<>>, 0, TRUE, FALSE)
    [] Len(next) = 2 /\ Bad \in {next[1], next[2]} -> Taking(<<>>, 0, TRUE, TRUE)
    [] Len(next) = 2 /\ Bad \notin {next[1], next[2]} -> Taking(<<next[1] * 16 + next[2]>>, 2, FALSE, FALSE)

DecodeBase64(next) ==
  LET size == IF next[4] # Pad THEN 3 ELSE IF next[3] # Pad THEN 2 ELSE 1
      At_(k) == IF k <= size + 1 THEN next[k] ELSE 0
      word == ((At_(1) * 64 + At_(2)) * 64 + At_(3)) * 64 + At_(4)
  IN  IF Len(next) < 4 THEN Taking(<<>>, 0, TRUE, FALSE)
      ELSE IF \E k \in 1..(size + 1) : next[k] \notin 0..63 THEN Taking(<<>>, 0, TRUE, TRUE)
      ELSE Taking(First(<<word \div 65536, (word \div 256) % 256, word % 256>>, size), 4, FALSE, FALSE)

Decoded(filter, next) ==
  CASE filter = "text"   -> DecodeText(next)
    [] filter = "hex"    -> DecodeHex(next)
    [] filter = "base64" -> DecodeBase64(next)

\* X_PopulatePlainBuffer, until so many bytes are in the plain buffer.
PopulatePlain(f, expected, fail) ==
  LET Decode(s, p) ==
        LET d == Decoded(f.filter, First(p.f.frontIn, Group(f.filter)))
        IN  IF p.thrown THEN [f |-> p.f, ended |-> TRUE, thrown |-> TRUE]
            ELSE [f |-> [p.f EXCEPT !.plainIn = @ \o d.got, !.frontIn = Rest(@, d.discard)],
                  ended |-> d.ended, thrown |-> d.thrown]
      Once(s, k) ==
        IF s.ended \/ Len(s.f.plainIn) >= expected THEN [s EXCEPT !.ended = TRUE]
        ELSE Of(LAMBDA p : Decode(s, p), PopulateBuffer(s.f, Group(f.filter), IF fail = k THEN 1 ELSE 0))
  IN  Fold(Once, [f |-> f, ended |-> FALSE, thrown |-> FALSE], Up(1, expected + 1))
-----------------------------------------------------------------------------
\* The bytes that a sequence of encoded ones stands for; what stands for none is bad.
Decoding(filter, s) ==
  LET n == Group(filter)
      Line(got, k) == IF s[k] = CR /\ k < Len(s) /\ s[k + 1] = LF THEN got ELSE Append(got, s[k])
      Code(got, k) ==
        LET d == Decoded(filter, SubSeq(s, n * (k - 1) + 1, n * k))
        IN  got \o (IF d.thrown THEN <<Bad>> ELSE d.got)
  IN  CASE filter = "buffering" -> s
        [] filter = "text" -> Fold(Line, <<>>, Up(1, Len(s)))
        [] filter \in {"hex", "base64"} -> Fold(Code, <<>>, Up(1, Len(s) \div n))

\* From the reader to the device, and on to the writer.
Given(f) == f.plainIn \o Decoding(f.filter, f.frontIn \o f.device)
Items(f) ==
  f.plainIn \o Of(LAMBDA s : Decoding(f.filter, s), f.frontIn \o f.device \o f.backOut \o f.frontOut)
    \o f.plainOut

\* Put or Flush of the output filter.  A call that throws has taken its bytes.
FlushPlain(f, force, fail) ==
  LET e == Encoded(f.filter, f.plainOut, force)
  IN  Of(LAMBDA g : FlushBuffer(g, e.force, fail), [f EXCEPT !.plainOut = e.keep, !.frontOut = @ \o e.out])

Init ==
  /\ trait = "nothrow"
  /\ self \in {[New EXCEPT !.filter = x] : x \in Filters}
  /\ call = NoCall

\* The end of a line, what goes before it, and all bits.
Bytes == IF self.filter = "text" THEN {LF, CR, 255} ELSE {CR, 255}
Args(room) == UNION {[1..n -> Bytes] : n \in 1..(IF room < 2 THEN room ELSE 2)}
\* Where the device throws, of what a call asks of it; 0: nowhere.
Fails == 0..2

PutBytes == \E size \in {Len(Items(self))} : \E bytes \in Args(MaxSize - size), fail \in Fails :
  \E g \in {FlushPlain([self EXCEPT !.plainOut = @ \o bytes], FALSE, fail)} :
    /\ fail # 0 => g.thrown
    /\ Did("insert", size, 0, bytes, TRUE, g.f)

\* That of BufferingOutputStreamFilter flushes only if it is a hard one.
Flush == \E force \in {self.filter # "buffering", TRUE}, fail \in Fails :
  \E g \in {FlushPlain(self, force, fail)} :
    /\ fail # 0 => g.thrown
    /\ Did("keep", 0, 0, <<>>, TRUE, g.f)

\* The output filter is destroyed, which flushes it twice and ignores that the device
\* throws: what it could not write then is lost, perhaps in the middle of the end of a
\* line.  Another one is opened.
Reopen == \E fail \in 0..1, again \in 0..1 :
  LET twice == FlushBuffer(FlushPlain(self, TRUE, fail).f, TRUE, again).f
      left  == [twice EXCEPT !.plainOut = <<>>, !.frontOut = <<>>, !.backOut = <<>>]
      size  == Len(Items(left))
      torn  == Items(left) # First(Items(self), size)
  IN  Did("replace", IF torn THEN size - 1 ELSE size, Len(Items(self)), IF torn THEN <<CR>> ELSE <<>>, TRUE, left)

\* Peek, Get or Discard of the input filter.
GetBytes == \E n \in {1, 3}, peek \in BOOLEAN, fail \in 0..1 :
  \E s \in {IF self.filter = "buffering" THEN PopulateBuffer(self, n, fail) ELSE PopulatePlain(self, n, fail)} :
    LET field == IF self.filter = "buffering" THEN "frontIn" ELSE "plainIn"
        got   == First(s.f[field], n)
    IN  /\ fail # 0 => s.thrown
        /\ IF s.thrown THEN Did("keep", 0, 0, <<>>, FALSE, s.f)
           ELSE Did(IF peek THEN "look" ELSE "take", 0, Len(got), got, TRUE,
                    IF peek THEN s.f ELSE [s.f EXCEPT ![field] = Rest(@, n)])

\* Someone else writes what is no encoding of anything: the reader gets no further.
Garble ==
  /\ self.filter \in {"hex", "base64"}
  /\ Len(Items(self)) < MaxSize
  /\ Did("insert", Len(Given(self)), 0, <<Bad>>, TRUE,
         [self EXCEPT !.device = @ \o [k \in 1..Group(self.filter) |-> IF k = 2 THEN Bad ELSE 0]])

Next == PutBytes \/ Flush \/ Reopen \/ GetBytes \/ Garble

Spec == Init /\ [][Next]_vars

\* Only what was to be written to a device that threw is kept in the back buffer, which
\* is a step at most, and what waits for more is less than it takes.
Sound ==
  /\ Len(self.backOut) <= Step
  /\ self.filter = "buffering" => self.plainOut = <<>> /\ self.plainIn = <<>>
  /\ self.filter = "base64" => Len(self.plainOut) < 3
  /\ self.filter \in {"text", "hex"} => self.plainOut = <<>>
  /\ self.backOut = <<>> => Len(self.frontOut) < Step
=============================================================================
