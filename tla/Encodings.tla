----------------------------- MODULE Encodings -----------------------------
(***************************************************************************)
(* UTF-8, UTF-16, UTF-32, CESU-8 and modified UTF-8 (MCFCRT/ext/utf.h) and *)
(* the conversions of MCF::String between them (Core/String.cpp).  A unit  *)
(* is a number; a string in one encoding has text of another appended: it  *)
(* is decoded strictly, and the appended part is taken back if that fails. *)
(* ANSI text is converted by the system, and left out.                     *)
(***************************************************************************)
EXTENDS Container

CONSTANTS CodePoints,  \* what texts are made of
          Malformed,   \* for each encoding, sequences of units that are no text
          MaxText      \* bound: code points in the string

Invalid == -1
Partial == -2

Unicode == {"utf8", "utf16", "utf32", "cesu8", "modified"}

Surrogate(u) == u \in 55296..57343
Leading(u) == u \in 55296..56319
Trailing(u) == u \in 56320..57343
Joined(lead, trail) == (lead - 55296) * 1024 + (trail - 56320) + 65536

\* How many units a code point of UTF-8 has, from its first one; zero if none begins so.
Length(u) == CASE u \in 0..127 -> 1 [] u \in 128..191 -> 0 [] u \in 192..223 -> 2
               [] u \in 224..239 -> 3 [] u \in 240..247 -> 4 [] u \in 248..255 -> 0

Continues(u) == u \in 128..191

\* The least code point that needs as many units: what is below it is overlong.
Least == <<0, 128, 2048, 65536>>

\* The bits of the units s[i], ..., s[i + n - 1]; Invalid if one does not continue the first.
Bits(s, i, n) ==
  LET first == s[i] - <<0, 192, 224, 240>>[n]
  IN  IF \A k \in 1..(n - 1) : Continues(s[i + k])
      THEN Fold(LAMBDA c, k : c * 64 + (s[i + k] - 128), first, Up(1, n - 1)) ELSE Invalid

\* The code point at s[i] in one to "most" units; surrogates are for the caller.
Utf8(s, i, most) ==
  LET n == Length(s[i])
      Needed(c) == IF c < Least[n] THEN Invalid ELSE c
  IN  CASE n = 0 \/ n > most -> Invalid
        [] n \in 1..most /\ i + n - 1 > Len(s) -> Partial
        [] n \in 1..most /\ i + n - 1 <= Len(s) -> Of(Needed, Bits(s, i, n))

DecodeUtf8(s, i) ==
  Of(LAMBDA c : IF Surrogate(c) \/ c >= 1114112 THEN Invalid ELSE c, Utf8(s, i, 4))

DecodeUtf16(s, i) ==
  CASE Leading(s[i]) /\ i = Len(s) -> Partial
    [] Leading(s[i]) /\ i < Len(s) -> IF Trailing(s[i + 1]) THEN Joined(s[i], s[i + 1]) ELSE Invalid
    [] Trailing(s[i]) -> Invalid
    [] ~Surrogate(s[i]) -> s[i]

DecodeUtf32(s, i) == IF Surrogate(s[i]) \/ s[i] >= 1114112 THEN Invalid ELSE s[i]

\* In CESU-8 two surrogates of three units each stand for what UTF-16 has them for.
DecodeCesu8(s, i) ==
  LET Second(lead, trail) == IF Trailing(trail) THEN Joined(lead, trail) ELSE Invalid
      Rest(lead) ==
        CASE ~Surrogate(lead) -> lead
          [] Trailing(lead) -> Invalid
          [] Leading(lead) /\ i + 5 > Len(s) -> Partial
          [] Leading(lead) /\ i + 5 <= Len(s) ->
               IF s[i + 3] \notin 224..239 THEN Invalid
               ELSE Of(LAMBDA trail : Second(lead, trail), Utf8(s, i + 3, 3))
  IN  Of(Rest, Utf8(s, i, 3))

\* Zero is two units, and a unit that is zero is refused.  After the first one the code
\* looks at the next unit even at the end of the input (it tests whether one unit, the
\* first, is left); what lies there is taken not to be 128.
DecodeModified(s, i) ==
  IF s[i] = 0 THEN Invalid
  ELSE IF s[i] = 192 /\ i < Len(s) /\ s[i + 1] = 128 THEN 0 ELSE DecodeCesu8(s, i)

Decode(e, s, i) ==
  CASE e = "utf8" -> DecodeUtf8(s, i) [] e = "utf16" -> DecodeUtf16(s, i) [] e = "utf32" -> DecodeUtf32(s, i)
    [] e = "cesu8" -> DecodeCesu8(s, i) [] e = "modified" -> DecodeModified(s, i)

EncodeUtf8(c) ==
  CASE c < 128 -> <<c>>
    [] c >= 128 /\ c < 2048 -> <<192 + c \div 64, 128 + (c % 64)>>
    [] c >= 2048 /\ c < 65536 -> <<224 + c \div 4096, 128 + ((c \div 64) % 64), 128 + (c % 64)>>
    [] c >= 65536 -> <<240 + c \div 262144, 128 + ((c \div 4096) % 64), 128 + ((c \div 64) % 64), 128 + (c % 64)>>

EncodeUtf16(c) ==
  IF c < 65536 THEN <<c>> ELSE <<55296 + (c - 65536) \div 1024, 56320 + (c % 1024)>>

EncodeUtf32(c) == <<c>>

EncodeCesu8(c) ==
  IF c < 65536 THEN EncodeUtf8(c) ELSE EncodeUtf8(EncodeUtf16(c)[1]) \o EncodeUtf8(EncodeUtf16(c)[2])

Encode(e, c) ==
  CASE e = "utf8" -> EncodeUtf8(c) [] e = "utf16" -> EncodeUtf16(c) [] e = "utf32" -> EncodeUtf32(c)
    [] e = "cesu8" -> EncodeCesu8(c)
    [] e = "modified" -> IF c = 0 THEN <<192, 128>> ELSE EncodeCesu8(c)

EncodeAll(e, text) == Fold(LAMBDA s, c : s \o Encode(e, c), <<>>, text)

\* The loop of every conversion: units are decoded and encoded until they end or are
\* malformed, into room for "most" units for each of the source.
Converted(from, to, units, most) ==
  LET Took(s, c) ==
        IF c < 0 THEN [s EXCEPT !.ok = FALSE]
        ELSE [s EXCEPT !.at = @ + Len(Encode(from, c)), !.written = @ \o Encode(to, c)]
      Step(s, k) == IF s.at > Len(units) \/ ~s.ok THEN s
                    ELSE Of(LAMBDA c : Took(s, c), Decode(from, units, s.at))
      Outcome(end) == [ok |-> end.ok, written |-> IF end.ok THEN end.written ELSE <<>>,
                       fits |-> Len(end.written) <= most * Len(units)]
  IN  Of(Outcome, Fold(Step, [at |-> 1, ok |-> TRUE, written |-> <<>>], Up(1, Len(units))))

\* UnifyAppend and DeunifyAppend of each type of string: to and from UTF-16 and UTF-32.
Utf8Append(from, to, units) ==
  Converted(from, to, units, CASE from = "utf8" -> 1 [] from = "utf16" -> 3 [] from = "utf32" -> 4)

Utf16Append(from, to, units) == Converted(from, to, units, IF from = "utf32" THEN 2 ELSE 1)

Utf32Append(from, to, units) == Converted(from, to, units, IF to = "utf16" THEN 2 ELSE 1)

Cesu8Append(from, to, units) ==
  Converted(from, to, units, CASE from = "cesu8" -> 1 [] from = "utf16" -> 3 [] from = "utf32" -> 6)

ModifiedAppend(from, to, units) ==
  Converted(from, to, units, CASE from = "modified" -> 1 [] from = "utf16" -> 3 [] from = "utf32" -> 6)

\* The destination's type converts from UTF-16 and UTF-32, the source's from others.
Convert(from, to, units) ==
  LET type == IF from \in {"utf16", "utf32"} THEN to ELSE from
  IN  CASE type = "utf8"  -> Utf8Append(from, to, units)
        [] type = "utf16" -> Utf16Append(from, to, units)
        [] type = "utf32" -> Utf32Append(from, to, units)
        [] type = "cesu8" -> Cesu8Append(from, to, units)
        [] type = "modified" -> ModifiedAppend(from, to, units)

\* The encodings that text goes through: UTF-16 or UTF-32 is one of any two.
Via(from, to) ==
  LET Prefers(e) == CASE e = "utf16" -> -1 [] e = "utf32" -> 1 [] e \notin {"utf16", "utf32"} -> 0
  IN  IF {from, to} \cap {"utf16", "utf32"} # {} THEN to
      ELSE IF Prefers(from) + Prefers(to) < 0 THEN "utf16" ELSE "utf32"

\* Text in one encoding is appended to a string in another.
Transcode(from, to, units) ==
  LET Onwards(via, first) ==
        IF via = to \/ ~first.ok THEN first
        ELSE Of(LAMBDA then : [then EXCEPT !.fits = @ /\ first.fits], Convert(via, to, first.written))
      Through(via) == Of(LAMBDA first : Onwards(via, first), Convert(from, via, units))
  IN  Of(Through, Via(from, to))

\* What a string holds, decoded unit by unit.
Items(s) ==
  LET Step(t, k) ==
        LET Took(c) == [at |-> t.at + (IF c < 0 THEN 1 ELSE Len(Encode(s.encoding, c))), text |-> Append(t.text, <<c>>)]
        IN  IF t.at > Len(s.units) THEN t ELSE Of(Took, Decode(s.encoding, s.units, t.at))
  IN  Fold(Step, [at |-> 1, text |-> <<>>], Up(1, Len(s.units))).text
-----------------------------------------------------------------------------
Texts == UNION {[1..n -> CodePoints] : n \in 0..(MaxText - Len(Items(self)))}

After(from, units) ==
  Of(LAMBDA t : [self EXCEPT !.units = @ \o t.written, !.bad = IF t.fits THEN @ ELSE @ \cup {"room"}],
     Transcode(from, self.encoding, units))

Init ==
  /\ trait = "nothrow"
  /\ self \in [encoding : Unicode, units : {<<>>}, bad : {{}}]
  /\ call = NoCall

AppendText == \E from \in Unicode, text \in Texts :
  Did("insert", Len(Items(self)), 0, [k \in DOMAIN text |-> <<text[k]>>], TRUE,
      After(from, EncodeAll(from, text)))

\* Some text, and then what is not: nothing of it stays.
AppendMalformed == \E from \in Unicode : \E text \in {t \in Texts : Len(t) < MaxText}, units \in Malformed[from] :
  Did("insert", Len(Items(self)), 0, <<>>, TRUE, After(from, EncodeAll(from, text) \o units))

Clear == Did("extract", 0, 0, <<>>, TRUE, [self EXCEPT !.units = <<>>])

Next == AppendText \/ AppendMalformed \/ Clear

Spec == Init /\ [][Next]_vars
-----------------------------------------------------------------------------
\* A string is well-formed in its encoding, and was never written beyond its room.
Sound == self.bad = {} /\ \A item \in Range(Items(self)) : item[1] \in CodePoints
=============================================================================
