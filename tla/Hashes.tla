------------------------------- MODULE Hashes -------------------------------
(***************************************************************************)
(* The output streams that hash what is put into them (Streams/            *)
(* Md5OutputStream.cpp and six others): bytes are gathered in chunks, each *)
(* full chunk updates the registers.  A message may be put in any pieces,  *)
(* thrown away (Reset) or finished (Finalize), and the next one begins.    *)
(*                                                                         *)
(* The registers remember the words, or the bytes, that they were updated  *)
(* with: the rounds of the code are some function of these, and nothing    *)
(* here depends on which.                                                  *)
(***************************************************************************)
EXTENDS Container

CONSTANT ChunkSize     \* bytes in a chunk: 64, or 8 for those that are not padded

LengthSize == 2        \* bytes of the number of bits at the end, 8 in the code
Limit == ChunkSize - LengthSize
Marker == <<128>>
Zeros(n) == [k \in 1..n |-> <<0>>]

\* Words have two bytes here, four in the code.
LoadLe(b) == b[1][1] + 256 * b[2][1]
LoadBe(b) == 256 * b[1][1] + b[2][1]
StoreLe(w) == <<<<w % 256>>, <<w \div 256>>>>
StoreBe(w) == <<<<w \div 256>>, <<w % 256>>>>

Words(chunk, Load(_)) == [k \in 1..(ChunkSize \div 2) |-> Load(SubSeq(chunk, 2 * k - 1, 2 * k))]

Classes == {"md5", "sha1", "sha256", "crc32", "crc64", "fnv1a32", "fnv1a64"}

New == [class |-> "md5", offset |-> -1, chunk |-> Zeros(ChunkSize), reg |-> <<>>, total |-> 0]

Md5Update(h, chunk) == [h EXCEPT !.reg = @ \o Words(chunk, LoadLe)]

Sha1Update(h, chunk) == [h EXCEPT !.reg = @ \o Words(chunk, LoadBe)]

\* As Sha1, with other rounds and on eight registers.
Sha256Update(h, chunk) == [h EXCEPT !.reg = @ \o Words(chunk, LoadBe)]

\* The chunk is loaded as one word, of which the lowest byte is taken first.
ByteUpdate(h, chunk) ==
  LET word == Fold(LAMBDA w, b : 256 * w + b[1], 0, Reverse(chunk))
  IN  [h EXCEPT !.reg = @ \o [k \in 1..ChunkSize |-> <<(word \div 256 ^ (k - 1)) % 256>>]]

Initialize(h) == [h EXCEPT !.reg = <<>>, !.total = 0]

\* The chunk with bytes written into it behind the first "at".
Written(chunk, at, bytes) == [k \in 1..ChunkSize |-> IF k - at \in DOMAIN bytes THEN bytes[k - at] ELSE chunk[k]]

\* Bytes that fill the chunk are copied into it, whole chunks are taken where they are.
Put(h, bytes, Update(_, _)) ==
  LET begun == IF h.offset < 0 THEN [Initialize(h) EXCEPT !.offset = 0] ELSE h
      avail == ChunkSize - begun.offset
      fills == Len(bytes) >= avail
      head  == IF fills /\ begun.offset # 0 THEN avail ELSE 0
      first == Written(begun.chunk, begun.offset, SubSeq(bytes, 1, head))
      full  == IF head = 0 THEN begun ELSE Update([begun EXCEPT !.chunk = first, !.offset = 0], first)
      whole == IF fills THEN (Len(bytes) - head) \div ChunkSize ELSE 0
      From(k) == head + k * ChunkSize
      taken == Fold(LAMBDA g, k : Update(g, SubSeq(bytes, From(k - 1) + 1, From(k))), full, Up(1, whole))
      tail  == SubSeq(bytes, From(whole) + 1, Len(bytes))
  IN  [taken EXCEPT !.chunk = Written(@, taken.offset, tail), !.offset = @ + Len(tail), !.total = @ + Len(bytes)]

\* A marker, zeros up to the limit, in another chunk if this one has not the room, and
\* the number of bits.
Pad(h, n, Update(_, _), Store(_)) ==
  LET marked == Written(h.chunk, n, <<Marker>>)
      over   == n + 1 > Limit
      filled == Written(marked, n + 1, Zeros(ChunkSize - n - 1))
      spilt  == IF over THEN Update(h, filled) ELSE h
      from   == IF over THEN 0 ELSE n + 1
      last   == Written(Written(IF over THEN filled ELSE marked, from, Zeros(Limit - from)), Limit, Store(h.total * 8))
  IN  [Update(spilt, last) EXCEPT !.chunk = last]

\* The bytes that are left in the chunk are taken one by one.
TakeRest(h, n) == [h EXCEPT !.reg = @ \o SubSeq(h.chunk, 1, n)]

\* A message is finished of which "offset" bytes are in the chunk; an empty one may not have begun.
Finalize(h, Finish(_, _)) ==
  [IF h.offset < 0 THEN Finish(Initialize(h), 0) ELSE Finish(h, h.offset) EXCEPT !.offset = -1]

\* What the registers were updated with; the padded ones store their digest word by word.
Absorbed(h) ==
  CASE h.class = "md5" -> Fold(LAMBDA bytes, w : bytes \o StoreLe(w), <<>>, h.reg)
    [] h.class \in {"sha1", "sha256"} -> Fold(LAMBDA bytes, w : bytes \o StoreBe(w), <<>>, h.reg)
    [] OTHER -> h.reg
-----------------------------------------------------------------------------
\* What has been put of a message that is not finished.
Items(h) == IF h.offset < 0 THEN <<>> ELSE Absorbed(h) \o SubSeq(h.chunk, 1, h.offset)

\* A message as the standards pad it: zeros as few as there can be.
Padded(message, Store(_)) ==
  LET zeros == CHOOSE n \in 0..(ChunkSize - 1) : (Len(message) + 1 + n) % ChunkSize = Limit % ChunkSize
  IN  Append(message, Marker) \o Zeros(zeros) \o Store(8 * Len(message))

\* The message that was hashed, or none if what was absorbed stands for none.
Hashed(h, message) ==
  LET expected == CASE h.class = "md5" -> Padded(message, StoreLe)
                    [] h.class \in {"sha1", "sha256"} -> Padded(message, StoreBe)
                    [] OTHER -> message
  IN  IF Absorbed(h) = expected THEN message ELSE <<Marker>>

\* Pieces of any size; the k-th byte of every message is k.
Pieces == LET n == Len(Items(self)) IN {[k \in 1..m |-> <<n + k>>] : m \in 0..(MaxSize - n)}

Stream(class, Update(_, _), Finish(_, _)) ==
  /\ self.class = class
  /\ \/ \E bytes \in Pieces : Did("insert", Len(Items(self)), 0, bytes, TRUE, Put(self, bytes, Update))
     \/ Did("extract", 0, 0, <<>>, TRUE, [self EXCEPT !.offset = -1])
     \/ \E h \in {Finalize(self, Finish)}, message \in {Items(self)} :
          Did("take", 0, Len(message), Hashed(h, message), TRUE, h)

Md5OutputStream == Stream("md5", Md5Update, LAMBDA h, n : Pad(h, n, Md5Update, StoreLe))
Sha1OutputStream == Stream("sha1", Sha1Update, LAMBDA h, n : Pad(h, n, Sha1Update, StoreBe))
Sha256OutputStream == Stream("sha256", Sha256Update, LAMBDA h, n : Pad(h, n, Sha256Update, StoreBe))
Crc32OutputStream == Stream("crc32", ByteUpdate, TakeRest)
Crc64OutputStream == Stream("crc64", ByteUpdate, TakeRest)
Fnv1a32OutputStream == Stream("fnv1a32", ByteUpdate, TakeRest)
Fnv1a64OutputStream == Stream("fnv1a64", ByteUpdate, TakeRest)

Init ==
  /\ trait = "nothrow"
  /\ self \in {[New EXCEPT !.class = c] : c \in Classes}
  /\ call = NoCall

Next ==
  \/ Md5OutputStream \/ Sha1OutputStream \/ Sha256OutputStream
  \/ Crc32OutputStream \/ Crc64OutputStream \/ Fnv1a32OutputStream \/ Fnv1a64OutputStream

Spec == Init /\ [][Next]_vars

\* The chunk is never full between calls, and what is not in it was taken in whole chunks.
Sound ==
  /\ self.offset \in -1..(ChunkSize - 1)
  /\ self.offset >= 0 => /\ Len(Absorbed(self)) % ChunkSize = 0
                         /\ self.total = Len(Items(self))
=============================================================================
