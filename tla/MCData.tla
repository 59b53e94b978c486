------------------------------- MODULE MCData -------------------------------
(***************************************************************************)
(* What keeps a sequence: each container, string, buffer, tree, hash,      *)
(* filter and allocator on its own.  The kind is chosen at first.          *)
(***************************************************************************)
EXTENDS Container

CONSTANTS Kinds,
          Capacity, Keys, MaxTag, Small, ChunkSize, MaxText

VARIABLE kind

MCElements == {<<1>>, <<2>>}

\* Searched for: patterns that overlap themselves, and others.
MCPatterns == {<<>>} \cup UNION {[1..n -> MCElements] : n \in 3..4}

\* The first and the last code points of each width in each encoding.
MCCodePoints == {0, 127, 128, 2047, 2048, 65535, 65536, 1114111}

\* Overlong, cut short, without a beginning, beyond Unicode, halves of pairs.
MCMalformed ==
  [e \in {"utf8", "utf16", "utf32", "cesu8", "modified"} |->
     CASE e = "utf8"  -> {<<128>>, <<194>>, <<194, 65>>, <<193, 129>>, <<192, 128>>, <<224, 159, 191>>,
                          <<226, 130>>, <<237, 160, 128>>, <<240, 143, 191, 191>>, <<240, 144, 128>>,
                          <<244, 144, 128, 128>>, <<248, 136, 128, 128, 128>>}
       [] e = "utf16" -> {<<55296>>, <<56320>>, <<55296, 65>>, <<56320, 55296>>}
       [] e = "utf32" -> {<<55296>>, <<57343>>, <<1114112>>}
       [] e = "cesu8" -> {<<128>>, <<194>>, <<192, 128>>, <<226, 130>>, <<240, 144, 128, 128>>,
                          <<237, 160, 128>>, <<237, 176, 128>>, <<237, 160, 128, 237, 160, 128>>,
                          <<237, 160, 128, 65, 65, 65>>, <<224, 159, 191>>}
       [] e = "modified" -> {<<0>>, <<192>>, <<192, 129>>, <<237, 160, 128>>, <<237, 160, 128, 237, 176>>}]

\* Thunks of one unit, of two, of all of a chunk and more, and sizes that overflow.
MCRequests == {0, 3, 6, 8, 29, 30, 31}

Vec  == INSTANCE Vector
Que  == INSTANCE CircularQueue
Sta  == INSTANCE StaticVector
Lis  == INSTANCE List WITH MaxSize <- 4
Flat == INSTANCE FlatContainers
Str  == INSTANCE String WITH Patterns <- MCPatterns
Enc  == INSTANCE Encodings WITH CodePoints <- MCCodePoints, Malformed <- MCMalformed
Buf  == INSTANCE StreamBuffer
Avl  == INSTANCE AvlTree WITH MaxSize <- 5
Hash == INSTANCE Hashes WITH MaxSize <- 9, ChunkSize <- 4
Fil  == INSTANCE Filters WITH MaxSize <- 4
Hea  == INSTANCE Heap WITH MaxSize <- 2, Places <- {1, 2, 3}, Width <- 8, Requests <- {1, 2, 7}
Thu  == INSTANCE Thunks WITH ChunkUnit <- 8, Space <- 16, Width <- 32, Requests <- MCRequests

MCInit ==
  /\ kind \in Kinds
  /\ \/ kind = "Vector" /\ Vec!Init
     \* An element type that never throws differs in nothing but the assignment that Vector shares.
     \/ kind = "CircularQueue" /\ Que!Init /\ trait # "nothrow"
     \/ kind = "StaticVector" /\ Sta!Init
     \/ kind = "List" /\ Lis!Init
     \/ kind = "Flat" /\ Flat!Init
     \/ kind = "String" /\ Str!Init
     \/ kind = "Text" /\ Enc!Init
     \/ kind = "Avl" /\ Avl!Init
     \/ kind = "Hash" /\ Hash!Init
     \/ kind = "Filter" /\ Fil!Init
     \/ kind = "Heap" /\ Hea!Init
     \/ kind = "Thunk" /\ Thu!Init
     \/ kind = "StreamBuffer" /\ Buf!Init

Keeps(k) == kind = k /\ UNCHANGED kind

MCNext ==
  \/ Keeps("Vector") /\ Vec!Next
  \/ Keeps("CircularQueue") /\ Que!Next
  \/ Keeps("StaticVector") /\ Sta!Next
  \/ Keeps("List") /\ Lis!Next
  \/ Keeps("Flat") /\ Flat!Next
  \/ Keeps("String") /\ Str!Next
  \/ Keeps("Text") /\ Enc!Next
  \/ Keeps("Avl") /\ Avl!Next
  \/ Keeps("Hash") /\ Hash!Next
  \/ Keeps("Filter") /\ Fil!Next
  \/ Keeps("Heap") /\ Hea!Next
  \/ Keeps("Thunk") /\ Thu!Next
  \/ Keeps("StreamBuffer") /\ Buf!Next

MCSpec == MCInit /\ [][MCNext]_<<vars, kind>>

\* Every container keeps its slots in order: exactly those that its bounds or links
\* name hold an element, in whatever call something throws, none is constructed twice,
\* destroyed twice or leaked, enumerating it forwards and backwards visits the same
\* elements, and the flat containers stay sorted, with equal keys in the order they
\* came, so that the look-ups find what is there.  Strings and chunks of bytes stay
\* within their storage, lists of chunks can be followed both ways, and the text in a
\* string is well-formed in its encoding.  The tree is ordered, balanced and threaded
\* through its parents; a hash has counted what is in its chunk; a filter buffers no more
\* than it may.  Thunks tile their chunks with no two free neighbours, and nothing that
\* was freed is leaked; the guards of a heap block are valid exactly if it was not
\* overrun, and the blocks on record are those that are allocated.
ContainersSound ==
  CASE kind = "Vector" -> Vec!Sound
    [] kind = "CircularQueue" -> Que!Sound
    [] kind = "StaticVector" -> Sta!Sound
    [] kind = "List" -> Lis!Sound
    [] kind = "Flat" -> Flat!Sound
    [] kind = "String" -> Str!Sound
    [] kind = "Text" -> Enc!Sound
    [] kind = "Avl" -> Avl!Sound
    [] kind = "Hash" -> Hash!Sound
    [] kind = "Filter" -> Fil!Sound
    [] kind = "Heap" -> Hea!Sound
    [] kind = "Thunk" -> Thu!Sound
    [] kind = "StreamBuffer" -> Buf!Sound

MCItems ==
  CASE kind = "Vector" -> Vec!Items(self)
    [] kind = "CircularQueue" -> Que!Items(self)
    [] kind = "StaticVector" -> Sta!Items(self)
    [] kind = "List" -> Lis!Items(self)
    [] kind = "Flat" -> Flat!Items(self)
    [] kind = "String" -> Str!Items(self)
    [] kind = "Text" -> Enc!Items(self)
    [] kind = "Avl" -> Avl!Items(self)
    [] kind = "Hash" -> Hash!Items(self)
    [] kind = "Filter" -> Fil!Items(self)
    [] kind = "Heap" -> Hea!Items(self)
    [] kind = "Thunk" -> Thu!Items(self)
    [] kind = "StreamBuffer" -> Buf!Items(self)

Abstract == INSTANCE AbstractSequence WITH items <- MCItems

\* Every call on every container, string and buffer changes the sequence of elements
\* as its name says, and a call that throws leaves the sequence as it was: what was
\* moved aside for an insertion comes back, what was added before the exception is
\* taken out again, and nothing is left of text that turns out to be malformed.  Bytes
\* go through buffers and filters in order and once, whatever a device refuses; the
\* digest is that of the message and its padding, wherever the calls cut the message;
\* blocks of the heap and thunks keep their content when they are moved or others are.
ImplementsSequence == Abstract!Spec

\* The search for a string, which falls back by a table after a mismatch, finds the
\* first place at which it occurs, or the last, and comparing strings is an order.
SearchFinds == kind = "String" => Str!Finds(Str!Items(self)) /\ Str!Compares(Str!Items(self))

\* States that differ in the last call only are alike to every step and property.
WithoutCall == <<kind, trait, self>>
=============================================================================
