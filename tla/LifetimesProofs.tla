--------------------------- MODULE LifetimesProofs ---------------------------
(***************************************************************************)
(* Proofs about exit callbacks, the storage of a thread, shared objects    *)
(* and the standard streams, for any number of callbacks, objects, keys,   *)
(* threads and calls.                                                      *)
(***************************************************************************)
EXTENDS MCLifetimes, Totals, SequenceTheorems, FiniteSetTheorems, WellFoundedInduction, TLAPS

---------------------------------------------------------------
(* Sequences                                                                *)

\* A sequence that is not empty is what Front and Last take it apart to.
LEMMA FrontLast ==
  ASSUME NEW S, NEW s \in Seq(S), s # <<>>
  PROVE  /\ Len(s) > 0
         /\ Front(s) \in Seq(S) /\ Len(Front(s)) = Len(s) - 1
         /\ \A n \in 1..(Len(s) - 1) : Front(s)[n] = s[n]
         /\ Last(s) = s[Len(s)] /\ Last(s) \in S
<1>1. Len(s) \in Nat /\ Len(s) > 0 /\ \A n \in 1..Len(s) : s[n] \in S
  OBVIOUS
<1>2. PICK z \in Nat : z = Len(s) - 1
  BY <1>1
<1>3. \A n \in 1..z : s[n] \in S
  BY <1>1, <1>2
<1>4. /\ SubSeq(s, 1, z) \in Seq(S)
      /\ Len(SubSeq(s, 1, z)) = IF 1 <= z THEN z - 1 + 1 ELSE 0
      /\ \A n \in 1..(z - 1 + 1) : SubSeq(s, 1, z)[n] = s[1 + n - 1]
  BY <1>3, SubSeqProperties
<1>5. Front(s) = SubSeq(s, 1, z) /\ Last(s) = s[Len(s)]
  BY <1>2 DEF Front, Last
<1>6. QED
  BY <1>1, <1>2, <1>4, <1>5

\* So are Head and Tail.
LEMMA HeadTail ==
  ASSUME NEW S, NEW s \in Seq(S), s # <<>>
  PROVE  /\ Len(s) > 0
         /\ Tail(s) \in Seq(S) /\ Len(Tail(s)) = Len(s) - 1
         /\ \A n \in 1..(Len(s) - 1) : Tail(s)[n] = s[n + 1]
         /\ Head(s) = s[1] /\ Head(s) \in S
  OBVIOUS

\* An element in front moves the others up by one.
LEMMA InFront ==
  ASSUME NEW S, NEW s \in Seq(S), NEW x \in S
  PROVE  /\ <<x>> \o s \in Seq(S) /\ Len(<<x>> \o s) = Len(s) + 1
         /\ (<<x>> \o s)[1] = x
         /\ \A n \in 1..Len(s) : (<<x>> \o s)[n + 1] = s[n]
         /\ \A n \in 2..(Len(s) + 1) : (<<x>> \o s)[n] = s[n - 1]
  OBVIOUS


\* A sequence is increasing.
Increasing(s) == \A m, n \in DOMAIN s : m < n => s[m] < s[n]

\* Something larger at the end of a sequence.
LEMMA AppendIs ==
  ASSUME NEW S \in SUBSET Nat, NEW s \in Seq(S), NEW x \in S
  PROVE  /\ Append(s, x) \in Seq(S) /\ Len(Append(s, x)) = Len(s) + 1
         /\ ToSet(Append(s, x)) = ToSet(s) \cup {x}
         /\ Increasing(s) /\ (\A y \in ToSet(s) : y < x) => Increasing(Append(s, x))
<1>1. /\ Append(s, x) \in Seq(S) /\ Len(Append(s, x)) = Len(s) + 1 /\ Len(s) \in Nat
      /\ Append(s, x)[Len(s) + 1] = x
      /\ \A n \in 1..Len(s) : Append(s, x)[n] = s[n] /\ s[n] \in S
  OBVIOUS
<1>2. DOMAIN s = 1..Len(s) /\ DOMAIN Append(s, x) = 1..(Len(s) + 1)
  BY <1>1
<1>3. ToSet(Append(s, x)) = ToSet(s) \cup {x}
  BY <1>1, <1>2 DEF ToSet
<1>4. ASSUME Increasing(s), \A y \in ToSet(s) : y < x PROVE Increasing(Append(s, x))
  <2>1. \A n \in 1..Len(s) : s[n] < x
    BY <1>2, <1>4 DEF ToSet
  <2>2. \A m, n \in 1..Len(s) : m < n => s[m] < s[n]
    BY <1>2, <1>4 DEF Increasing
  <2>3. QED
    BY <1>1, <1>2, <2>1, <2>2 DEF Increasing
<1>5. QED
  BY <1>1, <1>3, <1>4

\* The last of a sequence taken away.
LEMMA FrontIs ==
  ASSUME NEW S \in SUBSET Nat, NEW s \in Seq(S), s # <<>>
  PROVE  /\ Front(s) \in Seq(S) /\ Len(Front(s)) = Len(s) - 1 /\ Len(s) > 0
         /\ Last(s) \in S
         /\ ToSet(s) = ToSet(Front(s)) \cup {Last(s)}
         /\ Increasing(s) => Increasing(Front(s)) /\ \A y \in ToSet(Front(s)) : y < Last(s)
<1>1. /\ Len(s) > 0 /\ Len(s) \in Nat
      /\ Front(s) \in Seq(S) /\ Len(Front(s)) = Len(s) - 1
      /\ \A n \in 1..(Len(s) - 1) : Front(s)[n] = s[n]
      /\ Last(s) = s[Len(s)] /\ Last(s) \in S
  BY FrontLast
<1>2. DOMAIN s = 1..Len(s) /\ DOMAIN Front(s) = 1..(Len(s) - 1)
  BY <1>1
<1>3. ToSet(s) = ToSet(Front(s)) \cup {Last(s)}
  BY <1>1, <1>2 DEF ToSet
<1>4. ASSUME Increasing(s) PROVE Increasing(Front(s)) /\ \A y \in ToSet(Front(s)) : y < Last(s)
  <2>1. \A m, n \in 1..Len(s) : m < n => s[m] < s[n]
    BY <1>2, <1>4 DEF Increasing
  <2>2. QED
    BY <1>1, <1>2, <2>1 DEF Increasing, ToSet
<1>5. QED
  BY <1>1, <1>3, <1>4

---------------------------------------------------------------
(* Exit callbacks                                                           *)

CallsOf(x) == ToSet(x.calls)
Gathered(s) == UNION {CallsOf(s[n]) : n \in DOMAIN s}

\* The callbacks that wait in the list, those in the hands of the pump, and those
\* that ran.
Waiting == Gathered(list)
Hand    == CallsOf(block)
Ran     == ToSet(ran)

\* d goes after c, or with the blocks that were there after c's was taken.
Later(c, d) == d < c \/ d > newest[c]

\* What was taken was taken when it had entered.
Taken(c) == c <= newest[c] /\ newest[c] <= added

\* The list is as old as it is deep.
Sorted ==
  /\ \A c \in Waiting : c <= added
  /\ \A k \in DOMAIN list : Increasing(list[k].calls)
  /\ \A j, k \in DOMAIN list :
       j < k => \A c \in CallsOf(list[j]), d \in CallsOf(list[k]) : c > d

\* So is the block in the hands of the pump, to which nothing is added.
HandSorted ==
  /\ \A c \in Hand : Taken(c)
  /\ Increasing(block.calls)
  /\ \A c \in Hand, d \in Waiting : Later(c, d)

\* What ran went before what is waiting.
RanFirst ==
  /\ \A c \in Ran : Taken(c)
  /\ \A m, n \in DOMAIN ran : m < n => Later(ran[m], ran[n])
  /\ \A c \in Ran, d \in Hand \cup Waiting : Later(c, d)

\* Nothing is lost before the end, or until then forgotten in a block.
NoneLost ==
  /\ exiting = NoOne => phase \in {"up", "over"}
  /\ exiting # NoOne => phase # "up"
  /\ phase \notin {"run", "call"} => block = NoBlock
  /\ phase = "over" => list = <<>>
  /\ exiting # NoOne \/ phase # "over" => 1..added \subseteq Ran \cup Hand \cup Waiting

\* The inductive invariant.
ExitInv == Safety /\ Sorted /\ HandSorted /\ RanFirst /\ NoneLost

\* How many blocks of a kind a list has is a number.
LEMMA CountType ==
  ASSUME NEW s \in Seq(Block), NEW kind \in BOOLEAN
  PROVE  IsFiniteSet({n \in DOMAIN s : s[n].spare = kind}) /\ Count(s, kind) \in Nat
<1>1. IsFiniteSet(1..Len(s)) /\ {n \in DOMAIN s : s[n].spare = kind} \subseteq 1..Len(s)
  BY FS_Interval
<1>2. QED
  BY <1>1, FS_Subset, FS_CardinalityType DEF Count

\* A block in front is one more of its kind.
LEMMA CountInFront ==
  ASSUME NEW s \in Seq(Block), NEW x \in Block, NEW kind \in BOOLEAN
  PROVE  /\ x.spare = kind => Count(<<x>> \o s, kind) = Count(s, kind) + 1
         /\ x.spare # kind => Count(<<x>> \o s, kind) = Count(s, kind)
<1> DEFINE old    == {n \in DOMAIN s : s[n].spare = kind}
           new    == {n \in DOMAIN (<<x>> \o s) : (<<x>> \o s)[n].spare = kind}
           raised == {n + 1 : n \in old}
           f      == [n \in old |-> n + 1]
<1>1. IsFiniteSet(old) /\ Cardinality(old) = Count(s, kind) /\ Count(s, kind) \in Nat
  BY CountType DEF Count
<1>2. ExistsBijection(old, raised)
  <2>1. \A n \in old : n \in Nat
    OBVIOUS
  <2>2. f \in Bijection(old, raised)
    BY <2>1 DEF Bijection, Injection, IsInjective, Surjection
  <2>3. QED
    BY <2>2 DEF ExistsBijection
<1>3. IsFiniteSet(raised) /\ Cardinality(raised) = Count(s, kind)
  BY <1>1, <1>2, FS_Bijection
<1>4. new = IF x.spare = kind THEN raised \cup {1} ELSE raised
  BY InFront
<1>5. 1 \notin raised
  OBVIOUS
<1>6. Cardinality(raised \cup {1}) = Cardinality(raised) + 1
  BY <1>3, <1>5, FS_AddElement
<1>7. Count(<<x>> \o s, kind) = Cardinality(new)
  BY DEF Count
<1> HIDE DEF new, raised, old
<1>8. QED
  BY <1>1, <1>3, <1>4, <1>6, <1>7

\* The list, with and without the block in the hands of the pump.
LEMMA CountWithHand ==
  ASSUME NEW s \in Seq(Block), NEW x \in Block, NEW inHand \in BOOLEAN, NEW kind \in BOOLEAN
  PROVE  Count(IF inHand THEN <<x>> \o s ELSE s, kind)
           = Count(s, kind) + (IF inHand /\ x.spare = kind THEN 1 ELSE 0)
<1>1. Count(s, kind) \in Nat
  BY CountType
<1>2. /\ x.spare = kind => Count(<<x>> \o s, kind) = Count(s, kind) + 1
      /\ x.spare # kind => Count(<<x>> \o s, kind) = Count(s, kind)
  BY CountInFront
<1>3. QED
  BY <1>1, <1>2

Spares == Count(list, TRUE)
OtherBlocks == Count(list, FALSE)
Pushing == {t \in Threads : pc[t] = "push"}
Pushers == Cardinality(Pushing)

SpareInHand == IF phase \in {"run", "call"} /\ block.spare THEN 1 ELSE 0
OtherInHand == IF phase \in {"run", "call"} /\ ~block.spare THEN 1 ELSE 0

\* The account of the blocks, by kinds and places.
LEMMA AccountsNow ==
  ASSUME TypeOK
  PROVE  /\ BlocksAccounted <=> /\ spareInUse => Spares + SpareInHand = 1
                                /\ ~spareInUse => Spares + SpareInHand = 0
                                /\ allocated = OtherBlocks + OtherInHand + Pushers
         /\ Spares \in Nat /\ OtherBlocks \in Nat /\ SpareInHand \in Nat /\ OtherInHand \in Nat
         /\ Pushers \in Nat /\ IsFiniteSet(Pushing)
<1>1. list \in Seq(Block) /\ block \in Block /\ block.spare \in BOOLEAN /\ spareInUse \in BOOLEAN
  BY DEF TypeOK, Block
<1>2. /\ Count(Held, TRUE) = Spares + SpareInHand
      /\ Count(Held, FALSE) = OtherBlocks + OtherInHand
  BY <1>1, CountWithHand DEF Held, SpareInHand, OtherInHand, Spares, OtherBlocks
<1>3. IsFiniteSet(Pushing) /\ Pushers \in Nat
  BY LifetimesAssumption, FS_Subset, FS_CardinalityType DEF Pushing, Pushers
<1>4. Spares \in Nat /\ OtherBlocks \in Nat /\ SpareInHand \in Nat /\ OtherInHand \in Nat
  BY <1>1, CountType DEF Spares, OtherBlocks, SpareInHand, OtherInHand
<1>5. BlocksAccounted <=> /\ Count(Held, TRUE) = IF spareInUse THEN 1 ELSE 0
                          /\ allocated = Count(Held, FALSE) + Pushers
  BY DEF BlocksAccounted, Pushing, Pushers
<1> HIDE DEF Spares, OtherBlocks, Pushers, SpareInHand, OtherInHand
<1>6. BlocksAccounted <=> /\ Spares + SpareInHand = IF spareInUse THEN 1 ELSE 0
                          /\ allocated = OtherBlocks + OtherInHand + Pushers
  BY <1>2, <1>5
<1>7. QED
  BY <1>1, <1>3, <1>4, <1>6

\* The account after a step.
LEMMA AccountsThen ==
  ASSUME TypeOK'
  PROVE  /\ BlocksAccounted' <=> /\ spareInUse' => Spares' + SpareInHand' = 1
                                 /\ ~spareInUse' => Spares' + SpareInHand' = 0
                                 /\ allocated' = OtherBlocks' + OtherInHand' + Pushers'
         /\ Spares' \in Nat /\ OtherBlocks' \in Nat /\ SpareInHand' \in Nat /\ OtherInHand' \in Nat
         /\ Pushers' \in Nat
<1>1. /\ list' \in Seq(Block) /\ block' \in Block /\ block'.spare \in BOOLEAN
      /\ spareInUse' \in BOOLEAN
  BY DEF TypeOK, Block
<1>2. /\ Count(Held', TRUE) = Spares' + SpareInHand'
      /\ Count(Held', FALSE) = OtherBlocks' + OtherInHand'
  BY <1>1, CountWithHand DEF Held, SpareInHand, OtherInHand, Spares, OtherBlocks
<1>3. Pushers' \in Nat
  BY LifetimesAssumption, FS_Subset, FS_CardinalityType DEF Pushing, Pushers
<1>4. Spares' \in Nat /\ OtherBlocks' \in Nat /\ SpareInHand' \in Nat /\ OtherInHand' \in Nat
  BY <1>1, CountType DEF Spares, OtherBlocks, SpareInHand, OtherInHand
<1>5. BlocksAccounted' <=> /\ Count(Held', TRUE) = IF spareInUse' THEN 1 ELSE 0
                           /\ allocated' = Count(Held', FALSE) + Pushers'
  BY DEF BlocksAccounted, Pushing, Pushers
<1> HIDE DEF Spares, OtherBlocks, Pushers, SpareInHand, OtherInHand
<1>6. BlocksAccounted' <=> /\ Spares' + SpareInHand' = IF spareInUse' THEN 1 ELSE 0
                           /\ allocated' = OtherBlocks' + OtherInHand' + Pushers'
  BY <1>2, <1>5
<1>7. QED
  BY <1>1, <1>3, <1>4, <1>6

\* The callbacks of a block are of their type.
LEMMA BlockIs ==
  ASSUME NEW x \in Block
  PROVE  /\ x.spare \in BOOLEAN /\ x.calls \in Seq(Callbacks) /\ Len(x.calls) <= BlockSize
         /\ CallsOf(x) \in SUBSET Callbacks /\ Callbacks \in SUBSET Nat
<1>1. x.spare \in BOOLEAN /\ x.calls \in Seq(Callbacks) /\ Len(x.calls) <= BlockSize
  BY DEF Block
<1>2. \A n \in DOMAIN x.calls : x.calls[n] \in Callbacks
  BY <1>1
<1>3. QED
  BY <1>1, <1>2 DEF CallsOf, Callbacks, ToSet

\* So are those of a list of blocks.
LEMMA GatheredType ==
  ASSUME NEW s \in Seq(Block)
  PROVE  Gathered(s) \in SUBSET Callbacks
  BY BlockIs DEF Gathered

\* A block in front adds its callbacks.
LEMMA GatheredInFront ==
  ASSUME NEW s \in Seq(Block), NEW x \in Block
  PROVE  Gathered(<<x>> \o s) = CallsOf(x) \cup Gathered(s)
<1> DEFINE r == <<x>> \o s
<1>1. /\ r \in Seq(Block) /\ Len(r) = Len(s) + 1 /\ Len(s) \in Nat
      /\ r[1] = x /\ \A n \in 1..Len(s) : r[n + 1] = s[n]
      /\ \A n \in 2..(Len(s) + 1) : r[n] = s[n - 1]
  BY InFront
<1> HIDE DEF r
<1>2. DOMAIN r = 1..(Len(s) + 1) /\ DOMAIN s = 1..Len(s)
  BY <1>1
<1>3. \A n \in 2..(Len(s) + 1) : n - 1 \in 1..Len(s)
  BY <1>1
<1>4. Gathered(r) \subseteq CallsOf(x) \cup Gathered(s)
  BY <1>1, <1>2, <1>3 DEF Gathered
<1>5. CallsOf(x) \cup Gathered(s) \subseteq Gathered(r)
  <2>1. \A n \in 1..Len(s) : n + 1 \in DOMAIN r /\ 1 \in DOMAIN r
    BY <1>1, <1>2
  <2>2. 1 \in DOMAIN r
    BY <1>1, <1>2
  <2>3. QED
    BY <1>1, <1>2, <2>1, <2>2 DEF Gathered
<1>6. QED
  BY <1>4, <1>5 DEF r

\* A callback more in the top block.
LEMMA AddsToTop ==
  ASSUME TypeOK, NEW t \in Threads, Add(t)
  PROVE  /\ added < MaxCallbacks /\ added' = added + 1
         /\ list' \in Seq(Block) /\ Len(list') = Len(list) /\ Len(list) > 0
         /\ list'[1].spare = list[1].spare
         /\ CallsOf(list'[1]) = CallsOf(list[1]) \cup {added + 1}
         /\ \A k \in 2..Len(list) : list'[k] = list[k]
         /\ Waiting' = Waiting \cup {added + 1}
         /\ Increasing(list[1].calls) /\ (\A c \in CallsOf(list[1]) : c <= added)
              => Increasing(list'[1].calls)
<1>1. added \in Nat /\ added < MaxCallbacks /\ added' = added + 1 /\ added' \in Callbacks
  BY BlockAssumption DEF TypeOK, Callbacks, Add, Enter
<1>2. /\ list \in Seq(Block) /\ Len(list) > 0 /\ list[1] \in Block
      /\ Len(list[1].calls) < BlockSize /\ Len(list) \in Nat
  <2>1. list \in Seq(Block) /\ list # <<>> /\ Len(list[1].calls) < BlockSize
    BY DEF TypeOK, Add, HasRoom
  <2>2. QED
    BY <2>1
<1>3. /\ list[1].spare \in BOOLEAN /\ list[1].calls \in Seq(Callbacks)
      /\ CallsOf(list[1]) \in SUBSET Callbacks /\ Callbacks \in SUBSET Nat
  BY <1>2, BlockIs
<1> DEFINE longer == Append(list[1].calls, added')
           top == [list[1] EXCEPT !.calls = longer]
<1>4. list' = [list EXCEPT ![1] = top]
  BY DEF Add
<1>5. /\ longer \in Seq(Callbacks) /\ Len(longer) = Len(list[1].calls) + 1
      /\ ToSet(longer) = CallsOf(list[1]) \cup {added'}
      /\ Increasing(list[1].calls) /\ (\A c \in CallsOf(list[1]) : c < added')
           => Increasing(longer)
  BY <1>1, <1>3, AppendIs DEF CallsOf
<1>6. Len(longer) <= BlockSize
  BY <1>2, <1>3, <1>5, BlockAssumption
<1> HIDE DEF longer
<1>7. top \in Block /\ top.spare = list[1].spare /\ top.calls = longer
  BY <1>2, <1>3, <1>5, <1>6 DEF Block
<1> HIDE DEF top
<1>8. /\ list' \in Seq(Block) /\ Len(list') = Len(list) /\ list'[1] = top
      /\ \A k \in 2..Len(list) : list'[k] = list[k]
  BY <1>2, <1>4, <1>7, ExceptSeq
<1>9. CallsOf(list'[1]) = CallsOf(list[1]) \cup {added + 1}
  BY <1>1, <1>5, <1>7, <1>8 DEF CallsOf
<1>10. Gathered(list') = Gathered(list) \cup {added + 1}
  <2>1. DOMAIN list' = 1..Len(list) /\ DOMAIN list = 1..Len(list) /\ 1 \in 1..Len(list)
    BY <1>2, <1>8
  <2>2. \A n \in 1..Len(list) : CallsOf(list'[n]) = CallsOf(list[n]) \cup IF n = 1 THEN {added + 1} ELSE {}
    BY <1>2, <1>8, <1>9
  <2>3. QED
    BY <2>1, <2>2 DEF Gathered
<1>11. ASSUME \A c \in CallsOf(list[1]) : c <= added
       PROVE  \A c \in CallsOf(list[1]) : c < added'
  <2>1. \A c \in CallsOf(list[1]) : c \in Nat
    BY <1>3
  <2>2. QED
    BY <1>1, <1>11, <2>1
<1>12. QED
  BY <1>1, <1>2, <1>5, <1>7, <1>8, <1>9, <1>10, <1>11 DEF Waiting

\* A block more on top of the list.
LEMMA PushesBlock ==
  ASSUME TypeOK, NEW spare \in BOOLEAN, Enter, PushBlock(spare)
  PROVE  /\ added < MaxCallbacks /\ added' = added + 1
         /\ [spare |-> spare, calls |-> <<added + 1>>] \in Block
         /\ list' = <<[spare |-> spare, calls |-> <<added + 1>>]>> \o list
         /\ list' \in Seq(Block) /\ Len(list') = Len(list) + 1
         /\ Increasing(list'[1].calls) /\ CallsOf(list'[1]) = {added + 1}
         /\ \A k \in 2..Len(list') : list'[k] = list[k - 1]
         /\ Waiting' = Waiting \cup {added + 1}
<1> DEFINE top == [spare |-> spare, calls |-> <<added + 1>>]
<1>1. added < MaxCallbacks /\ added' = added + 1 /\ list \in Seq(Block) /\ added + 1 \in Callbacks
  BY BlockAssumption DEF TypeOK, Callbacks, Enter
<1>2. top \in Block
  <2>1. <<added + 1>> \in Seq(Callbacks) /\ Len(<<added + 1>>) = 1
    BY <1>1
  <2>2. QED
    BY <2>1, BlockAssumption DEF Block
<1>3. list' = <<top>> \o list
  BY <1>1 DEF PushBlock
<1>4. CallsOf(top) = {added + 1} /\ Increasing(top.calls)
  <2>1. DOMAIN <<added + 1>> = {1} /\ <<added + 1>>[1] = added + 1
    OBVIOUS
  <2>2. QED
    BY <2>1 DEF CallsOf, ToSet, Increasing
<1> HIDE DEF top
<1>5. /\ list' \in Seq(Block) /\ Len(list') = Len(list) + 1 /\ list'[1] = top
      /\ \A k \in 2..Len(list') : list'[k] = list[k - 1]
  BY <1>1, <1>2, <1>3, InFront
<1>6. Gathered(list') = {added + 1} \cup Gathered(list)
  BY <1>1, <1>2, <1>3, <1>4, GatheredInFront
<1>7. QED
  BY <1>1, <1>2, <1>3, <1>4, <1>5, <1>6 DEF Waiting, top

\* What the pump takes is the top block.
LEMMA TakesTop ==
  ASSUME TypeOK, TakeBlock
  PROVE  /\ Len(list) > 0 /\ Len(list) \in Nat /\ list[1] \in Block /\ block' = list[1]
         /\ list' \in Seq(Block) /\ Len(list') = Len(list) - 1
         /\ list = <<list[1]>> \o list'
         /\ \A k \in 1..(Len(list) - 1) : list'[k] = list[k + 1]
         /\ Waiting = Hand' \cup Waiting'
         /\ newest' \in [Callbacks -> 0..MaxCallbacks]
         /\ \A c \in Hand' : newest'[c] = added
         /\ \A c \in Callbacks \ Hand' : newest'[c] = newest[c]
<1>1. list \in Seq(Block) /\ list # <<>>
  BY DEF TypeOK, TakeBlock
<1>2. /\ Len(list) > 0 /\ Len(list) \in Nat /\ block' = list[1] /\ list[1] \in Block
      /\ list' \in Seq(Block) /\ Len(list') = Len(list) - 1
      /\ \A k \in 1..(Len(list) - 1) : list'[k] = list[k + 1]
  BY <1>1, HeadTail DEF TakeBlock
<1>3. list = <<list[1]>> \o list'
  BY <1>1, <1>2 DEF TakeBlock
<1>4. Gathered(list) = CallsOf(list[1]) \cup Gathered(list')
  BY <1>2, <1>3, GatheredInFront
<1>5. newest' = [c \in Callbacks |-> IF c \in Hand' THEN added ELSE newest[c]]
  BY DEF TakeBlock, Hand, CallsOf
<1>6. CallsOf(list[1]) \in SUBSET Callbacks
  BY <1>2, BlockIs
<1>7. Hand' = CallsOf(list[1])
  BY <1>2 DEF Hand
<1>8. QED
  BY <1>2, <1>3, <1>4, <1>5, <1>6, <1>7 DEF TypeOK, Waiting

\* What the pump runs is the last callback of its block.
LEMMA RunsLast ==
  ASSUME TypeOK, RunLast
  PROVE  \E last \in Callbacks :
           /\ block' \in Block /\ block'.spare = block.spare
           /\ ran' \in Seq(Callbacks) /\ Len(ran') = Len(ran) + 1
           /\ ran'[Len(ran) + 1] = last /\ \A n \in 1..Len(ran) : ran'[n] = ran[n]
           /\ Ran' = Ran \cup {last}
           /\ Hand = Hand' \cup {last}
           /\ Increasing(block.calls) => Increasing(block'.calls) /\ \A c \in Hand' : c < last
<1> DEFINE last == Last(block.calls)
<1>1. /\ block \in Block /\ block.calls \in Seq(Callbacks) /\ block.calls # <<>>
      /\ block.spare \in BOOLEAN /\ Callbacks \in SUBSET Nat /\ Len(block.calls) <= BlockSize
  BY BlockIs DEF TypeOK, RunLast
<1>2. /\ Front(block.calls) \in Seq(Callbacks)
      /\ Len(Front(block.calls)) = Len(block.calls) - 1 /\ Len(block.calls) > 0
      /\ last \in Callbacks
      /\ ToSet(block.calls) = ToSet(Front(block.calls)) \cup {last}
      /\ Increasing(block.calls)
           => Increasing(Front(block.calls)) /\ \A y \in ToSet(Front(block.calls)) : y < last
  BY <1>1, FrontIs
<1>3. Len(Front(block.calls)) <= BlockSize
  BY <1>1, <1>2, BlockAssumption
<1>4. /\ block'.calls = Front(block.calls) /\ block'.spare = block.spare /\ block' \in Block
  BY <1>1, <1>2, <1>3 DEF RunLast, Block
<1>5. ran' = Append(ran, last) /\ ran \in Seq(Callbacks)
  BY DEF TypeOK, RunLast
<1> HIDE DEF last
<1>6. ran' \in Seq(Callbacks) /\ Len(ran') = Len(ran) + 1 /\ ToSet(ran') = ToSet(ran) \cup {last}
  BY <1>1, <1>2, <1>5, AppendIs
<1>7. ran'[Len(ran) + 1] = last /\ \A n \in 1..Len(ran) : ran'[n] = ran[n]
  BY <1>2, <1>5
<1>8. Hand = Hand' \cup {last} /\ Hand' = ToSet(Front(block.calls))
  BY <1>2, <1>4 DEF Hand, CallsOf
<1>9. QED
  BY <1>2, <1>4, <1>6, <1>7, <1>8 DEF Ran

\* Where there is nothing no callback waits.
LEMMA NothingWaits ==
  /\ \A x : x.calls = <<>> => CallsOf(x) = {}
  /\ Gathered(<<>>) = {} /\ CallsOf(NoBlock) = {} /\ NoBlock \in Block
  /\ Increasing(NoBlock.calls)
<1>1. DOMAIN <<>> = {}
  OBVIOUS
<1>2. ToSet(<<>>) = {} /\ Gathered(<<>>) = {} /\ Increasing(<<>>)
  BY <1>1 DEF ToSet, Gathered, Increasing
<1>3. NoBlock.calls = <<>>
  BY DEF NoBlock
<1>4. NoBlock \in Block
  <2>1. <<>> \in Seq(Callbacks) /\ Len(<<>>) = 0
    OBVIOUS
  <2>2. QED
    BY <2>1, BlockAssumption DEF NoBlock, Block
<1>5. QED
  BY <1>2, <1>3, <1>4 DEF CallsOf

\* Blocks of the same kinds are as many.
LEMMA CountKept ==
  ASSUME NEW s \in Seq(Block), NEW r \in Seq(Block), NEW kind \in BOOLEAN,
         Len(r) = Len(s), \A n \in 1..Len(s) : r[n].spare = s[n].spare
  PROVE  Count(r, kind) = Count(s, kind)
<1>1. {n \in DOMAIN r : r[n].spare = kind} = {n \in DOMAIN s : s[n].spare = kind}
  OBVIOUS
<1>2. QED
  BY <1>1 DEF Count

\* There is nothing to count in an empty list.
LEMMA CountNothing == \A kind \in BOOLEAN : Count(<<>>, kind) = 0
<1>1. \A kind \in BOOLEAN : {n \in DOMAIN <<>> : <<>>[n].spare = kind} = {}
  OBVIOUS
<1>2. QED
  BY <1>1, FS_EmptySet DEF Count

\* What the proof of every step uses of the types.
LEMMA ExitTypes ==
  ASSUME TypeOK
  PROVE  /\ added \in Nat /\ added <= MaxCallbacks /\ list \in Seq(Block) /\ block \in Block
         /\ ran \in Seq(Callbacks) /\ Len(ran) \in Nat /\ DOMAIN ran = 1..Len(ran)
         /\ Len(list) \in Nat /\ DOMAIN list = 1..Len(list)
         /\ Callbacks \in SUBSET Nat
         /\ Waiting \in SUBSET Callbacks /\ Hand \in SUBSET Callbacks /\ Ran \in SUBSET Callbacks
         /\ \A k \in DOMAIN list : CallsOf(list[k]) \in SUBSET Waiting
         /\ \A c \in Waiting : c \in Nat /\ c \in Callbacks
         /\ \A n \in DOMAIN ran : ran[n] \in Ran
         /\ \A c \in Callbacks : newest[c] \in Nat
<1>1. /\ added \in Nat /\ added <= MaxCallbacks /\ list \in Seq(Block) /\ block \in Block
      /\ ran \in Seq(Callbacks) /\ newest \in [Callbacks -> 0..MaxCallbacks]
  BY BlockAssumption DEF TypeOK
<1>2. /\ Waiting \in SUBSET Callbacks /\ Hand \in SUBSET Callbacks /\ Callbacks \in SUBSET Nat
  BY <1>1, BlockIs, GatheredType DEF Waiting, Hand
<1>3. /\ Len(ran) \in Nat /\ DOMAIN ran = 1..Len(ran) /\ Len(list) \in Nat /\ DOMAIN list = 1..Len(list)
      /\ \A n \in DOMAIN ran : ran[n] \in Callbacks
  BY <1>1
<1>4. Ran \in SUBSET Callbacks /\ \A n \in DOMAIN ran : ran[n] \in Ran
  BY <1>3 DEF Ran, ToSet
<1>5. \A k \in DOMAIN list : CallsOf(list[k]) \in SUBSET Waiting
  BY DEF Waiting, Gathered
<1>6. \A c \in Callbacks : newest[c] \in Nat
  BY <1>1, BlockAssumption
<1>7. QED
  BY <1>1, <1>2, <1>3, <1>4, <1>5, <1>6

\* In the beginning there are no callbacks.
LEMMA ExitInitially == Init => ExitInv
<1> SUFFICES ASSUME Init PROVE ExitInv
  OBVIOUS
<1>1. TypeOK
  <2>1. NoBlock \in Block
    BY NothingWaits
  <2>2. newest \in [Callbacks -> 0..MaxCallbacks] /\ 0 \in 0..MaxCallbacks
    BY BlockAssumption DEF Callbacks, Init
  <2>3. list \in Seq(Block) /\ ran \in Seq(Callbacks)
    BY DEF Init
  <2>4. pc \in [Threads -> {"idle", "allocate", "push", "terminated"}]
    BY DEF Init
  <2>5. QED
    BY <2>1, <2>2, <2>3, <2>4 DEF Init, TypeOK
<1>2. BlocksAccounted
  <2>1. Pushing = {} /\ list = <<>> /\ spareInUse = FALSE /\ allocated = 0 /\ phase = "up"
    BY DEF Init, Pushing
  <2>2. Spares = 0 /\ OtherBlocks = 0 /\ Pushers = 0 /\ SpareInHand = 0 /\ OtherInHand = 0
    BY <2>1, CountNothing, FS_EmptySet DEF Spares, OtherBlocks, Pushers, SpareInHand,
       OtherInHand
  <2>3. QED
    BY <1>1, <2>1, <2>2, AccountsNow
<1>3. Waiting = {} /\ Hand = {} /\ Ran = {} /\ Increasing(block.calls)
  <2>1. list = <<>> /\ block = NoBlock /\ ran = <<>>
    BY DEF Init
  <2>2. ToSet(<<>>) = {}
    BY NothingWaits DEF CallsOf, NoBlock
  <2>3. QED
    BY <2>1, <2>2, NothingWaits DEF Waiting, Hand, Ran
<1>4. DOMAIN list = {} /\ DOMAIN ran = {}
  BY DEF Init
<1>5. Sorted /\ HandSorted /\ RanFirst
  BY <1>3, <1>4 DEF Sorted, HandSorted, RanFirst
<1>6. NoneLost
  BY BlockAssumption DEF Init, NoneLost
<1>7. QED
  BY <1>1, <1>2, <1>5, <1>6 DEF ExitInv, Safety

\* A callback that enters comes after what ran, and is the newest in the list.
LEMMA EntersBehind ==
  ASSUME RanFirst, Sorted, added \in Nat, added' = added + 1, Waiting' = Waiting \cup {added + 1},
         Hand' = Hand, Ran' = Ran, UNCHANGED <<ran, newest>>,
         \A c \in Ran : newest[c] \in Nat, \A c \in Waiting : c \in Nat
  PROVE  RanFirst' /\ \A c \in Waiting' : c <= added'
<1>1. \A c \in Ran : c <= newest[c] /\ newest[c] <= added
  BY DEF RanFirst, Taken
<1>2. \A c \in Ran' : Taken(c)'
  BY <1>1 DEF Taken
<1>3. \A m, n \in DOMAIN ran' : m < n => Later(ran[m], ran[n])'
  BY DEF RanFirst, Later
<1>4. ASSUME NEW c \in Ran', NEW d \in Hand' \cup Waiting' PROVE Later(c, d)'
  <2>1. CASE d \in Hand \cup Waiting
    BY <1>4, <2>1 DEF RanFirst, Later
  <2>2. CASE d = added + 1
    BY <1>1, <1>4, <2>2 DEF Later
  <2>3. QED
    BY <2>1, <2>2
<1>5. \A c \in Waiting' : c <= added'
  <2>1. \A c \in Waiting : c <= added
    BY DEF Sorted
  <2>2. QED
    BY <2>1
<1>6. QED
  BY <1>2, <1>3, <1>4, <1>5 DEF RanFirst

\* No step disturbs the invariant.
LEMMA ExitPreserved == ASSUME ExitInv, [Next]_vars PROVE ExitInv'
<1> USE DEF ExitInv, Safety
<1>1. /\ added \in Nat /\ added <= MaxCallbacks /\ list \in Seq(Block) /\ block \in Block
      /\ ran \in Seq(Callbacks) /\ Len(ran) \in Nat /\ DOMAIN ran = 1..Len(ran)
      /\ Len(list) \in Nat /\ DOMAIN list = 1..Len(list)
      /\ Callbacks \in SUBSET Nat
      /\ Waiting \in SUBSET Callbacks /\ Hand \in SUBSET Callbacks /\ Ran \in SUBSET Callbacks
      /\ \A k \in DOMAIN list : \A c \in CallsOf(list[k]) : c \in Waiting
      /\ \A c \in Waiting : c \in Nat /\ c \in Callbacks
      /\ \A n \in DOMAIN ran : ran[n] \in Ran
      /\ \A c \in Callbacks : newest[c] \in Nat
  BY ExitTypes
<1>2. ASSUME NEW t \in Threads, Add(t) PROVE ExitInv'
  <2>1. /\ added < MaxCallbacks /\ added' = added + 1
        /\ list' \in Seq(Block) /\ Len(list') = Len(list) /\ Len(list) > 0
        /\ list'[1].spare = list[1].spare
        /\ CallsOf(list'[1]) = CallsOf(list[1]) \cup {added + 1}
        /\ \A k \in 2..Len(list) : list'[k] = list[k]
        /\ Waiting' = Waiting \cup {added + 1}
        /\ Increasing(list[1].calls) /\ (\A c \in CallsOf(list[1]) : c <= added)
             => Increasing(list'[1].calls)
    BY <1>2, AddsToTop
  <2>2. /\ UNCHANGED <<spareInUse, allocated, pc, exiting, phase, block, ran, newest>>
        /\ phase # "over"
    BY <1>2 DEF Add, CanCall, pumping
  <2>3. Hand' = Hand /\ Ran' = Ran
    BY <2>2 DEF Hand, Ran
  <2>4. TypeOK'
    BY <2>1, <2>2, BlockAssumption DEF TypeOK
  <2>5. BlocksAccounted'
    <3>1. Spares' = Spares /\ OtherBlocks' = OtherBlocks
      <4>1. \A n \in 1..Len(list) : list'[n].spare = list[n].spare
        BY <1>1, <2>1
      <4>2. QED
        BY <1>1, <2>1, <4>1, CountKept DEF Spares, OtherBlocks
    <3>2. /\ Pushers' = Pushers /\ SpareInHand' = SpareInHand /\ OtherInHand' = OtherInHand
      BY <2>2 DEF SpareInHand, OtherInHand, Pushing, Pushers
    <3>3. QED
      BY <2>2, <3>1, <3>2, <2>4, AccountsNow, AccountsThen
  <2>5a. RanFirst' /\ \A c \in Waiting' : c <= added'
    <3>1. \A c \in Ran : newest[c] \in Nat
      BY <1>1
    <3>2. \A c \in Waiting : c \in Nat
      BY <1>1
    <3>3. QED
      BY <1>1, <2>1, <2>2, <2>3, <3>1, <3>2, EntersBehind
  <2>6. Sorted'
    <3>1. Increasing(list[1].calls) /\ \A c \in CallsOf(list[1]) : c <= added /\ c \in Nat
      <4>1. 1 \in DOMAIN list /\ \A c \in CallsOf(list[1]) : c \in Waiting
        BY <1>1, <2>1, SMTT(30)
      <4>2. QED
        BY <1>1, <4>1 DEF Sorted
    <3>2. \A k \in DOMAIN list' : Increasing(list'[k].calls)
      BY <2>1, <3>1 DEF Sorted
    <3>3. \A j, k \in DOMAIN list' :
            j < k => \A c \in CallsOf(list'[j]), d \in CallsOf(list'[k]) : c > d
      <4>1. SUFFICES ASSUME NEW j \in 1..Len(list), NEW k \in 2..Len(list), j < k,
                            NEW c \in CallsOf(list'[j]), NEW d \in CallsOf(list[k])
                     PROVE  c > d
        BY <1>1, <2>1
      <4>2. d \in Nat /\ d <= added
        <5>1. k \in DOMAIN list
          BY <1>1
        <5>2. d \in Waiting
          BY <1>1, <5>1
        <5>3. QED
          BY <1>1, <5>2 DEF Sorted
      <4>3. c \in CallsOf(list[j]) \/ c = added + 1
        BY <2>1
      <4>4. CASE c \in CallsOf(list[j])
        BY <1>1, <4>1, <4>4, SMTT(30) DEF Sorted
      <4>5. CASE c = added + 1
        BY <1>1, <4>2, <4>5
      <4>6. QED
        BY <4>3, <4>4, <4>5
    <3>4. \A c \in Waiting' : c <= added'
      BY <2>5a
    <3>5. QED
      BY <3>2, <3>3, <3>4 DEF Sorted
  <2>7. HandSorted'
    BY <1>1, <2>1, <2>2, <2>3 DEF HandSorted, Later, Taken
  <2>8. RanFirst'
    BY <2>5a
  <2>9. NoneLost'
    BY <1>1, <2>1, <2>2, <2>3 DEF NoneLost
  <2>10. QED
    BY <2>4, <2>5, <2>6, <2>7, <2>8, <2>9
<1>3. ASSUME NEW t \in Threads, UseSpare(t) PROVE ExitInv'
  <2>1. /\ added < MaxCallbacks /\ added' = added + 1
        /\ [spare |-> TRUE, calls |-> <<added + 1>>] \in Block
        /\ list' = <<[spare |-> TRUE, calls |-> <<added + 1>>]>> \o list
        /\ list' \in Seq(Block) /\ Len(list') = Len(list) + 1
        /\ Increasing(list'[1].calls) /\ CallsOf(list'[1]) = {added + 1}
        /\ \A k \in 2..Len(list') : list'[k] = list[k - 1]
        /\ Waiting' = Waiting \cup {added + 1}
    BY <1>3, PushesBlock DEF UseSpare
  <2>2. /\ UNCHANGED <<allocated, pc, exiting, phase, block, ran, newest>>
        /\ phase # "over" /\ ~spareInUse /\ spareInUse' = TRUE
    BY <1>3 DEF UseSpare, CanCall, pumping
  <2>3. Hand' = Hand /\ Ran' = Ran
    BY <2>2 DEF Hand, Ran
  <2>4. TypeOK'
    BY <2>1, <2>2, BlockAssumption DEF TypeOK
  <2>5. BlocksAccounted'
    <3>1. Spares' = Spares + 1 /\ OtherBlocks' = OtherBlocks
      <4>1. /\ Count(list', TRUE) = Count(list, TRUE) + 1
            /\ Count(list', FALSE) = Count(list, FALSE)
        BY <1>1, <2>1, CountInFront
      <4>2. QED
        BY <4>1 DEF Spares, OtherBlocks
    <3>2. Pushers' = Pushers /\ SpareInHand' = SpareInHand /\ OtherInHand' = OtherInHand
      BY <2>2 DEF SpareInHand, OtherInHand, Pushing, Pushers
    <3>3. QED
      BY <2>2, <3>1, <3>2, <2>4, AccountsNow, AccountsThen
  <2>5a. RanFirst' /\ \A c \in Waiting' : c <= added'
    <3>1. \A c \in Ran : newest[c] \in Nat
      BY <1>1
    <3>2. \A c \in Waiting : c \in Nat
      BY <1>1
    <3>3. QED
      BY <1>1, <2>1, <2>2, <2>3, <3>1, <3>2, EntersBehind
  <2>6. Sorted'
    <3>1. \A k \in 2..Len(list') : k - 1 \in 1..Len(list) /\ list'[k] = list[k - 1]
      BY <1>1, <2>1
    <3>2. \A k \in DOMAIN list' : Increasing(list'[k].calls)
      BY <2>1, <3>1 DEF Sorted
    <3>3. \A j, k \in DOMAIN list' :
            j < k => \A c \in CallsOf(list'[j]), d \in CallsOf(list'[k]) : c > d
      <4>0. /\ DOMAIN list' = 1..Len(list') /\ Len(list') \in Nat
            /\ \A k \in 2..Len(list') : list'[k] = list[k - 1]
        BY <2>1
      <4>1. SUFFICES ASSUME NEW j \in 1..Len(list'), NEW k \in 2..Len(list'), j < k,
                            NEW c \in CallsOf(list'[j]), NEW d \in CallsOf(list[k - 1])
                     PROVE  c > d
        BY <4>0
      <4>2. d \in Nat /\ d <= added
        BY <1>1, <3>1 DEF Sorted
      <4>3. CASE j = 1
        <5>1. c = added + 1
          BY <2>1, <4>3
        <5>2. QED
          BY <1>1, <4>2, <5>1
      <4>4. CASE j # 1
        <5>1. j \in 2..Len(list') /\ Len(list') = Len(list) + 1
          BY <1>1, <2>1, <4>4
        <5>2. j - 1 \in 1..Len(list) /\ k - 1 \in 1..Len(list) /\ j - 1 < k - 1 /\ list'[j] = list[j - 1]
          BY <3>1, <4>1, <5>1
        <5>3. QED
          BY <1>1, <5>2 DEF Sorted
      <4>5. QED
        BY <4>3, <4>4
    <3>4. \A c \in Waiting' : c <= added'
      BY <2>5a
    <3>5. QED
      BY <3>2, <3>3, <3>4 DEF Sorted
  <2>7. HandSorted'
    BY <1>1, <2>1, <2>2, <2>3 DEF HandSorted, Later, Taken
  <2>8. RanFirst'
    BY <2>5a
  <2>9. NoneLost'
    BY <1>1, <2>1, <2>2, <2>3 DEF NoneLost
  <2>10. QED
    BY <2>4, <2>5, <2>6, <2>7, <2>8, <2>9
<1>4. ASSUME NEW t \in Threads, NeedBlock(t) PROVE ExitInv'
  <2>1. /\ UNCHANGED <<list, spareInUse, allocated, added, exiting, phase, block, ran, newest>>
        /\ pc[t] = "idle" /\ pc' = [pc EXCEPT ![t] = "allocate"]
    BY <1>4 DEF NeedBlock, CanCall, Goto, pumping
  <2>2. Waiting' = Waiting /\ Hand' = Hand /\ Ran' = Ran
    BY <2>1 DEF Waiting, Hand, Ran
  <2>3. TypeOK'
    BY <2>1, <2>2 DEF TypeOK
  <2>4. BlocksAccounted'
    <3>1. Pushers' = Pushers
      <4>1. Pushing' = Pushing
        BY <2>1 DEF Pushing
      <4>2. QED
        BY <4>1 DEF Pushers
    <3>2. /\ Spares' = Spares /\ OtherBlocks' = OtherBlocks
          /\ SpareInHand' = SpareInHand /\ OtherInHand' = OtherInHand
      BY <2>1 DEF Spares, OtherBlocks, SpareInHand, OtherInHand
    <3>3. QED
      BY <2>1, <3>1, <3>2, <2>3, AccountsNow, AccountsThen
  <2>5. Sorted'
    BY <2>1, <2>2 DEF Sorted
  <2>6. HandSorted'
    BY <2>1, <2>2 DEF HandSorted, Later, Taken
  <2>7. RanFirst'
    BY <2>1, <2>2 DEF RanFirst, Later, Taken
  <2>8. NoneLost'
    BY <2>1, <2>2 DEF NoneLost
  <2>9. QED
    BY <2>3, <2>4, <2>5, <2>6, <2>7, <2>8
<1>5. ASSUME NEW t \in Threads, Allocate(t) PROVE ExitInv'
  <2>1. /\ UNCHANGED <<list, spareInUse, added, exiting, phase, block, ran, newest>>
        /\ pc[t] = "allocate"
    BY <1>5 DEF Allocate, pumping
  <2>2. Waiting' = Waiting /\ Hand' = Hand /\ Ran' = Ran
    BY <2>1 DEF Waiting, Hand, Ran
  <2>3. TypeOK'
    BY <1>5, <2>1, BlockAssumption DEF TypeOK, Allocate, Goto
  <2>4. BlocksAccounted'
    <3>1. /\ Spares' = Spares /\ OtherBlocks' = OtherBlocks
          /\ SpareInHand' = SpareInHand /\ OtherInHand' = OtherInHand
          /\ allocated \in Nat
      BY <2>1 DEF Spares, OtherBlocks, SpareInHand, OtherInHand, TypeOK
    <3>2. CASE pc' = [pc EXCEPT ![t] = "push"] /\ allocated' = allocated + 1
      <4>1. Pushing' = Pushing \cup {t} /\ t \notin Pushing
        BY <2>1, <3>2 DEF Pushing, TypeOK
      <4>2. Pushers' = Pushers + 1
        BY <4>1, AccountsNow, FS_AddElement DEF Pushers
      <4>3. QED
        BY <2>1, <3>1, <3>2, <4>2, <2>3, AccountsNow, AccountsThen
    <3>3. CASE pc' = [pc EXCEPT ![t] = "idle"] /\ UNCHANGED allocated
      <4>1. Pushing' = Pushing
        BY <2>1, <3>3 DEF Pushing
      <4>2. Pushers' = Pushers
        BY <4>1 DEF Pushers
      <4>3. QED
        BY <2>1, <3>1, <3>3, <4>2, <2>3, AccountsNow, AccountsThen
    <3>4. QED
      BY <1>5, <3>2, <3>3 DEF Allocate, Goto
  <2>5. Sorted'
    BY <2>1, <2>2 DEF Sorted
  <2>6. HandSorted'
    BY <2>1, <2>2 DEF HandSorted, Later, Taken
  <2>7. RanFirst'
    BY <2>1, <2>2 DEF RanFirst, Later, Taken
  <2>8. NoneLost'
    BY <2>1, <2>2 DEF NoneLost
  <2>9. QED
    BY <2>3, <2>4, <2>5, <2>6, <2>7, <2>8
<1>6. ASSUME NEW t \in Threads, Push(t) PROVE ExitInv'
  <2>1. /\ added < MaxCallbacks /\ added' = added + 1
        /\ [spare |-> FALSE, calls |-> <<added + 1>>] \in Block
        /\ list' = <<[spare |-> FALSE, calls |-> <<added + 1>>]>> \o list
        /\ list' \in Seq(Block) /\ Len(list') = Len(list) + 1
        /\ Increasing(list'[1].calls) /\ CallsOf(list'[1]) = {added + 1}
        /\ \A k \in 2..Len(list') : list'[k] = list[k - 1]
        /\ Waiting' = Waiting \cup {added + 1}
    BY <1>6, PushesBlock DEF Push
  <2>2. /\ UNCHANGED <<spareInUse, allocated, exiting, phase, block, ran, newest>>
        /\ phase # "over" /\ pc[t] = "push" /\ pc' = [pc EXCEPT ![t] = "idle"]
    BY <1>6 DEF Push, Goto, pumping
  <2>3. Hand' = Hand /\ Ran' = Ran
    BY <2>2 DEF Hand, Ran
  <2>4. TypeOK'
    BY <2>1, <2>2, BlockAssumption DEF TypeOK
  <2>5. BlocksAccounted'
    <3>1. Spares' = Spares /\ OtherBlocks' = OtherBlocks + 1
      <4>1. /\ Count(list', TRUE) = Count(list, TRUE)
            /\ Count(list', FALSE) = Count(list, FALSE) + 1
        BY <1>1, <2>1, CountInFront
      <4>2. QED
        BY <4>1 DEF Spares, OtherBlocks
    <3>2. Pushers' = Pushers - 1
      <4>1. Pushing' = Pushing \ {t} /\ t \in Pushing
        BY <2>2 DEF Pushing, TypeOK
      <4>2. QED
        BY <4>1, AccountsNow, FS_RemoveElement DEF Pushers
    <3>3. SpareInHand' = SpareInHand /\ OtherInHand' = OtherInHand
      BY <2>2 DEF SpareInHand, OtherInHand
    <3>4. QED
      BY <2>2, <3>1, <3>2, <3>3, <2>4, AccountsNow, AccountsThen
  <2>5a. RanFirst' /\ \A c \in Waiting' : c <= added'
    <3>1. \A c \in Ran : newest[c] \in Nat
      BY <1>1
    <3>2. \A c \in Waiting : c \in Nat
      BY <1>1
    <3>3. QED
      BY <1>1, <2>1, <2>2, <2>3, <3>1, <3>2, EntersBehind
  <2>6. Sorted'
    <3>1. DOMAIN list' = 1..Len(list')
      BY <2>1
    <3>2. \A k \in 2..Len(list') : k - 1 \in 1..Len(list) /\ list'[k] = list[k - 1]
      BY <1>1, <2>1
    <3>3. \A k \in DOMAIN list' : Increasing(list'[k].calls)
      <4>1. \A k \in DOMAIN list' : k = 1 \/ k \in 2..Len(list')
        BY <1>1, <2>1, <3>1
      <4>2. QED
        BY <2>1, <4>1 DEF Sorted
    <3>4. \A j, k \in DOMAIN list' :
            j < k => \A c \in CallsOf(list'[j]), d \in CallsOf(list'[k]) : c > d
      <4>1. SUFFICES ASSUME NEW j \in 1..Len(list'), NEW k \in 2..Len(list'), j < k,
                            NEW c \in CallsOf(list'[j]), NEW d \in CallsOf(list[k - 1])
                     PROVE  c > d
        BY <2>1
      <4>2. d \in Nat /\ d <= added
        BY <1>1, <3>2 DEF Sorted
      <4>3. CASE j = 1
        <5>1. c = added + 1
          BY <2>1, <4>3
        <5>2. QED
          BY <1>1, <4>2, <5>1
      <4>4. CASE j # 1
        <5>1. j \in 2..Len(list') /\ Len(list') = Len(list) + 1
          BY <1>1, <2>1, <4>4
        <5>2. j - 1 \in 1..Len(list) /\ k - 1 \in 1..Len(list) /\ j - 1 < k - 1 /\ list'[j] = list[j - 1]
          BY <3>2, <4>1, <5>1
        <5>3. QED
          BY <1>1, <5>2 DEF Sorted
      <4>5. QED
        BY <4>3, <4>4
    <3>5. \A c \in Waiting' : c <= added'
      BY <2>5a
    <3>6. QED
      BY <3>3, <3>4, <3>5 DEF Sorted
  <2>7. HandSorted'
    BY <1>1, <2>1, <2>2, <2>3 DEF HandSorted, Later, Taken
  <2>8. RanFirst'
    BY <2>5a
  <2>9. NoneLost'
    BY <1>1, <2>1, <2>2, <2>3 DEF NoneLost
  <2>10. QED
    BY <2>4, <2>5, <2>6, <2>7, <2>8, <2>9
<1>7. ASSUME NEW t \in Threads, QuickExit(t) PROVE ExitInv'
  <2>1. /\ UNCHANGED <<list, spareInUse, allocated, added, pc, block, ran, newest>>
        /\ exiting = NoOne /\ phase = "up" /\ exiting' = t /\ phase' = "pump"
    BY <1>7 DEF QuickExit, CanCall, registering, NoneLost
  <2>2. Waiting' = Waiting /\ Hand' = Hand /\ Ran' = Ran
    BY <2>1 DEF Waiting, Hand, Ran
  <2>3. TypeOK'
    BY <2>1, <2>2 DEF TypeOK
  <2>4. BlocksAccounted'
    BY <2>1, <2>3, AccountsNow, AccountsThen DEF Spares, OtherBlocks, SpareInHand,
       OtherInHand, Pushers, Pushing
  <2>5. Sorted'
    BY <2>1, <2>2 DEF Sorted
  <2>6. HandSorted'
    BY <2>1, <2>2 DEF HandSorted, Later, Taken
  <2>7. RanFirst'
    BY <2>1, <2>2 DEF RanFirst, Later, Taken
  <2>8. NoneLost'
    BY <2>1, <2>2, BlockAssumption DEF NoneLost
  <2>9. QED
    BY <2>3, <2>4, <2>5, <2>6, <2>7, <2>8
<1>8. ASSUME NEW t \in Threads, ExitAgain(t) PROVE ExitInv'
  <2>1. /\ UNCHANGED <<list, spareInUse, allocated, added, exiting, phase, block, ran, newest>>
        /\ pc[t] = "idle" /\ pc' = [pc EXCEPT ![t] = "terminated"]
    BY <1>8 DEF ExitAgain, CanCall, Goto, pumping
  <2>2. Waiting' = Waiting /\ Hand' = Hand /\ Ran' = Ran
    BY <2>1 DEF Waiting, Hand, Ran
  <2>3. TypeOK'
    BY <2>1, <2>2 DEF TypeOK
  <2>4. BlocksAccounted'
    <3>1. Pushers' = Pushers
      <4>1. Pushing' = Pushing
        BY <2>1 DEF Pushing
      <4>2. QED
        BY <4>1 DEF Pushers
    <3>2. /\ Spares' = Spares /\ OtherBlocks' = OtherBlocks
          /\ SpareInHand' = SpareInHand /\ OtherInHand' = OtherInHand
      BY <2>1 DEF Spares, OtherBlocks, SpareInHand, OtherInHand
    <3>3. QED
      BY <2>1, <3>1, <3>2, <2>3, AccountsNow, AccountsThen
  <2>5. Sorted'
    BY <2>1, <2>2 DEF Sorted
  <2>6. HandSorted'
    BY <2>1, <2>2 DEF HandSorted, Later, Taken
  <2>7. RanFirst'
    BY <2>1, <2>2 DEF RanFirst, Later, Taken
  <2>8. NoneLost'
    BY <2>1, <2>2 DEF NoneLost
  <2>9. QED
    BY <2>3, <2>4, <2>5, <2>6, <2>7, <2>8
<1>9. ASSUME TakeBlock PROVE ExitInv'
  <2>1. /\ Len(list) > 0 /\ list[1] \in Block /\ block' = list[1]
        /\ list' \in Seq(Block) /\ Len(list') = Len(list) - 1
        /\ list = <<list[1]>> \o list'
        /\ \A k \in 1..(Len(list) - 1) : list'[k] = list[k + 1]
        /\ Waiting = Hand' \cup Waiting'
        /\ newest' \in [Callbacks -> 0..MaxCallbacks]
        /\ \A c \in Hand' : newest'[c] = added
        /\ \A c \in Callbacks \ Hand' : newest'[c] = newest[c]
    BY <1>9, TakesTop
  <2>2. /\ UNCHANGED <<spareInUse, allocated, added, pc, exiting, ran>>
        /\ phase = "pump" /\ phase' = "run"
    BY <1>9 DEF TakeBlock
  <2>3. Ran' = Ran
    BY <2>2 DEF Ran
  <2>4. TypeOK'
    BY <2>1, <2>2 DEF TypeOK
  <2>5. BlocksAccounted'
    <3>1. /\ Spares = Spares' + SpareInHand' /\ OtherBlocks = OtherBlocks' + OtherInHand'
      <4>1. list[1].spare \in BOOLEAN /\ phase' = "run" /\ block' = list[1]
        BY <2>1, <2>2, BlockIs
      <4>2. Spares' \in Nat /\ OtherBlocks' \in Nat
        BY <2>4, AccountsThen
      <4>3. CASE list[1].spare
        <5>1. Spares = Spares' + 1 /\ OtherBlocks = OtherBlocks'
          BY <2>1, <4>3, CountInFront, ZenonT(30) DEF Spares, OtherBlocks
        <5>2. SpareInHand' = 1 /\ OtherInHand' = 0
          BY <4>1, <4>3 DEF SpareInHand, OtherInHand
        <5>3. OtherBlocks' + OtherInHand' = OtherBlocks'
          <6>1. \A n \in Nat : n + OtherInHand' = n
            BY <5>2
          <6>2. QED
            BY <4>2, <6>1
        <5>4. Spares' + SpareInHand' = Spares' + 1
          BY <5>2
        <5>5. QED
          BY <5>1, <5>3, <5>4
      <4>4. CASE ~list[1].spare
        <5>1. Spares = Spares' /\ OtherBlocks = OtherBlocks' + 1
          BY <2>1, <4>1, <4>4, CountInFront, ZenonT(30) DEF Spares, OtherBlocks
        <5>2. SpareInHand' = 0 /\ OtherInHand' = 1
          BY <4>1, <4>4 DEF SpareInHand, OtherInHand
        <5>3. Spares' + SpareInHand' = Spares'
          <6>1. \A n \in Nat : n + SpareInHand' = n
            BY <5>2
          <6>2. QED
            BY <4>2, <6>1
        <5>4. OtherBlocks' + OtherInHand' = OtherBlocks' + 1
          BY <5>2
        <5>5. QED
          BY <5>1, <5>3, <5>4
      <4>5. QED
        BY <4>3, <4>4
    <3>2. SpareInHand = 0 /\ OtherInHand = 0 /\ Pushers' = Pushers
      BY <2>2 DEF SpareInHand, OtherInHand, Pushers, Pushing
    <3>3. QED
      BY <2>2, <3>1, <3>2, <2>4, AccountsNow, AccountsThen
  <2>6. Sorted'
    <3>1. /\ DOMAIN list' = 1..(Len(list) - 1) /\ added' = added
          /\ \A k \in DOMAIN list' : k + 1 \in DOMAIN list /\ list'[k] = list[k + 1]
      BY <2>1, <2>2
    <3>2. \A j, k \in DOMAIN list' : j < k => j + 1 < k + 1
      BY <3>1
    <3>3. QED
      BY <2>1, <3>1, <3>2 DEF Sorted
  <2>7. HandSorted'
    <3>1. \A c \in Hand' : Taken(c)'
      <4>1. \A c \in Hand' : c \in Nat /\ c <= added /\ newest'[c] = added
        BY <1>1, <2>1 DEF Sorted
      <4>2. QED
        BY <1>1, <2>2, <4>1 DEF Taken
    <3>2. Increasing(block'.calls)
      BY <1>1, <2>1 DEF Sorted
    <3>3. \A c \in Hand', d \in Waiting' : d < c
      <4>1. SUFFICES ASSUME NEW c \in CallsOf(list[1]), NEW d \in Waiting' PROVE c > d
        BY <1>1, <2>1 DEF Hand
      <4>2. PICK k \in DOMAIN list' : d \in CallsOf(list'[k])
        BY DEF Waiting, Gathered
      <4>3. k + 1 \in DOMAIN list /\ 1 \in DOMAIN list /\ 1 < k + 1 /\ list'[k] = list[k + 1]
        BY <1>1, <2>1
      <4>4. QED
        BY <4>2, <4>3 DEF Sorted
    <3>4. QED
      BY <3>1, <3>2, <3>3 DEF HandSorted, Later
  <2>8. RanFirst'
    <3>1. Ran \cap (Hand \cup Waiting) = {}
      <4>1. SUFFICES ASSUME NEW c \in Ran, c \in Hand \cup Waiting PROVE FALSE
        OBVIOUS
      <4>2. Later(c, c) /\ Taken(c) /\ c \in Nat /\ newest[c] \in Nat
        BY <1>1, <4>1 DEF RanFirst
      <4>3. QED
        BY <4>2 DEF Later, Taken
    <3>2. \A c \in Ran : newest'[c] = newest[c]
      BY <1>1, <2>1, <3>1
    <3>3. Ran' = Ran /\ ran' = ran /\ added' = added /\ Hand' \cup Waiting' \subseteq Waiting
      BY <2>1, <2>2, <2>3
    <3>4. QED
      BY <1>1, <3>2, <3>3 DEF RanFirst, Later, Taken
  <2>9. NoneLost'
    <3>1. Hand = {}
      BY <2>2, NothingWaits DEF NoneLost, Hand
    <3>2. Hand' \cup Waiting' = Hand \cup Waiting /\ Ran' = Ran
      BY <2>1, <2>3, <3>1
    <3>3. QED
      BY <2>2, <3>2 DEF NoneLost
  <2>10. QED
    BY <2>4, <2>5, <2>6, <2>7, <2>8, <2>9
<1>10. ASSUME RunLast PROVE ExitInv'
  <2>1. PICK last \in Callbacks :
        /\ block' \in Block /\ block'.spare = block.spare
        /\ ran' \in Seq(Callbacks) /\ Len(ran') = Len(ran) + 1
        /\ ran'[Len(ran) + 1] = last /\ \A n \in 1..Len(ran) : ran'[n] = ran[n]
        /\ Ran' = Ran \cup {last}
        /\ Hand = Hand' \cup {last}
        /\ Increasing(block.calls) => Increasing(block'.calls) /\ \A c \in Hand' : c < last
    BY <1>10, RunsLast
  <2>2. /\ UNCHANGED <<list, spareInUse, allocated, added, pc, exiting, newest>>
        /\ phase = "run" /\ phase' = "call"
    BY <1>10 DEF RunLast, registering
  <2>3. Waiting' = Waiting
    BY <2>2 DEF Waiting
  <2>4. TypeOK'
    BY <2>1, <2>2 DEF TypeOK
  <2>5. BlocksAccounted'
    BY <2>1, <2>2, <2>4, AccountsNow, AccountsThen DEF Spares, OtherBlocks, SpareInHand,
       OtherInHand, Pushers, Pushing
  <2>6. Sorted'
    BY <2>2, <2>3 DEF Sorted
  <2>7. HandSorted'
    <3>1. /\ Hand' \in SUBSET Hand /\ newest' = newest /\ added' = added /\ Waiting' = Waiting
          /\ Increasing(block'.calls)
      BY <2>1, <2>2, <2>3 DEF HandSorted
    <3>2. QED
      BY <3>1 DEF HandSorted, Later, Taken
  <2>8. RanFirst'
    <3>1. /\ newest' = newest /\ added' = added /\ DOMAIN ran' = 1..(Len(ran) + 1)
          /\ last \in Hand /\ Hand' \cup Waiting' \subseteq Hand \cup Waiting
      BY <2>1, <2>2, <2>3
    <3>2. \A c \in Ran' : Taken(c)'
      BY <2>1, <3>1 DEF RanFirst, HandSorted, Taken
    <3>3. \A m, n \in DOMAIN ran' : m < n => Later(ran'[m], ran'[n])
      <4>1. SUFFICES ASSUME NEW m \in 1..Len(ran), NEW n \in 1..(Len(ran) + 1), m < n
                     PROVE  Later(ran[m], ran'[n])
        BY <1>1, <2>1, <3>1
      <4>2. CASE n \in 1..Len(ran)
        BY <2>1, <4>1, <4>2 DEF RanFirst
      <4>3. CASE n = Len(ran) + 1
        <5>1. ran[m] \in Ran
          BY <1>1, <4>1
        <5>2. last \in Hand \cup Waiting /\ ran'[n] = last
          BY <2>1, <3>1, <4>3
        <5>3. QED
          BY <5>1, <5>2 DEF RanFirst
      <4>4. Len(ran) \in Nat
        BY <1>1
      <4>5. QED
        BY <4>2, <4>3, <4>4
    <3>4. \A c \in Ran', d \in Hand' \cup Waiting' : Later(c, d)
      <4>1. \A d \in Hand' : Later(last, d)
        BY <2>1 DEF HandSorted, Later
      <4>2. \A d \in Waiting' : Later(last, d)
        BY <3>1, <2>3 DEF HandSorted
      <4>3. QED
        BY <2>1, <3>1, <4>1, <4>2 DEF RanFirst
    <3>5. QED
      BY <3>1, <3>2, <3>3, <3>4 DEF RanFirst, Later
  <2>9. NoneLost'
    BY <2>1, <2>2, <2>3 DEF NoneLost
  <2>10. QED
    BY <2>4, <2>5, <2>6, <2>7, <2>8, <2>9
<1>11. ASSUME Returned PROVE ExitInv'
  <2>1. /\ UNCHANGED <<list, spareInUse, allocated, added, pc, exiting, block, ran, newest>>
        /\ phase = "call" /\ phase' = "run"
    BY <1>11 DEF Returned, registering
  <2>2. Waiting' = Waiting /\ Hand' = Hand /\ Ran' = Ran
    BY <2>1 DEF Waiting, Hand, Ran
  <2>3. TypeOK'
    BY <2>1, <2>2 DEF TypeOK
  <2>4. BlocksAccounted'
    BY <2>1, <2>3, AccountsNow, AccountsThen DEF Spares, OtherBlocks, SpareInHand,
       OtherInHand, Pushers, Pushing
  <2>5. Sorted'
    BY <2>1, <2>2 DEF Sorted
  <2>6. HandSorted'
    BY <2>1, <2>2 DEF HandSorted, Later, Taken
  <2>7. RanFirst'
    BY <2>1, <2>2 DEF RanFirst, Later, Taken
  <2>8. NoneLost'
    BY <2>1, <2>2 DEF NoneLost
  <2>9. QED
    BY <2>3, <2>4, <2>5, <2>6, <2>7, <2>8
<1>12. ASSUME FreeBlock PROVE ExitInv'
  <2>1. /\ UNCHANGED <<list, added, pc, exiting, ran, newest>>
        /\ phase = "run" /\ block.calls = <<>> /\ phase' = "pump" /\ block' = NoBlock
    BY <1>12 DEF FreeBlock
  <2>2. Waiting' = Waiting /\ Ran' = Ran /\ Hand' = {} /\ Hand = {}
    BY <2>1, NothingWaits DEF Waiting, Ran, Hand
  <2>3. TypeOK'
    <3>1. NoBlock \in Block /\ block.spare \in BOOLEAN /\ allocated \in 0..MaxCallbacks
      BY BlockIs, NothingWaits DEF TypeOK
    <3>2. CASE block.spare
      <4>1. spareInUse' = FALSE /\ allocated' = allocated
        BY <1>12, <3>2 DEF FreeBlock
      <4>2. QED
        BY <2>1, <3>1, <4>1 DEF TypeOK
    <3>3. CASE ~block.spare
      <4>1. OtherInHand = 1
        BY <2>1, <3>3 DEF OtherInHand
      <4>2. allocated > 0
        BY <4>1, AccountsNow
      <4>3. allocated - 1 \in 0..MaxCallbacks
        BY <3>1, <4>2, BlockAssumption
      <4>4. spareInUse' = spareInUse /\ allocated' = allocated - 1
        BY <1>12, <3>3 DEF FreeBlock
      <4>5. QED
        BY <2>1, <3>1, <4>3, <4>4 DEF TypeOK
    <3>4. QED
      BY <3>2, <3>3
  <2>4. BlocksAccounted'
    <3>1. /\ SpareInHand' = 0 /\ OtherInHand' = 0 /\ Spares' = Spares /\ OtherBlocks' = OtherBlocks
          /\ Pushers' = Pushers /\ allocated \in Nat
      BY <2>1 DEF SpareInHand, OtherInHand, Spares, OtherBlocks, Pushers, Pushing, TypeOK
    <3>2. CASE block.spare
      <4>1. SpareInHand = 1 /\ OtherInHand = 0
        BY <2>1, <3>2 DEF SpareInHand, OtherInHand
      <4>2. ~spareInUse' /\ allocated' = allocated
        BY <1>12, <3>2 DEF FreeBlock
      <4>3. QED
        BY <3>1, <4>1, <4>2, <2>3, AccountsNow, AccountsThen
    <3>3. CASE ~block.spare
      <4>1. SpareInHand = 0 /\ OtherInHand = 1
        BY <2>1, <3>3 DEF SpareInHand, OtherInHand
      <4>2. spareInUse' = spareInUse /\ allocated' = allocated - 1
        BY <1>12, <3>3 DEF FreeBlock
      <4>3. QED
        BY <3>1, <4>1, <4>2, <2>3, AccountsNow, AccountsThen
    <3>4. QED
      BY <3>2, <3>3
  <2>5. Sorted'
    BY <2>1, <2>2 DEF Sorted
  <2>6. HandSorted'
    <3>1. Hand' = {} /\ Increasing(block'.calls)
      BY <2>1, <2>2, NothingWaits
    <3>2. QED
      BY <3>1 DEF HandSorted
  <2>7. RanFirst'
    BY <2>1, <2>2 DEF RanFirst, Later, Taken
  <2>8. NoneLost'
    BY <2>1, <2>2 DEF NoneLost
  <2>9. QED
    BY <2>3, <2>4, <2>5, <2>6, <2>7, <2>8
<1>13. ASSUME PumpEnds PROVE ExitInv'
  <2>1. /\ UNCHANGED <<list, spareInUse, allocated, added, pc, exiting, block, ran, newest>>
        /\ phase = "pump" /\ phase' = "over" /\ list = <<>>
    BY <1>13 DEF PumpEnds, registering
  <2>2. Waiting' = Waiting /\ Hand' = Hand /\ Ran' = Ran
    BY <2>1 DEF Waiting, Hand, Ran
  <2>3. TypeOK'
    BY <2>1, <2>2 DEF TypeOK
  <2>4. BlocksAccounted'
    BY <2>1, <2>3, AccountsNow, AccountsThen DEF Spares, OtherBlocks, SpareInHand,
       OtherInHand, Pushers, Pushing
  <2>5. Sorted'
    BY <2>1, <2>2 DEF Sorted
  <2>6. HandSorted'
    BY <2>1, <2>2 DEF HandSorted, Later, Taken
  <2>7. RanFirst'
    BY <2>1, <2>2 DEF RanFirst, Later, Taken
  <2>8. NoneLost'
    BY <2>1, <2>2 DEF NoneLost
  <2>9. QED
    BY <2>3, <2>4, <2>5, <2>6, <2>7, <2>8
<1>14. ASSUME Discard PROVE ExitInv'
  <2>1. /\ UNCHANGED <<added, pc, exiting, block, ran, newest>>
        /\ exiting = NoOne /\ phase = "up" /\ phase' = "over" /\ list' = <<>>
    BY <1>14 DEF Discard
  <2>2. Hand' = Hand /\ Ran' = Ran /\ Waiting' = {}
    BY <2>1, NothingWaits DEF Hand, Ran, Waiting
  <2>3. TypeOK'
    <3>1. allocated - OtherBlocks \in 0..MaxCallbacks
      <4>1. allocated \in 0..MaxCallbacks
        BY DEF TypeOK
      <4>2. QED
        BY <4>1, AccountsNow, BlockAssumption
    <3>2. allocated' \in 0..MaxCallbacks /\ spareInUse' = FALSE
      BY <1>14, <3>1 DEF Discard, OtherBlocks
    <3>3. list' \in Seq(Block)
      BY <2>1, <2>2
    <3>4. QED
      BY <2>1, <3>2, <3>3 DEF TypeOK
  <2>4. BlocksAccounted'
    <3>1. Spares' = 0 /\ OtherBlocks' = 0
      BY <2>1, CountNothing DEF Spares, OtherBlocks
    <3>2. /\ SpareInHand' = 0 /\ OtherInHand' = 0 /\ OtherInHand = 0 /\ Pushers' = Pushers
      BY <2>1 DEF SpareInHand, OtherInHand, Pushers, Pushing
    <3>3. ~spareInUse' /\ allocated' = allocated - OtherBlocks
      BY <1>14 DEF Discard, OtherBlocks
    <3>4. QED
      BY <3>1, <3>2, <3>3, <2>3, AccountsNow, AccountsThen
  <2>5. Sorted'
    BY <2>1, <2>2 DEF Sorted
  <2>6. HandSorted'
    BY <2>1, <2>2 DEF HandSorted, Taken
  <2>7. RanFirst'
    BY <2>1, <2>2 DEF RanFirst, Later, Taken
  <2>8. NoneLost'
    BY <2>1 DEF NoneLost
  <2>9. QED
    BY <2>3, <2>4, <2>5, <2>6, <2>7, <2>8
<1>15. CASE UNCHANGED vars
  <2>1. UNCHANGED <<list, spareInUse, allocated, added, pc, exiting, phase, block, ran, newest>>
    BY <1>15 DEF vars
  <2>2. Waiting' = Waiting /\ Hand' = Hand /\ Ran' = Ran
    BY <2>1 DEF Waiting, Hand, Ran
  <2>3. TypeOK'
    BY <2>1 DEF TypeOK
  <2>4. BlocksAccounted'
    BY <2>1 DEF BlocksAccounted, Held
  <2>5. Sorted' /\ HandSorted' /\ RanFirst' /\ NoneLost'
    BY <2>1, <2>2 DEF Sorted, HandSorted, RanFirst, NoneLost, Later, Taken
  <2>6. QED
    BY <2>3, <2>4, <2>5
<1>16. QED
  BY <1>2, <1>3, <1>4, <1>5, <1>6, <1>7, <1>8, <1>9, <1>10, <1>11, <1>12, <1>13, <1>14,
     <1>15 DEF Next, Register, Pump

\* A callback is in the row that it was put in: among those that ran, in the hands of
\* the pump, or in a block of the list.
LEMMA RowsAre ==
  ASSUME TypeOK, NEW p \in Rows
  PROVE  /\ p \in Nat
         /\ p = 0 => Row(p) = ran
         /\ p = 1 => Row(p) = block.calls
         /\ p > 1 => p - 1 \in DOMAIN list /\ Row(p) = list[p - 1].calls
         /\ p = 0 \/ p = 1 \/ p > 1
         /\ \A n \in DOMAIN Row(p) : n \in Nat /\ Row(p)[n] \in Nat
<1>1. /\ Len(list) \in Nat /\ DOMAIN list = 1..Len(list) /\ list \in Seq(Block)
      /\ block \in Block /\ ran \in Seq(Callbacks) /\ Callbacks \in SUBSET Nat
  BY ExitTypes
<1>2. /\ p \in Nat /\ (p = 0 \/ p = 1 \/ p > 1) /\ (p > 1 => p - 1 \in DOMAIN list)
  BY <1>1 DEF Rows
<1>3. /\ p = 0 => Row(p) = ran
      /\ p = 1 => Row(p) = block.calls
      /\ p > 1 => Row(p) = list[p - 1].calls
  BY <1>2 DEF Row
<1>4. p > 1 => list[p - 1] \in Block
  BY <1>1, <1>2
<1>5. Row(p) \in Seq(Callbacks)
  BY <1>1, <1>2, <1>3, <1>4, BlockIs
<1>6. \A n \in DOMAIN Row(p) : n \in Nat /\ Row(p)[n] \in Nat
  <2>1. \A n \in DOMAIN Row(p) : n \in Nat /\ Row(p)[n] \in Callbacks
    BY <1>5
  <2>2. QED
    BY <1>1, <2>1
<1>7. QED
  BY <1>2, <1>3, <1>6

\* What ran, what is in hand and what waits are apart.
LEMMA Apart ==
  ASSUME ExitInv
  PROVE  /\ Ran \cap (Hand \cup Waiting) = {}
         /\ Hand \cap Waiting = {}
         /\ \A m, n \in DOMAIN ran : m # n => ran[m] # ran[n]
<1>1. /\ Waiting \in SUBSET Callbacks /\ Hand \in SUBSET Callbacks /\ Ran \in SUBSET Callbacks
      /\ \A c \in Callbacks : c \in Nat /\ newest[c] \in Nat
      /\ \A n \in DOMAIN ran : ran[n] \in Ran /\ n \in Nat
  BY ExitTypes DEF ExitInv, Safety
<1>2. \A c \in Callbacks : Taken(c) => ~Later(c, c)
  BY <1>1 DEF Taken, Later
<1>3. Ran \cap (Hand \cup Waiting) = {}
  BY <1>1, <1>2 DEF ExitInv, RanFirst
<1>4. Hand \cap Waiting = {}
  BY <1>1, <1>2 DEF ExitInv, HandSorted
<1>5. \A m, n \in DOMAIN ran : m < n => ran[m] # ran[n]
  BY <1>1, <1>2 DEF ExitInv, RanFirst
<1>6. \A m, n \in DOMAIN ran : m # n => m < n \/ n < m
  BY <1>1
<1>7. QED
  BY <1>3, <1>4, <1>5, <1>6

\* Where callbacks run, what was in the block of a callback is waiting or in hand.
LEMMA InRow ==
  ASSUME ExitInv, NEW p \in Rows, NEW n \in DOMAIN Row(p)
  PROVE  /\ p = 0 => Row(p)[n] \in Ran
         /\ p = 1 => Row(p)[n] \in Hand
         /\ p > 1 => Row(p)[n] \in CallsOf(list[p - 1]) /\ Row(p)[n] \in Waiting
<1>1. /\ p = 0 => Row(p) = ran
      /\ p = 1 => Row(p) = block.calls
      /\ p > 1 => p - 1 \in DOMAIN list /\ Row(p) = list[p - 1].calls
  BY RowsAre DEF ExitInv, Safety
<1>2. p > 1 => Row(p)[n] \in CallsOf(list[p - 1])
  BY <1>1 DEF CallsOf, ToSet
<1>3. p > 1 => Row(p)[n] \in Waiting
  BY <1>1, <1>2 DEF Waiting, Gathered
<1>4. QED
  BY <1>1, <1>2, <1>3 DEF Ran, Hand, CallsOf, ToSet

\* No callback is in two rows.
LEMMA RowsApart ==
  ASSUME ExitInv, NEW p \in Rows, NEW q \in Rows, p < q,
         NEW m \in DOMAIN Row(p), NEW n \in DOMAIN Row(q)
  PROVE  Row(p)[m] # Row(q)[n]
<1>1. p \in Nat /\ q \in Nat /\ (p = 0 \/ p = 1 \/ p > 1) /\ (q = 1 \/ q > 1)
  BY RowsAre DEF ExitInv, Safety
<1>2. CASE p = 0 \/ p = 1
  BY <1>1, <1>2, Apart, InRow
<1>3. CASE p > 1
  <2>1. q > 1 /\ p - 1 < q - 1
    BY <1>1, <1>3
  <2>2. /\ p - 1 \in DOMAIN list /\ q - 1 \in DOMAIN list
        /\ Row(p)[m] \in Nat /\ Row(q)[n] \in Nat
    BY <1>3, <2>1, RowsAre DEF ExitInv, Safety
  <2>3. Row(p)[m] \in CallsOf(list[p - 1]) /\ Row(q)[n] \in CallsOf(list[q - 1])
    BY <1>3, <2>1, InRow
  <2>4. Row(p)[m] > Row(q)[n]
    BY <2>1, <2>2, <2>3 DEF ExitInv, Sorted
  <2>5. QED
    BY <2>2, <2>4
<1>4. QED
  BY <1>1, <1>2, <1>3

\* None is twice in one row.
LEMMA RowsOnce ==
  ASSUME ExitInv, NEW p \in Rows, NEW m \in DOMAIN Row(p), NEW n \in DOMAIN Row(p), m # n
  PROVE  Row(p)[m] # Row(p)[n]
<1>1. /\ p = 0 \/ p > 0
      /\ p = 0 \/ p = 1 \/ p > 1
      /\ p = 0 => Row(p) = ran
      /\ p = 1 => Row(p) = block.calls
      /\ p > 1 => p - 1 \in DOMAIN list /\ Row(p) = list[p - 1].calls
      /\ m \in Nat /\ n \in Nat /\ Row(p)[m] \in Nat /\ Row(p)[n] \in Nat
  BY RowsAre DEF ExitInv, Safety
<1>2. CASE p = 0
  BY <1>1, <1>2, Apart
<1>3. CASE p > 0
  <2>1. Increasing(Row(p))
    BY <1>1, <1>3 DEF ExitInv, HandSorted, Sorted
  <2>2. m < n \/ n < m
    BY <1>1
  <2>3. Row(p)[m] < Row(p)[n] \/ Row(p)[n] < Row(p)[m]
    BY <2>1, <2>2 DEF Increasing
  <2>4. QED
    BY <1>1, <2>3
<1>4. QED
  BY <1>1, <1>2, <1>3

\* No callback is lost, or runs twice.
LEMMA ExitEachOnce == ExitInv => EachOnce
<1> SUFFICES ASSUME ExitInv, exiting # NoOne \/ phase # "over"
             PROVE  /\ \A p, q \in Rows : \A m \in DOMAIN Row(p), n \in DOMAIN Row(q) :
                         Row(p)[m] = Row(q)[n] => p = q /\ m = n
                    /\ \A call \in 1..added :
                         \E p \in IF phase = "over" THEN {0} ELSE Rows :
                           \E m \in DOMAIN Row(p) : Row(p)[m] = call
  BY DEF EachOnce
<1>1. ASSUME NEW p \in Rows, NEW q \in Rows, NEW m \in DOMAIN Row(p), NEW n \in DOMAIN Row(q),
             Row(p)[m] = Row(q)[n]
      PROVE  p = q /\ m = n
  <2>1. p \in Nat /\ q \in Nat
    BY RowsAre DEF ExitInv, Safety
  <2>2. ~(p < q) /\ ~(q < p)
    BY <1>1, RowsApart
  <2>3. p = q
    BY <2>1, <2>2
  <2>4. QED
    BY <1>1, <2>3, RowsOnce
<1>2. ASSUME NEW call \in 1..added
      PROVE  \E p \in IF phase = "over" THEN {0} ELSE Rows :
               \E m \in DOMAIN Row(p) : Row(p)[m] = call
  <2>1. call \in Ran \cup Hand \cup Waiting
    BY DEF ExitInv, NoneLost
  <2>2. CASE call \in Ran
    <3>1. PICK m \in DOMAIN ran : ran[m] = call
      BY <2>2 DEF Ran, ToSet
    <3>2. 0 \in Rows /\ Row(0) = ran
      BY ExitTypes DEF ExitInv, Safety, Rows, Row
    <3>3. QED
      BY <3>1, <3>2
  <2>3. CASE call \in Hand
    <3>1. PICK m \in DOMAIN block.calls : block.calls[m] = call
      BY <2>3 DEF Hand, CallsOf, ToSet
    <3>2. 1 \in Rows /\ Row(1) = block.calls
      BY ExitTypes DEF ExitInv, Safety, Rows, Row
    <3>3. phase # "over"
      BY <2>3, NothingWaits DEF ExitInv, NoneLost, Hand
    <3>4. QED
      BY <3>1, <3>2, <3>3
  <2>4. CASE call \in Waiting
    <3>1. PICK k \in DOMAIN list : call \in CallsOf(list[k])
      BY <2>4 DEF Waiting, Gathered
    <3>2. PICK m \in DOMAIN list[k].calls : list[k].calls[m] = call
      BY <3>1 DEF CallsOf, ToSet
    <3>3. k + 1 \in Rows /\ Row(k + 1) = list[k].calls
      <4>1. k \in Nat /\ k > 0 /\ k <= Len(list) /\ Len(list) \in Nat
        BY ExitTypes DEF ExitInv, Safety
      <4>2. k + 1 # 0 /\ k + 1 # 1 /\ (k + 1) - 1 = k /\ k + 1 \in 0..(Len(list) + 1)
        BY <4>1
      <4>3. QED
        BY <4>2 DEF Rows, Row
    <3>4. phase # "over"
      BY <2>4, NothingWaits DEF ExitInv, NoneLost, Waiting
    <3>5. QED
      BY <3>2, <3>3, <3>4
  <2>5. QED
    BY <2>1, <2>2, <2>3, <2>4
<1>3. QED
  BY <1>1, <1>2

\* What runs early was registered late.
LEMMA ExitReverseOrder == ExitInv => ReverseOrder
<1> SUFFICES ASSUME ExitInv, NEW q \in Rows, NEW m \in DOMAIN ran, NEW n \in DOMAIN Row(q),
                    Before(0, m, q, n), ran[m] < Row(q)[n]
             PROVE  Row(q)[n] > newest[ran[m]]
  BY DEF ReverseOrder
<1>1. /\ q \in Nat /\ (q = 0 \/ q = 1 \/ q > 1) /\ Row(q)[n] \in Nat
      /\ q = 0 => Row(q) = ran
  BY RowsAre DEF ExitInv, Safety
<1>2. ran[m] \in Ran /\ ran[m] \in Nat
  BY ExitTypes DEF ExitInv, Safety
<1>3. Later(ran[m], Row(q)[n])
  <2>1. CASE q = 0
    BY <1>1, <2>1 DEF Before, ExitInv, RanFirst
  <2>2. CASE q > 0
    BY <1>1, <1>2, <2>2, InRow DEF ExitInv, RanFirst
  <2>3. QED
    BY <1>1, <2>1, <2>2
<1>4. QED
  BY <1>1, <1>2, <1>3 DEF Later

\* What the callbacks at exit promise, of any number of callbacks and threads and any
\* size of a block: blocks are allocated, linked and freed in step; no callback is lost
\* or runs twice; they run in the reverse order of their registration.
THEOREM ExitCallbacksAreSound == Spec => [](Safety /\ EachOnce /\ ReverseOrder)
<1>1. Init => ExitInv
  BY ExitInitially
<1>2. ExitInv /\ [Next]_vars => ExitInv'
  BY ExitPreserved
<1>3. ExitInv => Safety /\ EachOnce /\ ReverseOrder
  BY ExitEachOnce, ExitReverseOrder DEF ExitInv
<1>4. QED
  BY <1>1, <1>2, <1>3, PTL DEF Spec

---------------------------------------------------------------
(* Thread-local storage                                                     *)

ItemsOf(x) == ToSet(x.items)
Inside(s) == UNION {ItemsOf(s[k]) : k \in DOMAIN s}

\* The items in the objects of the list, in the object in hand, those that went, and
\* those that are being constructed.
Linked  == Inside(list)
Holding == ItemsOf(current)
Gone    == ToSet(gone)
Built   == {building[k].item : k \in DOMAIN building}

\* The items of s entered one after the other.
Rising(s, f) == \A m, n \in DOMAIN s : m < n => f[s[m]] < f[s[n]]

\* j goes after i, or with the objects that came after i's was taken.
After(i, j) == entry[j] < entry[i] \/ entry[j] > newest[i]

\* What was taken was taken when it had entered.
WasTaken(i) == entry[i] <= newest[i] /\ newest[i] <= entered

\* What is numbered was made, and what has a place is somewhere.
Numbered ==
  /\ entered + Len(building) <= made /\ allocated <= made
  /\ \A i \in T!Items : /\ entry[i] <= entered
                        /\ entry[i] > 0 => i <= made
                        /\ entry[i] > 0 <=> i \in Gone \cup Holding \cup Linked
  /\ \A i \in Built : i <= made /\ entry[i] = 0
  /\ \A j, k \in DOMAIN building : j # k => building[j].item # building[k].item

\* The list is in the order of entry.
ListRises ==
  /\ \A k \in DOMAIN list : Rising(list[k].items, entry)
  /\ \A j, k \in DOMAIN list :
       j < k => \A i \in ItemsOf(list[j]), h \in ItemsOf(list[k]) : entry[i] < entry[h]

\* So is the object in hand, to which nothing is added.
HandRises ==
  /\ \A i \in Holding : WasTaken(i)
  /\ Rising(current.items, entry)
  /\ \A i \in Holding, j \in Linked : After(i, j)

\* What went did so before what is there.
GoneFirst ==
  /\ \A i \in Gone : WasTaken(i)
  /\ \A m, n \in DOMAIN gone : m < n => After(gone[m], gone[n])
  /\ \A i \in Gone, j \in Holding \cup Linked : After(i, j)

\* Code runs in some phases only.
Phased ==
  /\ phase \notin {"destroy", "run"} => current = T!Nothing
  /\ phase = "done" => list = <<>>
  /\ phase = "up" => gone = <<>>
  /\ building # <<>> => phase = "up" \/ (phase = "run" /\ LookUps)

\* What is needed entered before what needs it, which entered before anything was
\* taken unless destructors look up keys.
NeedsEntered ==
  /\ \A i, j \in T!Items : <<i, j>> \in needs => /\ i <= made /\ entry[j] > 0
                                                 /\ entry[i] > 0 => entry[j] < entry[i]
  /\ ~LookUps => \A i, j \in T!Items :
                   <<i, j>> \in needs => \A h \in Gone \cup Holding : entry[i] <= newest[h]

\* A key is not used twice: an object is found, or is being constructed, for the key that
\* is at its address or for an earlier one.
KeysTold ==
  /\ \A x \in Addresses : keys[x] <= counter /\ since[x] <= made
  /\ \A o \in tree : /\ o.key[2] <= counter /\ entry[o.item] > 0
                     /\ keys[o.key[1]] = o.key[2] => o.item > since[o.key[1]]
  /\ \A o, p \in tree : o.key = p.key => o = p
  /\ \A k \in DOMAIN building :
       /\ keys[building[k].key[1]] = building[k].key[2]
       /\ building[k].item > since[building[k].key[1]]
       /\ \A o \in tree : o.key # building[k].key
  /\ \A j, k \in DOMAIN building : j # k => building[j].key[1] # building[k].key[1]

\* The inductive invariant.
ThreadInv == /\ T!Safety /\ Numbered /\ ListRises /\ HandRises /\ GoneFirst
             /\ Phased /\ NeedsEntered /\ KeysTold

\* The items of an object are of their type.
LEMMA ObjectIs ==
  ASSUME NEW x \in T!Object
  PROVE  /\ x.items \in Seq(T!Items) /\ Len(x.items) <= BlockSize
         /\ ItemsOf(x) \in SUBSET T!Items
         /\ x.key \in T!Keys \cup {NoKey}
<1>1. x.items \in Seq(T!Items) /\ Len(x.items) <= BlockSize /\ x.key \in T!Keys \cup {NoKey}
  BY DEF T!Object
<1>2. \A n \in DOMAIN x.items : x.items[n] \in T!Items
  BY <1>1
<1>3. QED
  BY <1>1, <1>2 DEF ItemsOf, ToSet

\* A storage is for a key, which has an address and a number.
LEMMA NamedIs ==
  ASSUME NEW o \in T!Named
  PROVE  /\ o.item \in T!Items /\ o.key \in T!Keys /\ o.key = <<o.key[1], o.key[2]>>
         /\ o.key[1] \in Addresses /\ o.key[2] \in Nat /\ o.key[2] > 0
         /\ o = [key |-> o.key, item |-> o.item]
<1>1. o.item \in T!Items /\ o.key \in T!Keys /\ o = [key |-> o.key, item |-> o.item]
  BY DEF T!Named
<1>2. /\ o.key = <<o.key[1], o.key[2]>>
      /\ o.key[1] \in Addresses /\ o.key[2] \in 1..MaxKeys
  BY <1>1 DEF T!Keys
<1>3. QED
  BY <1>1, <1>2, LifetimesAssumption

\* There are only so many items.
LEMMA InsideType ==
  ASSUME NEW s \in Seq(T!Object)
  PROVE  /\ Inside(s) \in SUBSET T!Items
         /\ \A k \in DOMAIN s : s[k] \in T!Object /\ \A i \in ItemsOf(s[k]) : i \in Inside(s)
<1>1. \A k \in DOMAIN s : s[k] \in T!Object
  OBVIOUS
<1>2. QED
  BY <1>1, ObjectIs DEF Inside

\* An object at the end adds its items.
LEMMA InsideAppend ==
  ASSUME NEW s \in Seq(T!Object), NEW x \in T!Object
  PROVE  /\ Append(s, x) \in Seq(T!Object) /\ Len(Append(s, x)) = Len(s) + 1
         /\ Append(s, x)[Len(s) + 1] = x
         /\ \A k \in 1..Len(s) : Append(s, x)[k] = s[k]
         /\ Inside(Append(s, x)) = Inside(s) \cup ItemsOf(x)
<1> DEFINE r == Append(s, x)
<1>1. /\ r \in Seq(T!Object) /\ Len(r) = Len(s) + 1 /\ Len(s) \in Nat /\ r[Len(s) + 1] = x
      /\ \A k \in 1..Len(s) : r[k] = s[k]
  OBVIOUS
<1> HIDE DEF r
<1>2. DOMAIN r = 1..(Len(s) + 1) /\ DOMAIN s = 1..Len(s)
  BY <1>1
<1>3. \A k \in 1..(Len(s) + 1) : k \in 1..Len(s) \/ k = Len(s) + 1
  BY <1>1
<1>4. Len(s) + 1 \in DOMAIN r /\ \A k \in 1..Len(s) : k \in DOMAIN r
  BY <1>1, <1>2
<1>5. Inside(r) = Inside(s) \cup ItemsOf(x)
  BY <1>1, <1>2, <1>3, <1>4 DEF Inside
<1>6. QED
  BY <1>1, <1>5 DEF r

\* The last object taken away.
LEMMA InsideFront ==
  ASSUME NEW s \in Seq(T!Object), s # <<>>
  PROVE  /\ Front(s) \in Seq(T!Object) /\ Len(Front(s)) = Len(s) - 1 /\ Len(s) > 0
         /\ Last(s) = s[Len(s)] /\ Last(s) \in T!Object
         /\ \A k \in 1..(Len(s) - 1) : Front(s)[k] = s[k]
         /\ Inside(s) = Inside(Front(s)) \cup ItemsOf(Last(s))
<1>1. /\ Len(s) > 0 /\ Len(s) \in Nat
      /\ Front(s) \in Seq(T!Object) /\ Len(Front(s)) = Len(s) - 1
      /\ \A k \in 1..(Len(s) - 1) : Front(s)[k] = s[k]
      /\ Last(s) = s[Len(s)] /\ Last(s) \in T!Object
  BY FrontLast
<1>2. DOMAIN s = 1..Len(s) /\ DOMAIN Front(s) = 1..(Len(s) - 1)
  BY <1>1
<1>3. \A k \in 1..Len(s) : k \in 1..(Len(s) - 1) \/ k = Len(s)
  BY <1>1
<1>4. Len(s) \in DOMAIN s /\ \A k \in 1..(Len(s) - 1) : k \in DOMAIN s
  BY <1>1, <1>2
<1>5. Inside(s) = Inside(Front(s)) \cup ItemsOf(Last(s))
  BY <1>1, <1>2, <1>3, <1>4 DEF Inside
<1>6. QED
  BY <1>1, <1>5

\* Nothing is inside of nothing.
LEMMA NothingInside ==
  /\ Inside(<<>>) = {} /\ ToSet(<<>>) = {} /\ ItemsOf(T!Nothing) = {} /\ T!Nothing \in T!Object
  /\ \A f : Rising(<<>>, f) /\ Rising(T!Nothing.items, f)
<1>1. DOMAIN <<>> = {}
  OBVIOUS
<1>2. ToSet(<<>>) = {} /\ Inside(<<>>) = {} /\ \A f : Rising(<<>>, f)
  BY <1>1 DEF ToSet, Inside, Rising
<1>3. T!Nothing.items = <<>>
  BY DEF T!Nothing
<1>4. T!Nothing \in T!Object
  <2>1. <<>> \in Seq(T!Items) /\ Len(<<>>) = 0
    OBVIOUS
  <2>2. QED
    BY <2>1, BlockAssumption DEF T!Nothing, T!Object
<1>5. QED
  BY <1>2, <1>3, <1>4 DEF ItemsOf

\* What enters last goes to the end.
LEMMA RisingAppend ==
  ASSUME NEW s \in Seq(T!Items), NEW i \in T!Items, NEW f, NEW g,
         Rising(s, f), \A j \in ToSet(s) : g[j] = f[j] /\ f[j] < g[i]
  PROVE  Rising(Append(s, i), g)
<1>1. /\ Len(Append(s, i)) = Len(s) + 1 /\ Len(s) \in Nat
      /\ DOMAIN Append(s, i) = 1..(Len(s) + 1) /\ DOMAIN s = 1..Len(s)
      /\ Append(s, i)[Len(s) + 1] = i /\ \A n \in 1..Len(s) : Append(s, i)[n] = s[n]
  OBVIOUS
<1>2. \A n \in 1..Len(s) : g[s[n]] = f[s[n]] /\ f[s[n]] < g[i]
  BY <1>1 DEF ToSet
<1>3. \A m, n \in 1..Len(s) : m < n => f[s[m]] < f[s[n]]
  BY <1>1 DEF Rising
<1>4. QED
  BY <1>1, <1>2, <1>3 DEF Rising

\* Only the places of its items matter to a sequence.
LEMMA RisingSame ==
  ASSUME NEW s, NEW f, NEW g, Rising(s, f), \A j \in ToSet(s) : g[j] = f[j]
  PROVE  Rising(s, g)
  BY DEF Rising, ToSet

\* The last of a sequence is the last to have entered.
LEMMA RisingFront ==
  ASSUME NEW s \in Seq(T!Items), s # <<>>, NEW f
  PROVE  /\ Front(s) \in Seq(T!Items) /\ Len(Front(s)) = Len(s) - 1 /\ Len(s) > 0
         /\ Last(s) \in T!Items
         /\ ToSet(s) = ToSet(Front(s)) \cup {Last(s)}
         /\ Rising(s, f) => Rising(Front(s), f) /\ \A j \in ToSet(Front(s)) : f[j] < f[Last(s)]
<1>1. /\ Len(s) > 0 /\ Len(s) \in Nat
      /\ Front(s) \in Seq(T!Items) /\ Len(Front(s)) = Len(s) - 1
      /\ \A n \in 1..(Len(s) - 1) : Front(s)[n] = s[n]
      /\ Last(s) = s[Len(s)] /\ Last(s) \in T!Items
  BY FrontLast
<1>2. DOMAIN s = 1..Len(s) /\ DOMAIN Front(s) = 1..(Len(s) - 1)
  BY <1>1
<1>3. ToSet(s) = ToSet(Front(s)) \cup {Last(s)}
  BY <1>1, <1>2 DEF ToSet
<1>4. ASSUME Rising(s, f)
      PROVE  Rising(Front(s), f) /\ \A j \in ToSet(Front(s)) : f[j] < f[Last(s)]
  <2>1. \A m, n \in 1..Len(s) : m < n => f[s[m]] < f[s[n]]
    BY <1>2, <1>4 DEF Rising
  <2>2. QED
    BY <1>1, <1>2, <2>1 DEF Rising, ToSet
<1>5. QED
  BY <1>1, <1>3, <1>4

\* What the proof of every step uses of the types.
LEMMA ThreadTypes ==
  ASSUME T!TypeOK
  PROVE  /\ made \in Nat /\ made <= MaxItems /\ entered \in Nat /\ counter \in Nat
         /\ allocated \in Nat /\ counter <= MaxKeys
         /\ list \in Seq(T!Object) /\ Len(list) \in Nat /\ DOMAIN list = 1..Len(list)
         /\ building \in Seq(T!Named) /\ Len(building) \in Nat /\ DOMAIN building = 1..Len(building)
         /\ gone \in Seq(T!Items) /\ Len(gone) \in Nat /\ DOMAIN gone = 1..Len(gone)
         /\ current \in T!Object
         /\ \A i \in T!Items : i \in Nat /\ entry[i] \in Nat /\ newest[i] \in Nat
         /\ entry \in [T!Items -> 0..MaxItems] /\ newest \in [T!Items -> 0..MaxItems]
         /\ Gone \in SUBSET T!Items /\ Holding \in SUBSET T!Items /\ Linked \in SUBSET T!Items
         /\ Built \in SUBSET T!Items
         /\ \A k \in DOMAIN list : list[k] \in T!Object /\ \A i \in ItemsOf(list[k]) : i \in Linked
         /\ \A n \in DOMAIN gone : gone[n] \in Gone
         /\ \A k \in DOMAIN building : building[k] \in T!Named /\ building[k].item \in Built
         /\ \A x \in Addresses : keys[x] \in Nat /\ since[x] \in Nat
         /\ \A o \in tree : o \in T!Named
<1>1. /\ made \in Nat /\ made <= MaxItems /\ entered \in Nat /\ counter \in Nat
      /\ allocated \in Nat /\ counter <= MaxKeys
      /\ \A x \in Addresses : keys[x] \in Nat /\ since[x] \in Nat
      /\ \A o \in tree : o \in T!Named
      /\ entry \in [T!Items -> 0..MaxItems] /\ newest \in [T!Items -> 0..MaxItems]
  BY LifetimesAssumption DEF T!TypeOK
<1>2. \A i \in T!Items : i \in Nat /\ entry[i] \in Nat /\ newest[i] \in Nat
  BY <1>1, LifetimesAssumption DEF T!Items
<1>3. /\ list \in Seq(T!Object) /\ Len(list) \in Nat /\ DOMAIN list = 1..Len(list)
      /\ Linked \in SUBSET T!Items
      /\ \A k \in DOMAIN list : list[k] \in T!Object /\ \A i \in ItemsOf(list[k]) : i \in Linked
  BY InsideType DEF T!TypeOK, Linked
<1>4. /\ building \in Seq(T!Named) /\ Len(building) \in Nat /\ DOMAIN building = 1..Len(building)
      /\ \A k \in DOMAIN building : building[k] \in T!Named
  BY DEF T!TypeOK
<1>5. Built \in SUBSET T!Items /\ \A k \in DOMAIN building : building[k].item \in Built
  BY <1>4, NamedIs DEF Built
<1>6. /\ gone \in Seq(T!Items) /\ Len(gone) \in Nat /\ DOMAIN gone = 1..Len(gone)
      /\ \A n \in DOMAIN gone : gone[n] \in T!Items
  BY DEF T!TypeOK
<1>7. Gone \in SUBSET T!Items /\ \A n \in DOMAIN gone : gone[n] \in Gone
  BY <1>6 DEF Gone, ToSet
<1>8. current \in T!Object /\ Holding \in SUBSET T!Items
  BY ObjectIs DEF T!TypeOK, Holding
<1>9. QED
  BY <1>1, <1>2, <1>3, <1>4, <1>5, <1>6, <1>7, <1>8

\* What changes in places when an item enters.
EnteredAs(i) ==
  /\ entered' = entered + 1 /\ entry' = [entry EXCEPT ![i] = entered']
  /\ Linked' = Linked \cup {i}
  /\ UNCHANGED <<current, gone, newest>>

\* An item that enters the list goes before all that are there, or is taken later.
LEMMA Enters ==
  ASSUME ThreadInv, NEW i \in T!Items, entry[i] = 0, EnteredAs(i)
  PROVE  /\ HandRises' /\ GoneFirst'
         /\ Gone' = Gone /\ Holding' = Holding
         /\ entry' \in [T!Items -> Nat] /\ entry'[i] = entered + 1
         /\ \A j \in T!Items : j # i => entry'[j] = entry[j]
         /\ \A j \in T!Items : /\ entry'[j] <= entered'
                               /\ entry'[j] > 0 <=> j \in Gone' \cup Holding' \cup Linked'
         /\ \A j \in Gone \cup Holding \cup Linked : j # i /\ entry[j] <= entered
<1> USE DEF ThreadInv, T!Safety
<1>1. /\ entered \in Nat /\ entry \in [T!Items -> 0..MaxItems]
      /\ \A j \in T!Items : j \in Nat /\ entry[j] \in Nat /\ newest[j] \in Nat
      /\ Gone \in SUBSET T!Items /\ Holding \in SUBSET T!Items /\ Linked \in SUBSET T!Items
      /\ Len(gone) \in Nat /\ DOMAIN gone = 1..Len(gone)
      /\ \A n \in DOMAIN gone : gone[n] \in Gone
  BY ThreadTypes
<1>2. /\ entry'[i] = entered + 1 /\ \A j \in T!Items : j # i => entry'[j] = entry[j]
      /\ entered' = entered + 1 /\ Linked' = Linked \cup {i}
      /\ gone' = gone /\ current' = current /\ newest' = newest
  BY <1>1 DEF EnteredAs
<1>3. Gone' = Gone /\ Holding' = Holding
  BY <1>2 DEF Gone, Holding
<1>4. \A j \in Gone \cup Holding \cup Linked : j # i /\ entry[j] <= entered /\ entry[j] > 0
  BY <1>1 DEF Numbered
<1>5. \A j \in T!Items : /\ entry'[j] <= entered'
                         /\ entry'[j] > 0 <=> j \in Gone' \cup Holding' \cup Linked'
  <2>1. ASSUME NEW j \in T!Items, j # i
        PROVE  entry'[j] <= entered' /\ (entry'[j] > 0 <=> j \in Gone' \cup Holding' \cup Linked')
    BY <1>1, <1>2, <1>3, <2>1 DEF Numbered
  <2>2. QED
    BY <1>1, <1>2, <2>1
<1>6. HandRises'
  <2>1. \A j \in Holding : WasTaken(j)'
    BY <1>1, <1>2, <1>4 DEF HandRises, WasTaken
  <2>2. Rising(current'.items, entry')
    BY <1>1, <1>2, <1>4, RisingSame DEF HandRises, Holding, ItemsOf
  <2>3. \A j \in Holding, h \in Linked' : After(j, h)'
    <3>1. SUFFICES ASSUME NEW j \in Holding, NEW h \in Linked' PROVE After(j, h)'
      OBVIOUS
    <3>2. /\ entry'[j] = entry[j] /\ newest'[j] = newest[j] /\ newest[j] <= entered
          /\ newest[j] \in Nat
      BY <1>1, <1>2, <1>4 DEF HandRises, WasTaken
    <3>3. CASE h = i
      BY <1>1, <1>2, <3>2, <3>3 DEF After
    <3>4. CASE h \in Linked
      BY <1>1, <1>2, <1>4, <3>2, <3>4 DEF HandRises, After
    <3>5. QED
      BY <1>2, <3>3, <3>4
  <2>4. QED
    BY <1>3, <2>1, <2>2, <2>3 DEF HandRises
<1>7. GoneFirst'
  <2>1. \A j \in Gone : WasTaken(j)'
    BY <1>1, <1>2, <1>4 DEF GoneFirst, WasTaken
  <2>2. \A m, n \in DOMAIN gone : m < n => After(gone[m], gone[n])'
    BY <1>1, <1>2, <1>4 DEF GoneFirst, After
  <2>3. \A j \in Gone, h \in Holding \cup Linked' : After(j, h)'
    BY <1>1, <1>2, <1>4 DEF GoneFirst, WasTaken, After
  <2>4. QED
    BY <1>2, <1>3, <2>1, <2>2, <2>3 DEF GoneFirst
<1>8. entry' \in [T!Items -> Nat]
  BY <1>1 DEF EnteredAs
<1>9. QED
  BY <1>2, <1>3, <1>4, <1>5, <1>6, <1>7, <1>8

\* As an object of its own ...
LEMMA RisesByObject ==
  ASSUME ThreadInv, NEW i \in T!Items, entry[i] = 0, EnteredAs(i), NEW x \in T!Object,
         x.items = <<i>>, list' = Append(list, x)
  PROVE  ListRises'
<1> USE DEF ThreadInv, T!Safety
<1>1. /\ list \in Seq(T!Object) /\ Len(list) \in Nat /\ DOMAIN list = 1..Len(list)
      /\ \A k \in DOMAIN list : list[k] \in T!Object /\ \A j \in ItemsOf(list[k]) : j \in Linked
      /\ Linked \in SUBSET T!Items /\ entered \in Nat
      /\ \A j \in T!Items : j \in Nat /\ entry[j] \in Nat
  BY ThreadTypes
<1>2. /\ DOMAIN list' = 1..(Len(list) + 1) /\ list'[Len(list) + 1] = x
      /\ \A k \in DOMAIN list : list'[k] = list[k]
  BY <1>1, InsideAppend
<1>3. /\ \A j \in Linked : entry'[j] = entry[j] /\ entry[j] <= entered
      /\ entry'[i] = entered + 1
  BY <1>1, Enters
<1>4. ItemsOf(x) = {i} /\ Rising(x.items, entry')
  <2>1. DOMAIN <<i>> = {1} /\ <<i>>[1] = i
    OBVIOUS
  <2>2. QED
    BY <2>1 DEF ItemsOf, ToSet, Rising
<1>5. \A k \in DOMAIN list' : Rising(list'[k].items, entry')
  <2>1. SUFFICES ASSUME NEW k \in DOMAIN list' PROVE Rising(list'[k].items, entry')
    OBVIOUS
  <2>2. CASE k = Len(list) + 1
    BY <1>2, <1>4, <2>2
  <2>3. CASE k \in DOMAIN list
    <3>1. Rising(list[k].items, entry) /\ \A j \in ToSet(list[k].items) : entry'[j] = entry[j]
      BY <1>1, <1>3, <2>3 DEF ListRises, ItemsOf
    <3>2. QED
      BY <1>2, <2>3, <3>1, RisingSame
  <2>4. QED
    BY <1>1, <1>2, <2>2, <2>3
<1>6. \A m, n \in DOMAIN list' :
        m < n => \A j \in ItemsOf(list'[m]), h \in ItemsOf(list'[n]) : entry'[j] < entry'[h]
  <2>1. SUFFICES ASSUME NEW m \in DOMAIN list', NEW n \in DOMAIN list', m < n,
                        NEW j \in ItemsOf(list'[m]), NEW h \in ItemsOf(list'[n])
                 PROVE  entry'[j] < entry'[h]
    OBVIOUS
  <2>2. m \in DOMAIN list /\ j \in ItemsOf(list[m]) /\ j \in Linked
    BY <1>1, <1>2, <2>1
  <2>3. CASE n = Len(list) + 1
    <3>1. h = i
      BY <1>2, <1>4, <2>3
    <3>2. QED
      BY <1>1, <1>3, <2>2, <3>1
  <2>4. CASE n \in DOMAIN list
    <3>1. h \in ItemsOf(list[n]) /\ h \in Linked
      BY <1>1, <1>2, <2>4
    <3>2. QED
      BY <1>3, <2>1, <2>2, <2>4, <3>1 DEF ListRises
  <2>5. QED
    BY <1>1, <1>2, <2>3, <2>4
<1>7. QED
  BY <1>5, <1>6 DEF ListRises

\* ... or in the newest one.
LEMMA AddsToNewest ==
  ASSUME ThreadInv, T!AddCallback
  PROVE  /\ made < MaxItems /\ made' = made + 1 /\ made' \in T!Items /\ entry[made'] = 0
         /\ EnteredAs(made')
         /\ list' \in Seq(T!Object) /\ Len(list') = Len(list)
         /\ ListRises'
<1> USE DEF ThreadInv, T!Safety
<1>1. /\ list \in Seq(T!Object) /\ Len(list) \in Nat /\ DOMAIN list = 1..Len(list)
      /\ \A k \in DOMAIN list : list[k] \in T!Object /\ \A j \in ItemsOf(list[k]) : j \in Linked
      /\ Linked \in SUBSET T!Items /\ entered \in Nat /\ made \in Nat
      /\ \A j \in T!Items : j \in Nat /\ entry[j] \in Nat
  BY ThreadTypes
<1>2. made < MaxItems /\ made' = made + 1 /\ made' \in T!Items
  BY <1>1, LifetimesAssumption DEF T!AddCallback, T!Enter, T!Items
<1>3. entry[made'] = 0
  BY <1>1, <1>2 DEF Numbered
<1>4. /\ Len(list) > 0 /\ Last(list) = list[Len(list)] /\ Len(list) \in DOMAIN list
      /\ Len(Last(list).items) < BlockSize
  <2>1. list # <<>> /\ Len(Last(list).items) < BlockSize
    BY DEF T!AddCallback, T!NewestHasRoom, T!HasRoom, T!Last, Last
  <2>2. Len(list) > 0 /\ Last(list) = list[Len(list)]
    BY <1>1, <2>1, FrontLast
  <2>3. QED
    BY <1>1, <2>1, <2>2
<1> DEFINE last == Len(list)
           old == list[last]
           items == Append(old.items, made')
           new == [old EXCEPT !.items = items]
<1>5. old \in T!Object /\ old.items \in Seq(T!Items) /\ Len(old.items) < BlockSize
  BY <1>1, <1>4, ObjectIs
<1>6. /\ items \in Seq(T!Items) /\ Len(items) = Len(old.items) + 1
      /\ ToSet(items) = ToSet(old.items) \cup {made'}
  <2>1. T!Items \in SUBSET Nat
    BY <1>1
  <2>2. QED
    BY <1>2, <1>5, <2>1, AppendIs
<1>7. Len(items) <= BlockSize
  BY <1>5, <1>6, BlockAssumption
<1>8. list' = [list EXCEPT ![last] = new]
  BY DEF T!AddCallback
<1> HIDE DEF items
<1>9. new \in T!Object /\ new.items = items
  BY <1>5, <1>6, <1>7 DEF T!Object
<1>10. ItemsOf(new) = ItemsOf(old) \cup {made'}
  BY <1>6, <1>9 DEF ItemsOf
<1> HIDE DEF new
<1>11. /\ list' \in Seq(T!Object) /\ Len(list') = Len(list) /\ list'[last] = new
       /\ \A k \in DOMAIN list : k # last => list'[k] = list[k]
       /\ DOMAIN list' = DOMAIN list
  BY <1>1, <1>4, <1>8, <1>9, ExceptSeq
<1>12. \A k \in DOMAIN list : ItemsOf(list'[k]) = ItemsOf(list[k]) \cup IF k = last THEN {made'} ELSE {}
  BY <1>10, <1>11
<1>13. Linked' = Linked \cup {made'}
  BY <1>4, <1>11, <1>12 DEF Linked, Inside
<1>14. EnteredAs(made')
  BY <1>13 DEF EnteredAs, T!AddCallback, T!Enter, T!EnterAs, T!cleanup
<1>15. /\ \A j \in Linked : entry'[j] = entry[j] /\ entry[j] <= entered
       /\ entry'[made'] = entered + 1
  BY <1>1, <1>2, <1>3, <1>14, Enters
<1>16. \A k \in DOMAIN list' : Rising(list'[k].items, entry')
  <2>1. SUFFICES ASSUME NEW k \in DOMAIN list PROVE Rising(list'[k].items, entry')
    BY <1>11
  <2>2. Rising(list[k].items, entry)
    BY DEF ListRises
  <2>3. \A j \in ToSet(list[k].items) : entry'[j] = entry[j] /\ entry[j] < entry'[made']
    BY <1>1, <1>15 DEF ItemsOf
  <2>4. CASE k = last
    <3>1. Rising(items, entry')
      BY <1>2, <1>5, <2>2, <2>3, <2>4, RisingAppend DEF items
    <3>2. QED
      BY <1>9, <1>11, <2>4, <3>1
  <2>5. CASE k # last
    BY <1>11, <2>2, <2>3, <2>5, RisingSame
  <2>6. QED
    BY <2>4, <2>5
<1>17. \A m, n \in DOMAIN list' :
         m < n => \A j \in ItemsOf(list'[m]), h \in ItemsOf(list'[n]) : entry'[j] < entry'[h]
  <2>1. SUFFICES ASSUME NEW m \in DOMAIN list, NEW n \in DOMAIN list, m < n,
                        NEW j \in ItemsOf(list'[m]), NEW h \in ItemsOf(list'[n])
                 PROVE  entry'[j] < entry'[h]
    BY <1>11
  <2>2. j \in ItemsOf(list[m]) /\ j \in Linked
    <3>1. m # last
      BY <1>1, <2>1
    <3>2. QED
      BY <1>1, <1>11, <3>1
  <2>3. CASE h \in ItemsOf(list[n])
    <3>1. h \in Linked
      BY <1>1, <2>3
    <3>2. QED
      BY <1>15, <2>1, <2>2, <2>3, <3>1 DEF ListRises
  <2>4. CASE h = made'
    BY <1>1, <1>15, <2>2, <2>4
  <2>5. QED
    BY <1>12, <2>3, <2>4
<1>18. ListRises'
  BY <1>16, <1>17 DEF ListRises
<1>19. QED
  BY <1>2, <1>3, <1>11, <1>14, <1>18

\* Where destructors look up no keys, nothing is constructed after the first object
\* was taken.
LEMMA NothingTaken ==
  ASSUME ThreadInv, ~LookUps, building # <<>>
  PROVE  Gone = {} /\ Holding = {}
<1>1. gone = <<>> /\ current = T!Nothing
  BY DEF ThreadInv, Phased
<1>2. QED
  BY <1>1, NothingInside DEF Gone, Holding

\* A constructor that is called is the innermost one.
LEMMA BuildingMore ==
  ASSUME ThreadInv, NEW x \in Addresses, T!Require(x)
  PROVE  /\ made < MaxItems /\ made' = made + 1 /\ made' \in T!Items /\ entry[made'] = 0
         /\ keys[x] > 0 /\ keys[x] \in Nat
         /\ \A o \in tree : o.key # <<x, keys[x]>>
         /\ \A k \in DOMAIN building : building[k].key[1] # x
         /\ building' \in Seq(T!Named) /\ Len(building') = Len(building) + 1
         /\ DOMAIN building' = 1..(Len(building) + 1)
         /\ building'[Len(building) + 1].key = <<x, keys[x]>>
         /\ building'[Len(building) + 1].item = made'
         /\ \A k \in DOMAIN building : building'[k] = building[k]
         /\ Built' = Built \cup {made'}
<1> USE DEF ThreadInv, T!Safety
<1>1. /\ made \in Nat /\ keys[x] \in Nat /\ building \in Seq(T!Named)
      /\ Len(building) \in Nat /\ DOMAIN building = 1..Len(building)
      /\ \A j \in T!Items : j \in Nat /\ entry[j] \in Nat
  BY ThreadTypes
<1>2. /\ made < MaxItems /\ made' = made + 1 /\ made' \in T!Items
      /\ keys[x] # 0 /\ T!Found(x) = {} /\ ~T!InUse(x)
      /\ building' = Append(building, [key |-> <<x, keys[x]>>, item |-> made'])
  BY <1>1, LifetimesAssumption DEF T!Require, T!Items
<1>3. entry[made'] = 0
  BY <1>1, <1>2 DEF Numbered
<1>4. /\ \A o \in tree : o.key # <<x, keys[x]>>
      /\ \A k \in DOMAIN building : building[k].key[1] # x
  BY <1>2 DEF T!Found, T!InUse
<1>5. <<x, keys[x]>> \in T!Keys
  BY <1>1, <1>2, SMTT(30) DEF T!Keys, T!TypeOK
<1> DEFINE new == [key |-> <<x, keys[x]>>, item |-> made']
<1>6. new \in T!Named /\ new.key = <<x, keys[x]>> /\ new.item = made'
  BY <1>2, <1>5 DEF T!Named
<1> HIDE DEF new
<1>7. /\ building' \in Seq(T!Named) /\ Len(building') = Len(building) + 1
      /\ DOMAIN building' = 1..(Len(building) + 1)
      /\ building'[Len(building) + 1] = new
      /\ \A k \in DOMAIN building : building'[k] = building[k]
  BY <1>1, <1>2, <1>6 DEF new
<1>8. Built' = Built \cup {made'}
  <2>1. \A k \in 1..(Len(building) + 1) : k \in 1..Len(building) \/ k = Len(building) + 1
    BY <1>1
  <2>2. Len(building) + 1 \in DOMAIN building' /\ \A k \in DOMAIN building : k \in DOMAIN building'
    BY <1>1, <1>7
  <2>3. QED
    BY <1>1, <1>6, <1>7, <2>1, <2>2 DEF Built
<1>9. QED
  BY <1>1, <1>2, <1>3, <1>4, <1>6, <1>7, <1>8

\* The constructor that returns is the innermost one.
LEMMA BuildingLess ==
  ASSUME ThreadInv, building # <<>>, building' = T!Front(building)
  PROVE  /\ T!Last(building) = building[Len(building)] /\ T!Last(building) \in T!Named
         /\ Len(building) > 0 /\ Len(building) \in DOMAIN building
         /\ building' \in Seq(T!Named) /\ Len(building') = Len(building) - 1
         /\ DOMAIN building' = 1..(Len(building) - 1)
         /\ \A k \in DOMAIN building' : /\ k \in DOMAIN building /\ building'[k] = building[k]
                                        /\ k # Len(building)
         /\ Built' \subseteq Built
         /\ T!Last(building).item \in Built /\ T!Last(building).item \notin Built'
<1>1. T!Front(building) = Front(building) /\ T!Last(building) = Last(building)
  BY DEF T!Front, T!Last, Front, Last
<1> USE DEF ThreadInv, T!Safety
<1>2. /\ building \in Seq(T!Named) /\ Len(building) \in Nat /\ DOMAIN building = 1..Len(building)
      /\ \A k \in DOMAIN building : building[k] \in T!Named /\ building[k].item \in Built
  BY ThreadTypes
<1>3. /\ Len(building) > 0
      /\ building' \in Seq(T!Named) /\ Len(building') = Len(building) - 1
      /\ \A k \in 1..(Len(building) - 1) : building'[k] = building[k]
      /\ T!Last(building) = building[Len(building)]
  BY <1>1, <1>2, FrontLast, Zenon
<1>4. Len(building) \in DOMAIN building /\ DOMAIN building' = 1..(Len(building) - 1)
  BY <1>2, <1>3
<1>5. \A k \in DOMAIN building' : /\ k \in DOMAIN building /\ building'[k] = building[k]
                                  /\ k # Len(building)
  BY <1>2, <1>3, <1>4
<1>6. Built' \subseteq Built /\ T!Last(building).item \notin Built'
  BY <1>2, <1>3, <1>4, <1>5 DEF Built, Numbered
<1>7. QED
  BY <1>2, <1>3, <1>4, <1>5, <1>6

\* What was constructed enters the list, and the tree.
LEMMA Constructs ==
  ASSUME ThreadInv, T!Constructed
  PROVE  \E o \in T!Named :
           /\ building # <<>> /\ building' = T!Front(building) /\ o = T!Last(building)
           /\ [key |-> o.key, items |-> <<o.item>>] \in T!Object
           /\ list' = Append(list, [key |-> o.key, items |-> <<o.item>>])
           /\ list' \in Seq(T!Object) /\ Len(list') = Len(list) + 1
           /\ tree' = tree \cup {o}
           /\ o.item \in T!Items /\ entry[o.item] = 0 /\ EnteredAs(o.item)
           /\ needs' = needs \cup {<<i, o.item>> : i \in Built'}
           /\ UNCHANGED <<keys, counter, since, allocated, made, phase>>
           /\ ListRises'
<1> DEFINE o == T!Last(building)
           x == [key |-> o.key, items |-> <<o.item>>]
<1>1. building # <<>> /\ building' = T!Front(building)
  BY DEF T!Constructed
<1>2. o \in T!Named /\ o.item \in Built
  BY <1>1, BuildingLess
<1>3. /\ list' = Append(list, x)
      /\ tree' = tree \cup {o}
      /\ entered' = entered + 1 /\ entry' = [entry EXCEPT ![o.item] = entered']
      /\ needs' = needs \cup {<<building[k].item, o.item>> : k \in DOMAIN T!Front(building)}
      /\ UNCHANGED <<keys, counter, since, allocated, made, phase, current, gone, newest>>
  BY DEF T!Constructed, T!EnterAs, T!keyVars, T!cleanup
<1>4. {<<building[k].item, o.item>> : k \in DOMAIN T!Front(building)} = {<<i, o.item>> : i \in Built'}
  <2>1. \A k \in DOMAIN building' : building'[k] = building[k]
    BY <1>1, BuildingLess
  <2>2. QED
    BY <1>1, <2>1 DEF Built
<1>5. o.item \in T!Items /\ o.key \in T!Keys
  BY <1>2, NamedIs
<1>6. entry[o.item] = 0
  BY <1>2 DEF ThreadInv, Numbered
<1>7. x \in T!Object /\ x.items = <<o.item>> /\ ItemsOf(x) = {o.item}
  <2>1. <<o.item>> \in Seq(T!Items) /\ Len(<<o.item>>) = 1 /\ DOMAIN <<o.item>> = {1}
    BY <1>5
  <2>2. QED
    BY <1>5, <2>1, BlockAssumption DEF T!Object, ItemsOf, ToSet
<1>8. list \in Seq(T!Object)
  BY ThreadTypes DEF ThreadInv, T!Safety
<1> HIDE DEF x, o
<1>9. /\ list' \in Seq(T!Object) /\ Len(list') = Len(list) + 1 /\ Linked' = Linked \cup {o.item}
  BY <1>3, <1>7, <1>8, InsideAppend DEF Linked
<1>10. EnteredAs(o.item)
  BY <1>3, <1>9 DEF EnteredAs
<1>11. ListRises'
  BY <1>3, <1>5, <1>6, <1>7, <1>10, RisesByObject
<1>12. QED
  BY <1>1, <1>2, <1>3, <1>4, <1>5, <1>6, <1>7, <1>9, <1>10, <1>11 DEF o, x

\* A block for a callback enters the list.
LEMMA AddsBlock ==
  ASSUME ThreadInv, T!AddBlock
  PROVE  /\ made < MaxItems /\ made' = made + 1 /\ made' \in T!Items /\ entry[made'] = 0
         /\ EnteredAs(made')
         /\ list' \in Seq(T!Object) /\ Len(list') = Len(list) + 1
         /\ ListRises'
<1> USE DEF ThreadInv, T!Safety
<1> DEFINE x == [key |-> NoKey, items |-> <<made'>>]
<1>1. /\ made \in Nat /\ list \in Seq(T!Object)
      /\ \A j \in T!Items : j \in Nat /\ entry[j] \in Nat
  BY ThreadTypes
<1>2. made < MaxItems /\ made' = made + 1 /\ made' \in T!Items
  BY <1>1, LifetimesAssumption DEF T!AddBlock, T!Enter, T!Items
<1>3. entry[made'] = 0
  BY <1>1, <1>2 DEF Numbered
<1>4. /\ list' = Append(list, x)
      /\ entered' = entered + 1 /\ entry' = [entry EXCEPT ![made'] = entered']
      /\ UNCHANGED <<current, gone, newest>>
  BY DEF T!AddBlock, T!Enter, T!EnterAs, T!cleanup
<1>5. x \in T!Object /\ x.items = <<made'>> /\ ItemsOf(x) = {made'}
  <2>1. <<made'>> \in Seq(T!Items) /\ Len(<<made'>>) = 1 /\ DOMAIN <<made'>> = {1}
    BY <1>2
  <2>2. QED
    BY <2>1, BlockAssumption DEF T!Object, ItemsOf, ToSet
<1> HIDE DEF x
<1>6. /\ list' \in Seq(T!Object) /\ Len(list') = Len(list) + 1 /\ Linked' = Linked \cup {made'}
  BY <1>1, <1>4, <1>5, InsideAppend DEF Linked
<1>7. EnteredAs(made')
  BY <1>4, <1>6 DEF EnteredAs
<1>8. ListRises'
  BY <1>2, <1>3, <1>4, <1>5, <1>7, RisesByObject
<1>9. QED
  BY <1>2, <1>3, <1>6, <1>7, <1>8

\* What the clean-up takes is the newest object.
LEMMA TakesNewest ==
  ASSUME ThreadInv, T!Take
  PROVE  /\ Len(list) > 0 /\ Len(list) \in DOMAIN list /\ current' = list[Len(list)]
         /\ current' \in T!Object
         /\ list' \in Seq(T!Object) /\ Len(list') = Len(list) - 1
         /\ DOMAIN list' = 1..(Len(list) - 1)
         /\ \A k \in DOMAIN list' : k \in DOMAIN list /\ k < Len(list) /\ list'[k] = list[k]
         /\ Linked = Holding' \cup Linked'
         /\ newest' \in [T!Items -> 0..MaxItems]
         /\ \A i \in Holding' : newest'[i] = entered
         /\ \A i \in T!Items \ Holding' : newest'[i] = newest[i]
<1>1. T!Front(list) = Front(list) /\ T!Last(list) = Last(list)
  BY DEF T!Front, T!Last, Front, Last
<1> USE DEF ThreadInv, T!Safety
<1>2. /\ list \in Seq(T!Object) /\ list # <<>> /\ Len(list) \in Nat /\ DOMAIN list = 1..Len(list)
      /\ entered \in 0..MaxItems /\ newest \in [T!Items -> 0..MaxItems]
  BY ThreadTypes DEF T!Take, T!TypeOK
<1>3. current' = Last(list) /\ list' = Front(list)
  BY <1>1 DEF T!Take
<1>4. /\ Len(list) > 0 /\ current' = list[Len(list)] /\ current' \in T!Object
      /\ list' \in Seq(T!Object) /\ Len(list') = Len(list) - 1
      /\ \A k \in 1..(Len(list) - 1) : list'[k] = list[k]
      /\ Inside(list) = Inside(list') \cup ItemsOf(current')
  BY <1>2, <1>3, InsideFront, Zenon
<1>5. /\ DOMAIN list' = 1..(Len(list) - 1) /\ Len(list) \in DOMAIN list
      /\ \A k \in DOMAIN list' : k \in DOMAIN list /\ k < Len(list) /\ list'[k] = list[k]
  BY <1>2, <1>4
<1>6. Holding' = ItemsOf(current')
  BY DEF Holding
<1>7. newest' = [i \in T!Items |-> IF i \in Holding' THEN entered ELSE newest[i]]
  BY <1>6 DEF T!Take, ItemsOf, ToSet, T!ToSet
<1>8. Holding' \in SUBSET T!Items
  BY <1>4, <1>6, ObjectIs
<1>9. QED
  BY <1>2, <1>4, <1>5, <1>6, <1>7, <1>8 DEF Linked

\* What is destroyed or called is the last item of the object in hand.
LEMMA DestroysLast ==
  ASSUME ThreadInv, T!Destroy
  PROVE  \E last \in T!Items :
           /\ current' \in T!Object
           /\ gone' \in Seq(T!Items) /\ Len(gone') = Len(gone) + 1
           /\ gone'[Len(gone) + 1] = last /\ \A n \in 1..Len(gone) : gone'[n] = gone[n]
           /\ Gone' = Gone \cup {last}
           /\ Holding = Holding' \cup {last}
           /\ Rising(current'.items, entry) /\ \A i \in Holding' : entry[i] < entry[last]
<1> DEFINE last == Last(current.items)
<1>1. T!Front(current.items) = Front(current.items) /\ T!Last(current.items) = last
  BY DEF T!Front, T!Last, Front, Last
<1> USE DEF ThreadInv, T!Safety
<1>2. /\ current \in T!Object /\ current.items \in Seq(T!Items) /\ current.items # <<>>
      /\ Len(current.items) <= BlockSize /\ current.key \in T!Keys \cup {NoKey}
      /\ T!Items \in SUBSET Nat
  BY ThreadTypes, ObjectIs DEF T!Destroy
<1>3. /\ Front(current.items) \in Seq(T!Items)
      /\ Len(Front(current.items)) = Len(current.items) - 1 /\ Len(current.items) > 0
      /\ last \in T!Items
      /\ ToSet(current.items) = ToSet(Front(current.items)) \cup {last}
      /\ Rising(Front(current.items), entry)
      /\ \A i \in ToSet(Front(current.items)) : entry[i] < entry[last]
  BY <1>2, RisingFront DEF HandRises
<1>4. Len(Front(current.items)) <= BlockSize
  BY <1>2, <1>3, BlockAssumption
<1>5. /\ current'.items = Front(current.items) /\ current' \in T!Object
  BY <1>1, <1>2, <1>3, <1>4 DEF T!Destroy, T!Object
<1>6. gone' = Append(gone, last) /\ gone \in Seq(T!Items)
  BY <1>1, ThreadTypes DEF T!Destroy
<1> HIDE DEF last
<1>7. gone' \in Seq(T!Items) /\ Len(gone') = Len(gone) + 1 /\ ToSet(gone') = ToSet(gone) \cup {last}
  BY <1>2, <1>3, <1>6, AppendIs
<1>8. gone'[Len(gone) + 1] = last /\ \A n \in 1..Len(gone) : gone'[n] = gone[n]
  BY <1>3, <1>6
<1>9. Holding = Holding' \cup {last} /\ Holding' = ToSet(Front(current.items))
  BY <1>3, <1>5 DEF Holding, ItemsOf
<1>10. QED
  BY <1>3, <1>5, <1>7, <1>8, <1>9 DEF Gone

\* In the beginning there are no objects.
LEMMA ThreadInitially == T!Init => ThreadInv
<1> SUFFICES ASSUME T!Init PROVE ThreadInv
  OBVIOUS
<1>1. T!TypeOK
  <2>1. current \in T!Object
    BY NothingInside DEF T!Init
  <2>2. entry \in [T!Items -> 0..MaxItems] /\ newest \in [T!Items -> 0..MaxItems]
    BY LifetimesAssumption DEF T!Init
  <2>3. keys \in [Addresses -> 0..MaxKeys] /\ since \in [Addresses -> 0..MaxItems]
    BY LifetimesAssumption DEF T!Init
  <2>4. list \in Seq(T!Object) /\ building \in Seq(T!Named) /\ gone \in Seq(T!Items)
    BY DEF T!Init
  <2>5. QED
    BY <2>1, <2>2, <2>3, <2>4, LifetimesAssumption DEF T!Init, T!TypeOK
<1>2. Len(list) = 0 /\ Len(building) = 0 /\ DOMAIN list = {} /\ DOMAIN building = {} /\ DOMAIN gone = {}
  BY DEF T!Init
<1>3. T!Accounted
  BY <1>2 DEF T!Init, T!Accounted
<1>4. Gone = {} /\ Holding = {} /\ Linked = {} /\ Built = {} /\ Rising(current.items, entry)
  <2>1. gone = <<>> /\ current = T!Nothing /\ list = <<>>
    BY DEF T!Init
  <2>2. QED
    BY <1>2, <2>1, NothingInside DEF Gone, Holding, Linked, Built
<1>5. Numbered
  BY <1>2, <1>4 DEF T!Init, Numbered
<1>6. ListRises /\ HandRises /\ GoneFirst
  BY <1>2, <1>4 DEF ListRises, HandRises, GoneFirst
<1>7. Phased
  BY DEF T!Init, Phased
<1>8. NeedsEntered
  BY <1>4 DEF T!Init, NeedsEntered
<1>9. KeysTold
  BY <1>2 DEF T!Init, KeysTold
<1>10. QED
  BY <1>1, <1>3, <1>5, <1>6, <1>7, <1>8, <1>9 DEF ThreadInv, T!Safety

\* No step disturbs the invariant.
LEMMA ThreadPreserved == ASSUME ThreadInv, [T!Next]_(T!vars) PROVE ThreadInv'
<1> USE DEF ThreadInv, T!Safety
<1>1. /\ made \in Nat /\ made <= MaxItems /\ entered \in Nat /\ counter \in Nat
      /\ allocated \in Nat /\ counter <= MaxKeys
      /\ list \in Seq(T!Object) /\ Len(list) \in Nat /\ DOMAIN list = 1..Len(list)
      /\ building \in Seq(T!Named) /\ Len(building) \in Nat /\ DOMAIN building = 1..Len(building)
      /\ gone \in Seq(T!Items) /\ Len(gone) \in Nat /\ DOMAIN gone = 1..Len(gone)
      /\ current \in T!Object
      /\ \A i \in T!Items : i \in Nat /\ entry[i] \in Nat /\ newest[i] \in Nat
      /\ entry \in [T!Items -> 0..MaxItems] /\ newest \in [T!Items -> 0..MaxItems]
      /\ Gone \in SUBSET T!Items /\ Holding \in SUBSET T!Items /\ Linked \in SUBSET T!Items
      /\ Built \in SUBSET T!Items
      /\ \A k \in DOMAIN list : list[k] \in T!Object /\ \A i \in ItemsOf(list[k]) : i \in Linked
      /\ \A n \in DOMAIN gone : gone[n] \in Gone
      /\ \A k \in DOMAIN building : building[k] \in T!Named /\ building[k].item \in Built
      /\ \A x \in Addresses : keys[x] \in Nat /\ since[x] \in Nat
      /\ \A o \in tree : o \in T!Named
  BY ThreadTypes
<1>2. ASSUME NEW x \in Addresses, T!AllocKey(x) PROVE ThreadInv'
  <2>1. /\ UNCHANGED <<list, tree, building, phase, current, allocated, made, entered, entry,
                       gone, newest, needs>>
        /\ keys[x] = 0 /\ counter < MaxKeys /\ counter' = counter + 1
        /\ keys' = [keys EXCEPT ![x] = counter'] /\ since' = [since EXCEPT ![x] = made]
    BY <1>2 DEF T!AllocKey, T!cleanup, T!storage, T!entries
  <2>2. Linked' = Linked /\ Holding' = Holding /\ Gone' = Gone /\ Built' = Built
    BY <2>1 DEF Linked, Holding, Gone, Built
  <2>3. T!TypeOK'
    BY <2>1, <2>2, LifetimesAssumption, SMTT(30) DEF T!TypeOK
  <2>4. T!Accounted'
    BY <2>1 DEF T!Accounted
  <2>5. Numbered'
    BY <2>1, <2>2 DEF Numbered
  <2>6. ListRises'
    BY <2>1, <2>2 DEF ListRises
  <2>7. HandRises'
    BY <2>1, <2>2 DEF HandRises, After, WasTaken
  <2>8. GoneFirst'
    BY <2>1, <2>2 DEF GoneFirst, After, WasTaken
  <2>9. Phased'
    BY <2>1, <2>2 DEF Phased
  <2>10. NeedsEntered'
    BY <2>1, <2>2 DEF NeedsEntered
  <2>11. KeysTold'
    <3>1. \A y \in Addresses : /\ keys'[y] = IF y = x THEN counter + 1 ELSE keys[y]
                               /\ since'[y] = IF y = x THEN made ELSE since[y]
      BY <2>1, <2>2 DEF T!TypeOK
    <3>2. \A k \in DOMAIN building : building[k].key[1] \in Addresses /\ building[k].key[1] # x
      <4>1. \A k \in DOMAIN building : building[k].key[1] \in Addresses /\ building[k].key[2] > 0
        BY <1>1, NamedIs
      <4>2. QED
        BY <2>1, <4>1 DEF KeysTold
    <3>3. \A h \in tree : h.key[1] \in Addresses /\ h.key[2] \in Nat
      BY <1>1, NamedIs
    <3>4. \A h \in tree : keys'[h.key[1]] = h.key[2] => h.item > since'[h.key[1]]
      <4>1. SUFFICES ASSUME NEW h \in tree, keys'[h.key[1]] = h.key[2]
                     PROVE  h.item > since'[h.key[1]]
        OBVIOUS
      <4>2. h.key[2] <= counter /\ h.key[2] \in Nat
        BY <3>3 DEF KeysTold
      <4>3. h.key[1] # x
        BY <1>1, <3>1, <4>1, <4>2
      <4>4. QED
        BY <3>1, <3>3, <4>1, <4>3 DEF KeysTold
    <3>5. \A y \in Addresses : keys'[y] <= counter' /\ since'[y] <= made
      BY <1>1, <2>1 DEF KeysTold
    <3>6. \A h \in tree : h.key[2] <= counter'
      BY <1>1, <2>1, <3>3 DEF KeysTold
    <3>7. QED
      BY <2>1, <3>2, <3>4, <3>5, <3>6 DEF KeysTold
  <2>12. QED
    BY <2>3, <2>4, <2>5, <2>6, <2>7, <2>8, <2>9, <2>10, <2>11
<1>3. ASSUME NEW x \in Addresses, T!FreeKey(x) PROVE ThreadInv'
  <2>1. /\ UNCHANGED <<counter, list, tree, building, phase, current, allocated, made, since,
                       entered, entry, gone, newest, needs>>
        /\ (\A k \in DOMAIN building : building[k].key[1] # x)
        /\ keys' = [keys EXCEPT ![x] = 0]
    BY <1>3 DEF T!FreeKey, T!InUse, T!cleanup, T!storage, T!entries
  <2>2. Linked' = Linked /\ Holding' = Holding /\ Gone' = Gone /\ Built' = Built
    BY <2>1 DEF Linked, Holding, Gone, Built
  <2>3. T!TypeOK'
    BY <2>1, <2>2, LifetimesAssumption, SMTT(30) DEF T!TypeOK
  <2>4. T!Accounted'
    BY <2>1 DEF T!Accounted
  <2>5. Numbered'
    BY <2>1, <2>2 DEF Numbered
  <2>6. ListRises'
    BY <2>1, <2>2 DEF ListRises
  <2>7. HandRises'
    BY <2>1, <2>2 DEF HandRises, After, WasTaken
  <2>8. GoneFirst'
    BY <2>1, <2>2 DEF GoneFirst, After, WasTaken
  <2>9. Phased'
    BY <2>1, <2>2 DEF Phased
  <2>10. NeedsEntered'
    BY <2>1, <2>2 DEF NeedsEntered
  <2>11. KeysTold'
    <3>1. \A h \in tree : h.key[1] \in Addresses /\ h.key[2] > 0
      BY <1>1, NamedIs
    <3>2. QED
      BY <1>1, <2>1, <3>1 DEF KeysTold
  <2>12. QED
    BY <2>3, <2>4, <2>5, <2>6, <2>7, <2>8, <2>9, <2>10, <2>11
<1>4. ASSUME NEW x \in Addresses, T!Get(x) PROVE ThreadInv'
  <2>1. /\ UNCHANGED <<keys, counter, list, tree, building, phase, current, allocated, made,
                       since, entered, entry, gone, newest>>
        /\ \E h \in tree : needs' = needs \cup {<<i, h.item>> : i \in Built}
    BY <1>4 DEF T!Get, T!Found, T!Needing, Built, T!keyVars, T!cleanup, T!entries
  <2>2. Linked' = Linked /\ Holding' = Holding /\ Gone' = Gone /\ Built' = Built
    BY <2>1 DEF Linked, Holding, Gone, Built
  <2>3. T!TypeOK'
    <3>1. PICK h \in tree : needs' = needs \cup {<<i, h.item>> : i \in Built}
      BY <2>1, <2>2
    <3>2. h.item \in T!Items
      BY <1>1, NamedIs
    <3>3. needs' \in SUBSET (T!Items \X T!Items)
      BY <1>1, <3>1, <3>2, SMTT(30) DEF T!TypeOK
    <3>4. QED
      BY <2>1, <3>3 DEF T!TypeOK
  <2>4. T!Accounted'
    BY <2>1 DEF T!Accounted
  <2>5. Numbered'
    BY <2>1, <2>2 DEF Numbered
  <2>6. ListRises'
    BY <2>1, <2>2 DEF ListRises
  <2>7. HandRises'
    BY <2>1, <2>2 DEF HandRises, After, WasTaken
  <2>8. GoneFirst'
    BY <2>1, <2>2 DEF GoneFirst, After, WasTaken
  <2>9. Phased'
    BY <2>1, <2>2 DEF Phased
  <2>10. NeedsEntered'
    <3>1. PICK found \in tree : needs' = needs \cup {<<i, found.item>> : i \in Built}
      BY <2>1, <2>2
    <3>2. entry[found.item] > 0
      BY DEF KeysTold
    <3>3. \A i \in Built : i <= made /\ entry[i] = 0
      BY DEF Numbered
    <3>4. ~LookUps /\ Built # {} => Gone = {} /\ Holding = {}
      BY NothingTaken DEF Built
    <3>5. \A i, j \in T!Items : <<i, j>> \in needs' => <<i, j>> \in needs \/ (i \in Built /\ j = found.item)
      BY <3>1
    <3>6. \A i, j \in T!Items : <<i, j>> \in needs' => /\ i <= made /\ entry[j] > 0
                                                       /\ entry[i] > 0 => entry[j] < entry[i]
      BY <3>2, <3>3, <3>5 DEF NeedsEntered
    <3>7. ~LookUps => \A i, j \in T!Items :
                        <<i, j>> \in needs' => \A h \in Gone \cup Holding : entry[i] <= newest[h]
      BY <3>4, <3>5 DEF NeedsEntered
    <3>8. QED
      BY <2>1, <2>2, <3>6, <3>7 DEF NeedsEntered
  <2>11. KeysTold'
    BY <2>1, <2>2 DEF KeysTold
  <2>12. QED
    BY <2>3, <2>4, <2>5, <2>6, <2>7, <2>8, <2>9, <2>10, <2>11
<1>5. ASSUME NEW x \in Addresses, T!Require(x) PROVE ThreadInv'
  <2>1. /\ made < MaxItems /\ made' = made + 1 /\ made' \in T!Items /\ entry[made'] = 0
        /\ keys[x] > 0 /\ keys[x] \in Nat
        /\ \A o \in tree : o.key # <<x, keys[x]>>
        /\ \A k \in DOMAIN building : building[k].key[1] # x
        /\ building' \in Seq(T!Named) /\ Len(building') = Len(building) + 1
        /\ DOMAIN building' = 1..(Len(building) + 1)
        /\ building'[Len(building) + 1].key = <<x, keys[x]>>
        /\ building'[Len(building) + 1].item = made'
        /\ \A k \in DOMAIN building : building'[k] = building[k]
        /\ Built' = Built \cup {made'}
    BY <1>5, BuildingMore
  <2>2. /\ UNCHANGED <<keys, counter, list, tree, phase, current, since, entered, entry,
                       gone, newest, needs>>
        /\ (phase = "up" \/ (phase = "run" /\ LookUps)) /\ allocated' = allocated + 1
    BY <1>5 DEF T!Require, T!MayLook, T!keyVars, T!cleanup, T!entries
  <2>3. Linked' = Linked /\ Holding' = Holding /\ Gone' = Gone
    BY <2>2 DEF Linked, Holding, Gone
  <2>4. T!TypeOK'
    <3>1. made' \in 0..MaxItems /\ allocated' \in 0..MaxItems
      BY <1>1, <2>1, <2>2, LifetimesAssumption DEF Numbered
    <3>2. QED
      BY <2>1, <2>2, <3>1 DEF T!TypeOK
  <2>5. T!Accounted'
    BY <2>1, <2>2 DEF T!Accounted
  <2>6. Numbered'
    <3>1. \A i \in T!Items : i <= made => i <= made'
      BY <1>1, <2>1
    <3>2. /\ entered' + Len(building') <= made' /\ allocated' <= made'
      BY <1>1, <2>1, <2>2 DEF Numbered
    <3>3. \A i \in T!Items : /\ entry[i] <= entered
                             /\ entry[i] > 0 => i <= made'
                             /\ entry[i] > 0 <=> i \in Gone \cup Holding \cup Linked
      BY <3>1 DEF Numbered
    <3>4. \A i \in Built' : i <= made' /\ entry[i] = 0
      BY <1>1, <2>1 DEF Numbered
    <3>5. \A j, k \in DOMAIN building' : j # k => building'[j].item # building'[k].item
      <4>1. \A k \in DOMAIN building : building[k].item # made'
        BY <1>1, <2>1 DEF Numbered
      <4>2. QED
        BY <2>1, <4>1 DEF Numbered
    <3>6. QED
      BY <2>2, <2>3, <3>2, <3>3, <3>4, <3>5 DEF Numbered
  <2>7. ListRises'
    BY <2>2 DEF ListRises
  <2>8. HandRises'
    BY <2>2, <2>3 DEF HandRises, After, WasTaken
  <2>9. GoneFirst'
    BY <2>2, <2>3 DEF GoneFirst, After, WasTaken
  <2>10. Phased'
    BY <2>2 DEF Phased
  <2>11. NeedsEntered'
    <3>1. \A i \in T!Items : i <= made => i <= made'
      BY <1>1, <2>1
    <3>2. QED
      BY <2>2, <2>3, <3>1 DEF NeedsEntered
  <2>12. KeysTold'
    <3>1. \A k \in DOMAIN building' : k \in DOMAIN building \/ k = Len(building) + 1
      BY <1>1, <2>1
    <3>2. \A y \in Addresses : since[y] <= made' /\ since[x] < made'
      BY <1>1, <2>1, SMTT(30) DEF KeysTold
    <3>3. \A k \in DOMAIN building' :
            /\ keys[building'[k].key[1]] = building'[k].key[2]
            /\ building'[k].item > since[building'[k].key[1]]
            /\ \A h \in tree : h.key # building'[k].key
      BY <2>1, <3>1, <3>2 DEF KeysTold
    <3>4. \A j, k \in DOMAIN building' : j # k => building'[j].key[1] # building'[k].key[1]
      BY <2>1, <3>1 DEF KeysTold
    <3>5. QED
      BY <2>2, <3>2, <3>3, <3>4 DEF KeysTold
  <2>13. QED
    BY <2>4, <2>5, <2>6, <2>7, <2>8, <2>9, <2>10, <2>11, <2>12
<1>6. ASSUME T!Constructed PROVE ThreadInv'
  <2>1. PICK o \in T!Named :
        /\ building # <<>> /\ building' = T!Front(building) /\ o = T!Last(building)
        /\ [key |-> o.key, items |-> <<o.item>>] \in T!Object
        /\ list' = Append(list, [key |-> o.key, items |-> <<o.item>>])
        /\ list' \in Seq(T!Object) /\ Len(list') = Len(list) + 1
        /\ tree' = tree \cup {o}
        /\ o.item \in T!Items /\ entry[o.item] = 0 /\ EnteredAs(o.item)
        /\ needs' = needs \cup {<<i, o.item>> : i \in Built'}
        /\ UNCHANGED <<keys, counter, since, allocated, made, phase>>
        /\ ListRises'
    BY <1>6, Constructs
  <2>2. /\ o = building[Len(building)]
        /\ Len(building) > 0 /\ Len(building) \in DOMAIN building
        /\ building' \in Seq(T!Named) /\ Len(building') = Len(building) - 1
        /\ DOMAIN building' = 1..(Len(building) - 1)
        /\ \A k \in DOMAIN building' : /\ k \in DOMAIN building /\ building'[k] = building[k]
                                       /\ k # Len(building)
        /\ Built' \subseteq Built
        /\ o.item \in Built /\ o.item \notin Built'
    BY <2>1, BuildingLess
  <2>3. /\ HandRises' /\ GoneFirst'
        /\ Gone' = Gone /\ Holding' = Holding
        /\ entry' \in [T!Items -> Nat] /\ entry'[o.item] = entered + 1
        /\ \A j \in T!Items : j # o.item => entry'[j] = entry[j]
        /\ \A j \in T!Items : /\ entry'[j] <= entered'
                              /\ entry'[j] > 0 <=> j \in Gone' \cup Holding' \cup Linked'
        /\ \A j \in Gone \cup Holding \cup Linked : j # o.item /\ entry[j] <= entered
    BY <2>1, Enters
  <2>4. entered' = entered + 1 /\ Linked' = Linked \cup {o.item} /\ UNCHANGED <<current, gone, newest>>
    BY <2>1 DEF EnteredAs
  <2>5. /\ UNCHANGED <<keys, counter, phase, current, allocated, made, since, gone, newest>>
        /\ phase = phase
    BY <1>6 DEF T!Constructed, T!keyVars, T!cleanup
  <2>6. T!TypeOK'
    <3>1. entered' \in 0..MaxItems
      BY <1>1, <2>1, <2>4, LifetimesAssumption DEF Numbered
    <3>2. entry' \in [T!Items -> 0..MaxItems]
      <4>1. \A j \in T!Items : entry'[j] \in 0..MaxItems
        BY <2>3, <2>5, <3>1, LifetimesAssumption
      <4>2. QED
        BY <2>3, <4>1
    <3>3. needs' \in SUBSET (T!Items \X T!Items)
      <4>1. Built' \in SUBSET T!Items
        BY <1>1, <2>2
      <4>2. QED
        BY <2>1, <4>1 DEF T!TypeOK
    <3>4. QED
      BY <2>1, <2>2, <2>4, <3>1, <3>2, <3>3 DEF T!TypeOK
  <2>7. T!Accounted'
    BY <2>1, <2>2 DEF T!Accounted
  <2>8. Numbered'
    <3>1. entered' + Len(building') <= made' /\ allocated' <= made'
      BY <1>1, <2>1, <2>2, <2>4 DEF Numbered
    <3>2. \A i \in Built' : i <= made' /\ entry'[i] = 0
      <4>1. \A i \in Built' : i \in T!Items /\ i # o.item /\ i <= made /\ entry[i] = 0
        BY <1>1, <2>2 DEF Numbered
      <4>2. QED
        BY <2>1, <2>3, <4>1
    <3>3. QED
      BY <2>1, <2>2, <2>3, <2>4, <3>1, <3>2 DEF Numbered
  <2>9. ListRises'
    BY <2>1
  <2>10. HandRises'
    BY <2>3
  <2>11. GoneFirst'
    BY <2>3
  <2>12. Phased'
    BY <2>1, <2>4 DEF Phased
  <2>13. NeedsEntered'
    <3>1. \A i, j \in T!Items :
            <<i, j>> \in needs' => <<i, j>> \in needs \/ (i \in Built' /\ j = o.item)
      BY <2>1
    <3>2. \A i \in Built' : i <= made /\ entry[i] = 0 /\ i # o.item
      BY <2>2 DEF Numbered
    <3>3. ~LookUps => Gone = {} /\ Holding = {}
      BY <2>1, NothingTaken
    <3>4. \A i, j \in T!Items :
            <<i, j>> \in needs' => /\ i <= made' /\ entry'[j] > 0
                                   /\ entry'[i] > 0 => entry'[j] < entry'[i]
      <4>1. SUFFICES ASSUME NEW i \in T!Items, NEW j \in T!Items, <<i, j>> \in needs'
                     PROVE  /\ i <= made /\ entry'[j] > 0
                            /\ entry'[i] > 0 => entry'[j] < entry'[i]
        BY <2>1
      <4>2. CASE <<i, j>> \in needs
        <5>1. /\ i <= made /\ entry[j] > 0 /\ (entry[i] > 0 => entry[j] < entry[i])
          BY <4>2 DEF NeedsEntered
        <5>2. j # o.item /\ entry'[j] = entry[j] /\ entry[j] <= entered
          BY <2>3, <5>1 DEF Numbered
        <5>3. CASE i = o.item
          BY <1>1, <2>3, <5>1, <5>2, <5>3
        <5>4. CASE i # o.item
          BY <2>3, <5>1, <5>2, <5>4
        <5>5. QED
          BY <5>3, <5>4
      <4>3. CASE i \in Built' /\ j = o.item
        BY <1>1, <2>3, <3>2, <4>3
      <4>4. QED
        BY <3>1, <4>1, <4>2, <4>3
    <3>5. QED
      BY <2>3, <3>3, <3>4 DEF NeedsEntered
  <2>14. KeysTold'
    <3>1. /\ keys[o.key[1]] = o.key[2] /\ o.item > since[o.key[1]]
          /\ \A h \in tree : h.key # o.key
      BY <2>2, <2>5 DEF KeysTold
    <3>2. o.key[1] \in Addresses
      BY NamedIs
    <3>3. o.key[2] <= counter
      BY <3>1, <3>2 DEF KeysTold
    <3>4. \A h \in tree' : h.key[2] <= counter /\ entry'[h.item] > 0
      <4>1. \A h \in tree : entry[h.item] > 0 /\ h.item \in T!Items /\ h.key[2] <= counter
        BY <1>1, NamedIs DEF KeysTold
      <4>2. QED
        BY <2>1, <2>3, <2>4, <3>3, <4>1
    <3>5. \A h \in tree' : keys[h.key[1]] = h.key[2] => h.item > since[h.key[1]]
      BY <2>1, <2>2 DEF KeysTold
    <3>6. \A h, g \in tree' : h.key = g.key => h = g
      BY <2>1, <2>2 DEF KeysTold
    <3>7. QED
      BY <2>1, <2>2, <3>4, <3>5, <3>6, SMTT(30) DEF KeysTold
  <2>15. QED
    BY <2>6, <2>7, <2>8, <2>9, <2>10, <2>11, <2>12, <2>13, <2>14
<1>7. ASSUME T!ConstructorFails PROVE ThreadInv'
  <2>1. /\ UNCHANGED <<keys, counter, list, tree, phase, current, made, since, entered,
                       entry, gone, newest, needs>>
        /\ building # <<>> /\ building' = T!Front(building) /\ allocated' = allocated - 1
    BY <1>7 DEF T!ConstructorFails, T!keyVars, T!cleanup, T!entries
  <2>2. /\ Len(building) > 0 /\ Len(building) \in DOMAIN building
        /\ building' \in Seq(T!Named) /\ Len(building') = Len(building) - 1
        /\ DOMAIN building' = 1..(Len(building) - 1)
        /\ \A k \in DOMAIN building' : /\ k \in DOMAIN building /\ building'[k] = building[k]
                                       /\ k # Len(building)
        /\ Built' \subseteq Built
    BY <2>1, BuildingLess
  <2>3. Linked' = Linked /\ Holding' = Holding /\ Gone' = Gone
    BY <2>1 DEF Linked, Holding, Gone
  <2>4. T!TypeOK'
    <3>1. allocated' \in 0..MaxItems
      BY <2>1, LifetimesAssumption DEF T!Accounted, T!TypeOK
    <3>2. QED
      BY <2>2, <2>1, <3>1 DEF T!TypeOK
  <2>5. T!Accounted'
    BY <2>2, <2>1 DEF T!Accounted
  <2>6. Numbered'
    <3>1. /\ entered + Len(building) <= made /\ allocated <= made
          /\ entered \in Nat /\ made \in Nat /\ allocated \in Nat /\ Len(building) \in Nat
      BY <1>1, <2>2 DEF Numbered, T!TypeOK
    <3>2. entered' + Len(building') <= made' /\ allocated' <= made'
      BY <3>1, <2>1, <2>2
    <3>3. \A i \in T!Items : /\ entry'[i] <= entered'
                             /\ entry'[i] > 0 => i <= made'
                             /\ entry'[i] > 0 <=> i \in Gone' \cup Holding' \cup Linked'
      BY <2>1, <2>3 DEF Numbered
    <3>4. \A i \in Built' : i <= made' /\ entry'[i] = 0
      BY <2>1, <2>2 DEF Numbered
    <3>5. \A j, k \in DOMAIN building' : j # k => building'[j].item # building'[k].item
      BY <2>2 DEF Numbered
    <3>6. QED
      BY <3>2, <3>3, <3>4, <3>5 DEF Numbered
  <2>7. ListRises'
    BY <2>1 DEF ListRises
  <2>8. HandRises'
    BY <2>1, <2>3 DEF HandRises, After, WasTaken
  <2>9. GoneFirst'
    BY <2>1, <2>3 DEF GoneFirst, After, WasTaken
  <2>10. Phased'
    BY <2>1 DEF Phased
  <2>11. NeedsEntered'
    BY <2>1, <2>3 DEF NeedsEntered
  <2>12. KeysTold'
    BY <2>2, <2>1 DEF KeysTold
  <2>13. QED
    BY <2>4, <2>5, <2>6, <2>7, <2>8, <2>9, <2>10, <2>11, <2>12
<1>8. ASSUME T!AddCallback PROVE ThreadInv'
  <2>1. /\ made < MaxItems /\ made' = made + 1 /\ made' \in T!Items /\ entry[made'] = 0
        /\ EnteredAs(made')
        /\ list' \in Seq(T!Object) /\ Len(list') = Len(list)
        /\ ListRises'
    BY <1>8, AddsToNewest
  <2>2. /\ HandRises' /\ GoneFirst'
        /\ Gone' = Gone /\ Holding' = Holding
        /\ entry' \in [T!Items -> Nat] /\ entry'[made'] = entered + 1
        /\ \A j \in T!Items : j # made' => entry'[j] = entry[j]
        /\ \A j \in T!Items : /\ entry'[j] <= entered'
                              /\ entry'[j] > 0 <=> j \in Gone' \cup Holding' \cup Linked'
        /\ \A j \in Gone \cup Holding \cup Linked : j # made' /\ entry[j] <= entered
    BY <2>1, Enters
  <2>3. entered' = entered + 1 /\ Linked' = Linked \cup {made'} /\ UNCHANGED <<current, gone, newest>>
    BY <2>1 DEF EnteredAs
  <2>4. /\ UNCHANGED <<keys, counter, tree, building, phase, current, allocated, since, gone,
                       newest>>
        /\ needs' = needs \cup {<<i, made'>> : i \in Built} /\ phase \in {"up", "run"}
    BY <1>8 DEF T!AddCallback, T!Enter, T!Running, T!Needing, Built, T!keyVars,
       T!cleanup
  <2>5. Built' = Built
    BY <2>4 DEF Built
  <2>6. T!TypeOK'
    <3>1. entered' \in 0..MaxItems
      BY <1>1, <2>1, <2>3, LifetimesAssumption DEF Numbered
    <3>2. entry' \in [T!Items -> 0..MaxItems]
      <4>1. \A j \in T!Items : entry'[j] \in 0..MaxItems
        BY <1>1, <2>2, <2>3, <3>1
      <4>2. QED
        BY <2>2, <4>1
    <3>3. made' \in 0..MaxItems /\ allocated' \in 0..MaxItems
      BY <1>1, <2>1, <2>4, LifetimesAssumption, SMTT(30) DEF Numbered
    <3>4. needs' \in SUBSET (T!Items \X T!Items)
      <4>1. Built' \in SUBSET T!Items
        BY <1>1, <2>5
      <4>2. needs \in SUBSET (T!Items \X T!Items) /\ Built \in SUBSET T!Items
        BY <2>5, <4>1 DEF T!TypeOK
      <4>3. \A i \in Built : <<i, made'>> \in T!Items \X T!Items
        BY <2>1, <4>2
      <4>4. QED
        BY <2>4, <4>2, <4>3
    <3>5. QED
      BY <2>1, <2>4, <3>1, <3>2, <3>3, <3>4 DEF T!TypeOK
  <2>7. T!Accounted'
    BY <2>1, <2>4 DEF T!Accounted
  <2>8. Numbered'
    <3>1. entered' + Len(building') <= made' /\ allocated' <= made'
      BY <1>1, <2>1, <2>3, <2>4 DEF Numbered
    <3>2. \A i \in T!Items : /\ entry'[i] <= entered'
                             /\ entry'[i] > 0 <=> i \in Gone' \cup Holding' \cup Linked'
      BY <2>2
    <3>3. \A i \in T!Items : i # made' /\ entry'[i] > 0 => i <= made
      BY <2>2 DEF Numbered
    <3>4. \A i \in T!Items : entry'[i] > 0 => i <= made'
      <4>1. made \in Nat /\ made' = made + 1 /\ T!Items \in SUBSET Nat
        BY <1>1, <2>1
      <4>2. QED
        BY <3>3, <4>1
    <3>5. \A i \in Built : i <= made /\ entry[i] = 0 /\ i # made' /\ i \in T!Items
      BY <1>1, <2>1 DEF Numbered
    <3>6. \A i \in Built' : i <= made' /\ entry'[i] = 0
      <4>1. \A i \in Built' : entry'[i] = 0
        BY <2>2, <2>5, <3>5
      <4>2. made \in Nat /\ \A i \in Built' : i \in Nat /\ i <= made
        BY <1>1, <2>5, <3>5
      <4>3. QED
        BY <2>1, <4>1, <4>2
    <3>7. \A j, k \in DOMAIN building' : j # k => building'[j].item # building'[k].item
      <4>1. building' = building
        BY <2>4
      <4>2. \A j, k \in DOMAIN building : j # k => building[j].item # building[k].item
        BY DEF Numbered
      <4>3. QED
        BY <4>1, <4>2
    <3>8. \A i \in T!Items : /\ entry'[i] <= entered'
                             /\ entry'[i] > 0 => i <= made'
                             /\ entry'[i] > 0 <=> i \in Gone' \cup Holding' \cup Linked'
      BY <3>2, <3>4
    <3>9. QED
      BY <3>1, <3>6, <3>7, <3>8 DEF Numbered
  <2>9. ListRises'
    BY <2>1
  <2>10. HandRises'
    BY <2>2
  <2>11. GoneFirst'
    BY <2>2
  <2>12. Phased'
    BY <2>4 DEF Phased
  <2>13. NeedsEntered'
    <3>1. \A i, j \in T!Items :
            <<i, j>> \in needs' => <<i, j>> \in needs \/ (i \in Built /\ j = made')
      BY <2>4
    <3>2. \A i \in Built : i <= made /\ entry[i] = 0 /\ i # made'
      BY <1>1, <2>1 DEF Numbered
    <3>3. ~LookUps /\ Built # {} => Gone = {} /\ Holding = {}
      BY NothingTaken DEF Built
    <3>4. \A i, j \in T!Items : <<i, j>> \in needs =>
            /\ i <= made' /\ entry'[i] = entry[i] /\ entry'[j] = entry[j]
            /\ entry[j] > 0 /\ (entry[i] > 0 => entry[j] < entry[i])
      <4>1. SUFFICES ASSUME NEW i \in T!Items, NEW j \in T!Items, <<i, j>> \in needs
                     PROVE  /\ i <= made' /\ entry'[i] = entry[i] /\ entry'[j] = entry[j]
                            /\ entry[j] > 0 /\ (entry[i] > 0 => entry[j] < entry[i])
        OBVIOUS
      <4>2. /\ i <= made /\ entry[j] > 0 /\ (entry[i] > 0 => entry[j] < entry[i])
        BY <4>1 DEF NeedsEntered
      <4>3. made' = made + 1 /\ made \in Nat /\ entry[made'] = 0 /\ i \in Nat
        BY <1>1, <2>1
      <4>4. j # made'
        BY <4>2, <4>3
      <4>5. i # made' /\ i <= made'
        BY <4>2, <4>3
      <4>6. QED
        BY <2>2, <4>1, <4>2, <4>4, <4>5
    <3>5. \A i \in Built : i \in T!Items /\ entry'[i] = 0 /\ i <= made' /\ entry'[made'] > 0
      BY <1>1, <2>1, <2>2, <3>2
    <3>6. \A i, j \in T!Items :
            <<i, j>> \in needs' => /\ i <= made' /\ entry'[j] > 0
                                   /\ entry'[i] > 0 => entry'[j] < entry'[i]
      BY <3>1, <3>4, <3>5
    <3>7. ~LookUps => \A i, j \in T!Items :
                        <<i, j>> \in needs' => \A h \in Gone' \cup Holding' : entry'[i] <= newest'[h]
      BY <2>2, <2>4, <3>3, <3>4 DEF NeedsEntered
    <3>8. QED
      BY <3>6, <3>7 DEF NeedsEntered
  <2>14. KeysTold'
    <3>1. \A h \in tree : entry'[h.item] > 0
      <4>1. \A h \in tree : entry[h.item] > 0 /\ h.item \in T!Items
        BY <1>1, NamedIs DEF KeysTold
      <4>2. QED
        BY <2>2, <2>3, <4>1
    <3>2. \A y \in Addresses : since[y] <= made'
      BY <1>1, <2>1 DEF KeysTold
    <3>3. QED
      BY <2>4, <3>1, <3>2 DEF KeysTold
  <2>15. QED
    BY <2>6, <2>7, <2>8, <2>9, <2>10, <2>11, <2>12, <2>13, <2>14
<1>9. ASSUME T!AddBlock PROVE ThreadInv'
  <2>1. /\ made < MaxItems /\ made' = made + 1 /\ made' \in T!Items /\ entry[made'] = 0
        /\ EnteredAs(made')
        /\ list' \in Seq(T!Object) /\ Len(list') = Len(list) + 1
        /\ ListRises'
    BY <1>9, AddsBlock
  <2>2. /\ HandRises' /\ GoneFirst'
        /\ Gone' = Gone /\ Holding' = Holding
        /\ entry' \in [T!Items -> Nat] /\ entry'[made'] = entered + 1
        /\ \A j \in T!Items : j # made' => entry'[j] = entry[j]
        /\ \A j \in T!Items : /\ entry'[j] <= entered'
                              /\ entry'[j] > 0 <=> j \in Gone' \cup Holding' \cup Linked'
        /\ \A j \in Gone \cup Holding \cup Linked : j # made' /\ entry[j] <= entered
    BY <2>1, Enters
  <2>3. entered' = entered + 1 /\ Linked' = Linked \cup {made'} /\ UNCHANGED <<current, gone, newest>>
    BY <2>1 DEF EnteredAs
  <2>4. /\ UNCHANGED <<keys, counter, tree, building, phase, current, since, gone, newest>>
        /\ needs' = needs \cup {<<i, made'>> : i \in Built} /\ phase \in {"up", "run"}
        /\ allocated' = allocated + 1
    BY <1>9 DEF T!AddBlock, T!Enter, T!Running, T!Needing, Built, T!keyVars, T!cleanup
  <2>5. Built' = Built
    BY <2>4 DEF Built
  <2>6. T!TypeOK'
    <3>1. entered' \in 0..MaxItems
      BY <1>1, <2>1, <2>3, LifetimesAssumption DEF Numbered
    <3>2. entry' \in [T!Items -> 0..MaxItems]
      <4>1. \A j \in T!Items : entry'[j] \in 0..MaxItems
        BY <1>1, <2>2, <2>3, <3>1
      <4>2. QED
        BY <2>2, <4>1
    <3>3. made' \in 0..MaxItems /\ allocated' \in 0..MaxItems
      BY <1>1, <2>1, <2>4, LifetimesAssumption DEF Numbered
    <3>4. needs' \in SUBSET (T!Items \X T!Items)
      <4>1. Built' \in SUBSET T!Items
        BY <1>1, <2>5
      <4>2. needs \in SUBSET (T!Items \X T!Items) /\ Built \in SUBSET T!Items
        BY <2>5, <4>1 DEF T!TypeOK
      <4>3. \A i \in Built : <<i, made'>> \in T!Items \X T!Items
        BY <2>1, <4>2
      <4>4. QED
        BY <2>4, <4>2, <4>3
    <3>5. QED
      BY <2>1, <2>4, <3>1, <3>2, <3>3, <3>4 DEF T!TypeOK
  <2>7. T!Accounted'
    BY <2>1, <2>4 DEF T!Accounted
  <2>8. Numbered'
    <3>1. entered' + Len(building') <= made' /\ allocated' <= made'
      BY <1>1, <2>1, <2>3, <2>4 DEF Numbered
    <3>2. \A i \in T!Items : /\ entry'[i] <= entered'
                             /\ entry'[i] > 0 <=> i \in Gone' \cup Holding' \cup Linked'
      BY <2>2
    <3>3. \A i \in T!Items : i # made' /\ entry'[i] > 0 => i <= made
      BY <2>2 DEF Numbered
    <3>4. \A i \in T!Items : entry'[i] > 0 => i <= made'
      <4>1. made \in Nat /\ made' = made + 1 /\ T!Items \in SUBSET Nat
        BY <1>1, <2>1
      <4>2. QED
        BY <3>3, <4>1
    <3>5. \A i \in Built : i <= made /\ entry[i] = 0 /\ i # made' /\ i \in T!Items
      BY <1>1, <2>1 DEF Numbered
    <3>6. \A i \in Built' : i <= made' /\ entry'[i] = 0
      <4>1. \A i \in Built' : entry'[i] = 0
        BY <2>2, <2>5, <3>5
      <4>2. made \in Nat /\ \A i \in Built' : i \in Nat /\ i <= made
        BY <1>1, <2>5, <3>5
      <4>3. QED
        BY <2>1, <4>1, <4>2
    <3>7. \A j, k \in DOMAIN building' : j # k => building'[j].item # building'[k].item
      <4>1. building' = building
        BY <2>4
      <4>2. \A j, k \in DOMAIN building : j # k => building[j].item # building[k].item
        BY DEF Numbered
      <4>3. QED
        BY <4>1, <4>2
    <3>8. \A i \in T!Items : /\ entry'[i] <= entered'
                             /\ entry'[i] > 0 => i <= made'
                             /\ entry'[i] > 0 <=> i \in Gone' \cup Holding' \cup Linked'
      BY <3>2, <3>4
    <3>9. QED
      BY <3>1, <3>6, <3>7, <3>8 DEF Numbered
  <2>9. ListRises'
    BY <2>1
  <2>10. HandRises'
    BY <2>2
  <2>11. GoneFirst'
    BY <2>2
  <2>12. Phased'
    BY <2>4 DEF Phased
  <2>13. NeedsEntered'
    <3>1. \A i, j \in T!Items :
            <<i, j>> \in needs' => <<i, j>> \in needs \/ (i \in Built /\ j = made')
      BY <2>4
    <3>2. \A i \in Built : i <= made /\ entry[i] = 0 /\ i # made'
      BY <1>1, <2>1 DEF Numbered
    <3>3. ~LookUps /\ Built # {} => Gone = {} /\ Holding = {}
      BY NothingTaken DEF Built
    <3>4. \A i, j \in T!Items : <<i, j>> \in needs =>
            /\ i <= made' /\ entry'[i] = entry[i] /\ entry'[j] = entry[j]
            /\ entry[j] > 0 /\ (entry[i] > 0 => entry[j] < entry[i])
      <4>1. SUFFICES ASSUME NEW i \in T!Items, NEW j \in T!Items, <<i, j>> \in needs
                     PROVE  /\ i <= made' /\ entry'[i] = entry[i] /\ entry'[j] = entry[j]
                            /\ entry[j] > 0 /\ (entry[i] > 0 => entry[j] < entry[i])
        OBVIOUS
      <4>2. /\ i <= made /\ entry[j] > 0 /\ (entry[i] > 0 => entry[j] < entry[i])
        BY <4>1 DEF NeedsEntered
      <4>3. made' = made + 1 /\ made \in Nat /\ entry[made'] = 0 /\ i \in Nat
        BY <1>1, <2>1
      <4>4. j # made'
        BY <4>2, <4>3
      <4>5. i # made' /\ i <= made'
        BY <4>2, <4>3
      <4>6. QED
        BY <2>2, <4>1, <4>2, <4>4, <4>5
    <3>5. \A i \in Built : i \in T!Items /\ entry'[i] = 0 /\ i <= made' /\ entry'[made'] > 0
      BY <1>1, <2>1, <2>2, <3>2
    <3>6. \A i, j \in T!Items :
            <<i, j>> \in needs' => /\ i <= made' /\ entry'[j] > 0
                                   /\ entry'[i] > 0 => entry'[j] < entry'[i]
      BY <3>1, <3>4, <3>5
    <3>7. ~LookUps => \A i, j \in T!Items :
                        <<i, j>> \in needs' => \A h \in Gone' \cup Holding' : entry'[i] <= newest'[h]
      BY <2>2, <2>4, <3>3, <3>4 DEF NeedsEntered
    <3>8. QED
      BY <3>6, <3>7 DEF NeedsEntered
  <2>14. KeysTold'
    <3>1. \A h \in tree : entry'[h.item] > 0
      <4>1. \A h \in tree : entry[h.item] > 0 /\ h.item \in T!Items
        BY <1>1, NamedIs DEF KeysTold
      <4>2. QED
        BY <2>2, <2>3, <4>1
    <3>2. \A y \in Addresses : since[y] <= made'
      BY <1>1, <2>1 DEF KeysTold
    <3>3. QED
      BY <2>4, <3>1, <3>2 DEF KeysTold
  <2>15. QED
    BY <2>6, <2>7, <2>8, <2>9, <2>10, <2>11, <2>12, <2>13, <2>14
<1>10. ASSUME T!Exit PROVE ThreadInv'
  <2>1. /\ UNCHANGED <<keys, counter, list, tree, building, current, allocated, made, since,
                       entered, entry, gone, newest, needs>>
        /\ phase = "up" /\ phase' = "next" /\ building = <<>>
    BY <1>10 DEF T!Exit, T!world, T!keyVars, T!entries
  <2>2. Linked' = Linked /\ Holding' = Holding /\ Gone' = Gone /\ Built' = Built
    BY <2>1 DEF Linked, Holding, Gone, Built
  <2>3. T!TypeOK'
    BY <2>1, <2>2 DEF T!TypeOK
  <2>4. T!Accounted'
    BY <2>1 DEF T!Accounted
  <2>5. Numbered'
    BY <2>1, <2>2 DEF Numbered
  <2>6. ListRises'
    BY <2>1, <2>2 DEF ListRises
  <2>7. HandRises'
    BY <2>1, <2>2 DEF HandRises, After, WasTaken
  <2>8. GoneFirst'
    BY <2>1, <2>2 DEF GoneFirst, After, WasTaken
  <2>9. Phased'
    BY <2>1, <2>2 DEF Phased
  <2>10. NeedsEntered'
    BY <2>1, <2>2 DEF NeedsEntered
  <2>11. KeysTold'
    BY <2>1, <2>2 DEF KeysTold
  <2>12. QED
    BY <2>3, <2>4, <2>5, <2>6, <2>7, <2>8, <2>9, <2>10, <2>11
<1>11. ASSUME T!Take PROVE ThreadInv'
  <2>1. /\ Len(list) > 0 /\ Len(list) \in DOMAIN list /\ current' = list[Len(list)]
        /\ current' \in T!Object
        /\ list' \in Seq(T!Object) /\ Len(list') = Len(list) - 1
        /\ DOMAIN list' = 1..(Len(list) - 1)
        /\ \A k \in DOMAIN list' : k \in DOMAIN list /\ k < Len(list) /\ list'[k] = list[k]
        /\ Linked = Holding' \cup Linked'
        /\ newest' \in [T!Items -> 0..MaxItems]
        /\ \A i \in Holding' : newest'[i] = entered
        /\ \A i \in T!Items \ Holding' : newest'[i] = newest[i]
    BY <1>11, TakesNewest
  <2>2. /\ UNCHANGED <<keys, counter, tree, building, allocated, made, since, entered, entry,
                       gone, needs>>
        /\ phase = "next" /\ phase' = "destroy"
    BY <1>11 DEF T!Take, T!world, T!keyVars, T!entries
  <2>3. Gone' = Gone /\ Built' = Built
    BY <2>2 DEF Gone, Built
  <2>4. T!TypeOK'
    BY <2>1, <2>2 DEF T!TypeOK
  <2>5. T!Accounted'
    BY <2>1, <2>2 DEF T!Accounted
  <2>6. Numbered'
    <3>1. Holding = {}
      BY <2>2, NothingInside DEF Phased, Holding
    <3>2. Gone' \cup Holding' \cup Linked' = Gone \cup Holding \cup Linked
      BY <2>1, <2>3, <3>1
    <3>3. QED
      BY <2>2, <2>3, <3>2 DEF Numbered
  <2>7. ListRises'
    BY <2>1, <2>2 DEF ListRises
  <2>8. HandRises'
    <3>1. \A i \in Holding' : WasTaken(i)'
      <4>1. \A i \in Holding' : entry[i] <= entered /\ newest'[i] = entered /\ i \in T!Items
        BY <1>1, <2>1 DEF Numbered
      <4>2. QED
        BY <1>1, <2>2, <4>1 DEF WasTaken
    <3>2. Rising(current'.items, entry)
      BY <2>1 DEF ListRises
    <3>3. \A i \in Holding', j \in Linked' : entry[j] < entry[i]
      <4>1. SUFFICES ASSUME NEW i \in ItemsOf(list[Len(list)]), NEW j \in Linked'
                     PROVE  entry[j] < entry[i]
        BY <2>1 DEF Holding
      <4>2. PICK k \in DOMAIN list' : j \in ItemsOf(list'[k])
        BY DEF Linked, Inside
      <4>3. QED
        BY <2>1, <4>2 DEF ListRises
    <3>4. QED
      BY <2>2, <3>1, <3>2, <3>3 DEF HandRises, After
  <2>9. GoneFirst'
    <3>1. Gone \cap (Holding \cup Linked) = {}
      <4>1. SUFFICES ASSUME NEW i \in Gone, i \in Holding \cup Linked PROVE FALSE
        OBVIOUS
      <4>2. After(i, i) /\ WasTaken(i) /\ entry[i] \in Nat /\ newest[i] \in Nat
        BY <1>1, <4>1 DEF GoneFirst
      <4>3. QED
        BY <4>2 DEF After, WasTaken
    <3>2. \A i \in Gone : newest'[i] = newest[i]
      BY <1>1, <2>1, <3>1
    <3>3. Holding' \cup Linked' \subseteq Linked
      BY <2>1
    <3>4. QED
      BY <1>1, <2>2, <2>3, <3>2, <3>3 DEF GoneFirst, After, WasTaken
  <2>10. Phased'
    BY <2>2 DEF Phased
  <2>11. NeedsEntered'
    <3>1. \A i, j \in T!Items, h \in Gone \cup Holding' :
            ~LookUps /\ <<i, j>> \in needs => entry[i] <= newest'[h]
      <4>1. SUFFICES ASSUME NEW i \in T!Items, NEW j \in T!Items, NEW h \in Gone \cup Holding',
                            ~LookUps, <<i, j>> \in needs
                     PROVE  entry[i] <= newest'[h]
        OBVIOUS
      <4>2. CASE h \in Holding'
        BY <2>1, <4>2 DEF Numbered
      <4>3. CASE h \in Gone /\ h \notin Holding'
        BY <1>1, <2>1, <4>1, <4>3 DEF NeedsEntered
      <4>4. QED
        BY <4>2, <4>3
    <3>2. QED
      BY <2>2, <2>3, <3>1 DEF NeedsEntered
  <2>12. KeysTold'
    BY <2>2 DEF KeysTold
  <2>13. QED
    BY <2>4, <2>5, <2>6, <2>7, <2>8, <2>9, <2>10, <2>11, <2>12
<1>12. ASSUME T!Destroy PROVE ThreadInv'
  <2>1. PICK last \in T!Items :
        /\ current' \in T!Object
        /\ gone' \in Seq(T!Items) /\ Len(gone') = Len(gone) + 1
        /\ gone'[Len(gone) + 1] = last /\ \A n \in 1..Len(gone) : gone'[n] = gone[n]
        /\ Gone' = Gone \cup {last}
        /\ Holding = Holding' \cup {last}
        /\ Rising(current'.items, entry) /\ \A i \in Holding' : entry[i] < entry[last]
    BY <1>12, DestroysLast
  <2>2. /\ UNCHANGED <<keys, counter, list, tree, building, allocated, made, since, entered,
                       entry, newest, needs>>
        /\ phase = "destroy" /\ phase' = "run"
    BY <1>12 DEF T!Destroy, T!world, T!keyVars, T!entries
  <2>3. Linked' = Linked /\ Built' = Built
    BY <2>2 DEF Linked, Built
  <2>4. T!TypeOK'
    BY <2>1, <2>2 DEF T!TypeOK
  <2>5. T!Accounted'
    BY <2>2 DEF T!Accounted
  <2>6. Numbered'
    BY <2>1, <2>2, <2>3 DEF Numbered
  <2>7. ListRises'
    BY <2>2 DEF ListRises
  <2>8. HandRises'
    BY <2>1, <2>2, <2>3 DEF HandRises, After, WasTaken
  <2>9. GoneFirst'
    <3>1. /\ DOMAIN gone' = 1..(Len(gone) + 1) /\ last \in Holding
          /\ Holding' \cup Linked' \subseteq Holding \cup Linked
      BY <2>1, <2>2, <2>3
    <3>2. \A i \in Gone' : WasTaken(i)'
      BY <2>1, <2>2 DEF GoneFirst, HandRises, WasTaken
    <3>3. \A m, n \in DOMAIN gone' : m < n => After(gone'[m], gone'[n])
      <4>1. SUFFICES ASSUME NEW m \in DOMAIN gone', NEW n \in DOMAIN gone', m < n
                     PROVE  After(gone'[m], gone'[n])
        OBVIOUS
      <4>2. m \in DOMAIN gone /\ gone'[m] = gone[m]
        <5>1. m \in 1..Len(gone)
          BY <1>1, <3>1, <4>1
        <5>2. QED
          BY <1>1, <2>1, <5>1
      <4>3. CASE n \in DOMAIN gone
        BY <2>1, <4>1, <4>2, <4>3 DEF GoneFirst
      <4>4. CASE n = Len(gone) + 1
        BY <1>1, <2>1, <4>2, <4>4 DEF GoneFirst
      <4>5. QED
        BY <3>1, <4>3, <4>4
    <3>4. \A i \in Gone', j \in Holding' \cup Linked' : After(i, j)
      <4>1. \A j \in Holding' : After(last, j)
        BY <1>1, <2>1 DEF After
      <4>2. \A j \in Linked' : After(last, j)
        BY <3>1, <2>3 DEF HandRises
      <4>3. QED
        BY <2>1, <3>1, <4>1, <4>2 DEF GoneFirst
    <3>5. QED
      BY <2>2, <3>2, <3>3, <3>4 DEF GoneFirst, After
  <2>10. Phased'
    BY <2>2 DEF Phased
  <2>11. NeedsEntered'
    BY <2>1, <2>2 DEF NeedsEntered
  <2>12. KeysTold'
    BY <2>2 DEF KeysTold
  <2>13. QED
    BY <2>4, <2>5, <2>6, <2>7, <2>8, <2>9, <2>10, <2>11, <2>12
<1>13. ASSUME T!Return PROVE ThreadInv'
  <2>1. /\ UNCHANGED <<keys, counter, list, tree, building, current, allocated, made, since,
                       entered, entry, gone, newest, needs>>
        /\ phase = "run" /\ phase' = "destroy" /\ building = <<>>
    BY <1>13 DEF T!Return, T!world, T!keyVars, T!entries
  <2>2. Linked' = Linked /\ Holding' = Holding /\ Gone' = Gone /\ Built' = Built
    BY <2>1 DEF Linked, Holding, Gone, Built
  <2>3. T!TypeOK'
    BY <2>1, <2>2 DEF T!TypeOK
  <2>4. T!Accounted'
    BY <2>1 DEF T!Accounted
  <2>5. Numbered'
    BY <2>1, <2>2 DEF Numbered
  <2>6. ListRises'
    BY <2>1, <2>2 DEF ListRises
  <2>7. HandRises'
    BY <2>1, <2>2 DEF HandRises, After, WasTaken
  <2>8. GoneFirst'
    BY <2>1, <2>2 DEF GoneFirst, After, WasTaken
  <2>9. Phased'
    BY <2>1, <2>2 DEF Phased
  <2>10. NeedsEntered'
    BY <2>1, <2>2 DEF NeedsEntered
  <2>11. KeysTold'
    BY <2>1, <2>2 DEF KeysTold
  <2>12. QED
    BY <2>3, <2>4, <2>5, <2>6, <2>7, <2>8, <2>9, <2>10, <2>11
<1>14. ASSUME T!Free PROVE ThreadInv'
  <2>1. /\ UNCHANGED <<keys, counter, list, tree, building, made, since, entered, entry,
                       gone, newest, needs>>
        /\ phase = "destroy" /\ phase' = "next" /\ current' = T!Nothing
        /\ current.items = <<>> /\ allocated' = allocated - 1
    BY <1>14 DEF T!Free, T!world, T!keyVars, T!entries
  <2>2. Linked' = Linked /\ Gone' = Gone /\ Built' = Built
    BY <2>1 DEF Linked, Gone, Built
  <2>3. T!TypeOK'
    <3>1. allocated' \in 0..MaxItems
      BY <2>1, LifetimesAssumption DEF T!Accounted, T!TypeOK
    <3>2. QED
      BY <2>1, <3>1, NothingInside DEF T!TypeOK
  <2>4. T!Accounted'
    BY <2>1 DEF T!Accounted
  <2>5. Numbered'
    <3>1. Holding = {} /\ Holding' = {}
      BY <2>1, NothingInside DEF Holding, ItemsOf
    <3>2. QED
      BY <1>1, <2>1, <2>2, <3>1 DEF Numbered
  <2>6. ListRises'
    BY <2>1, <2>2 DEF ListRises
  <2>7. HandRises'
    <3>1. Holding' = {} /\ Rising(current'.items, entry')
      BY <2>1, NothingInside DEF Holding
    <3>2. QED
      BY <3>1 DEF HandRises
  <2>8. GoneFirst'
    <3>1. Holding' = {}
      BY <2>1, NothingInside DEF Holding
    <3>2. QED
      BY <2>1, <2>2, <3>1 DEF GoneFirst, After, WasTaken
  <2>9. Phased'
    BY <2>1, <2>2 DEF Phased
  <2>10. NeedsEntered'
    <3>1. Holding' = {}
      BY <2>1, NothingInside DEF Holding
    <3>2. QED
      BY <2>1, <2>2, <3>1 DEF NeedsEntered
  <2>11. KeysTold'
    BY <2>1, <2>2 DEF KeysTold
  <2>12. QED
    BY <2>3, <2>4, <2>5, <2>6, <2>7, <2>8, <2>9, <2>10, <2>11
<1>15. ASSUME T!Done PROVE ThreadInv'
  <2>1. /\ UNCHANGED <<keys, counter, list, building, current, allocated, made, since,
                       entered, entry, gone, newest, needs>>
        /\ phase = "next" /\ phase' = "done" /\ list = <<>> /\ tree' = {}
    BY <1>15 DEF T!Done, T!world, T!keyVars, T!entries
  <2>2. Linked' = Linked /\ Holding' = Holding /\ Gone' = Gone /\ Built' = Built
    BY <2>1 DEF Linked, Holding, Gone, Built
  <2>3. T!TypeOK'
    BY <2>1, <2>2 DEF T!TypeOK
  <2>4. T!Accounted'
    BY <2>1 DEF T!Accounted
  <2>5. Numbered'
    BY <2>1, <2>2 DEF Numbered
  <2>6. ListRises'
    BY <2>1, <2>2 DEF ListRises
  <2>7. HandRises'
    BY <2>1, <2>2 DEF HandRises, After, WasTaken
  <2>8. GoneFirst'
    BY <2>1, <2>2 DEF GoneFirst, After, WasTaken
  <2>9. Phased'
    BY <2>1, <2>2 DEF Phased
  <2>10. NeedsEntered'
    BY <2>1, <2>2 DEF NeedsEntered
  <2>11. KeysTold'
    BY <2>1, <2>2 DEF KeysTold
  <2>12. QED
    BY <2>3, <2>4, <2>5, <2>6, <2>7, <2>8, <2>9, <2>10, <2>11
<1>16. CASE UNCHANGED T!vars
  <2>1. UNCHANGED <<keys, counter, list, tree, building, phase, current, allocated, made,
                    since, entered, entry, gone, newest, needs>>
    BY <1>16 DEF T!vars
  <2>2. Linked' = Linked /\ Holding' = Holding /\ Gone' = Gone /\ Built' = Built
    BY <2>1 DEF Linked, Holding, Gone, Built
  <2>3. T!TypeOK' /\ T!Accounted'
    BY <2>1 DEF T!TypeOK, T!Accounted
  <2>4. Numbered' /\ ListRises' /\ Phased'
    BY <2>1, <2>2 DEF Numbered, ListRises, Phased
  <2>5. HandRises' /\ GoneFirst'
    BY <2>1, <2>2 DEF HandRises, GoneFirst, After, WasTaken
  <2>6. NeedsEntered' /\ KeysTold'
    BY <2>1, <2>2 DEF NeedsEntered, KeysTold
  <2>7. QED
    BY <2>3, <2>4, <2>5, <2>6
<1>17. QED
  BY <1>2, <1>3, <1>4, <1>5, <1>6, <1>7, <1>8, <1>9, <1>10, <1>11, <1>12, <1>13, <1>14,
     <1>15, <1>16 DEF T!Next, T!Cleanup


\* An item is in the row that it was put in: among those that went, in the object in
\* hand, or in an object of the list, and has entered.
LEMMA ThreadRowsAre ==
  ASSUME ThreadInv, NEW p \in T!Rows
  PROVE  /\ p \in Nat
         /\ p = 0 => T!Row(p) = gone
         /\ p = 1 => T!Row(p) = current.items
         /\ p > 1 => /\ Len(list) + 2 - p \in DOMAIN list
                     /\ T!Row(p) = list[Len(list) + 2 - p].items
         /\ p = 0 \/ p = 1 \/ p > 1
         /\ \A n \in DOMAIN T!Row(p) : n \in Nat /\ T!Row(p)[n] \in T!Items
<1>1. /\ Len(list) \in Nat /\ DOMAIN list = 1..Len(list) /\ list \in Seq(T!Object)
      /\ current \in T!Object /\ gone \in Seq(T!Items)
  BY ThreadTypes DEF ThreadInv, T!Safety
<1>2. p \in Nat /\ (p = 0 \/ p = 1 \/ p > 1) /\ (p > 1 => Len(list) + 2 - p \in DOMAIN list)
  BY <1>1 DEF T!Rows
<1>3. /\ p = 0 => T!Row(p) = gone
      /\ p = 1 => T!Row(p) = current.items
      /\ p > 1 => T!Row(p) = list[Len(list) + 2 - p].items
  BY <1>2 DEF T!Row
<1>4. p > 1 => list[Len(list) + 2 - p] \in T!Object
  BY <1>1, <1>2
<1>5. T!Row(p) \in Seq(T!Items)
  BY <1>1, <1>2, <1>3, <1>4, ObjectIs
<1>6. \A n \in DOMAIN T!Row(p) : n \in Nat /\ T!Row(p)[n] \in T!Items
  BY <1>5
<1>7. QED
  BY <1>2, <1>3, <1>6

\* Which set an item of a row belongs to.
LEMMA ThreadInRow ==
  ASSUME ThreadInv, NEW p \in T!Rows, NEW n \in DOMAIN T!Row(p)
  PROVE  /\ p = 0 => T!Row(p)[n] \in Gone
         /\ p = 1 => T!Row(p)[n] \in Holding
         /\ p > 1 => /\ T!Row(p)[n] \in ItemsOf(list[Len(list) + 2 - p])
                     /\ T!Row(p)[n] \in Linked
<1>1. /\ p = 0 => T!Row(p) = gone
      /\ p = 1 => T!Row(p) = current.items
      /\ p > 1 => /\ Len(list) + 2 - p \in DOMAIN list
                  /\ T!Row(p) = list[Len(list) + 2 - p].items
  BY ThreadRowsAre
<1>2. p > 1 => T!Row(p)[n] \in ItemsOf(list[Len(list) + 2 - p])
  BY <1>1 DEF ItemsOf, ToSet
<1>3. p > 1 => T!Row(p)[n] \in Linked
  BY <1>1, <1>2 DEF Linked, Inside
<1>4. QED
  BY <1>1, <1>2, <1>3 DEF Gone, Holding, ItemsOf, ToSet

\* What is before another in the rows goes after nothing that came later, except what came
\* when it was taken.
LEMMA ThreadRowsOrdered ==
  ASSUME ThreadInv, NEW p \in T!Rows, NEW q \in T!Rows,
         NEW m \in DOMAIN T!Row(p), NEW n \in DOMAIN T!Row(q), T!Before(p, m, q, n)
  PROVE  /\ T!Row(p)[m] # T!Row(q)[n]
         /\ After(T!Row(p)[m], T!Row(q)[n])
         /\ p > 1 => entry[T!Row(q)[n]] < entry[T!Row(p)[m]]
<1> DEFINE i == T!Row(p)[m]
           j == T!Row(q)[n]
<1>1. /\ p \in Nat /\ q \in Nat /\ m \in Nat /\ n \in Nat
      /\ p = 0 \/ p = 1 \/ p > 1
      /\ q = 0 \/ q = 1 \/ q > 1
      /\ i \in T!Items /\ j \in T!Items
  BY ThreadRowsAre
<1>2. /\ entry[i] \in Nat /\ entry[j] \in Nat /\ newest[i] \in Nat /\ Len(list) \in Nat
  BY <1>1, ThreadTypes DEF ThreadInv, T!Safety
<1>3. p < q \/ (p = q /\ (p = 0 => m < n) /\ (p # 0 => m > n))
  BY DEF T!Before
<1>4. CASE p = 0
  <2>1. i \in Gone /\ WasTaken(i)
    BY <1>4, ThreadInRow DEF ThreadInv, GoneFirst
  <2>2. CASE q = 0
    <3>1. T!Row(p) = gone /\ T!Row(q) = gone /\ m < n
      BY <1>3, <1>4, <2>2, ThreadRowsAre
    <3>2. After(i, j)
      BY <3>1 DEF ThreadInv, GoneFirst
    <3>3. QED
      BY <1>2, <1>4, <2>1, <3>2 DEF After, WasTaken
  <2>3. CASE q # 0
    <3>1. j \in Holding \cup Linked
      BY <1>1, <2>3, ThreadInRow
    <3>2. After(i, j)
      BY <2>1, <3>1 DEF ThreadInv, GoneFirst
    <3>3. QED
      BY <1>2, <1>4, <2>1, <3>2 DEF After, WasTaken
  <2>4. QED
    BY <2>2, <2>3
<1>5. CASE p = 1
  <2>1. i \in Holding /\ WasTaken(i)
    BY <1>5, ThreadInRow DEF ThreadInv, HandRises
  <2>2. CASE q = 1
    <3>1. T!Row(p) = current.items /\ T!Row(q) = current.items /\ n < m
      BY <1>1, <1>3, <1>5, <2>2, ThreadRowsAre
    <3>2. entry[j] < entry[i]
      BY <3>1 DEF ThreadInv, HandRises, Rising
    <3>3. QED
      BY <1>2, <1>5, <3>2 DEF After
  <2>3. CASE q > 1
    <3>1. After(i, j)
      BY <2>1, <2>3, ThreadInRow DEF ThreadInv, HandRises
    <3>2. QED
      BY <1>2, <1>5, <2>1, <3>1 DEF After, WasTaken
  <2>4. QED
    BY <1>1, <1>3, <1>5, <2>2, <2>3
<1>6. CASE p > 1
  <2>1. q > 1
    BY <1>1, <1>3, <1>6
  <2> DEFINE k == Len(list) + 2 - p
             h == Len(list) + 2 - q
  <2>2. /\ k \in DOMAIN list /\ T!Row(p) = list[k].items /\ i \in ItemsOf(list[k])
        /\ h \in DOMAIN list /\ T!Row(q) = list[h].items /\ j \in ItemsOf(list[h])
    BY <1>6, <2>1, ThreadRowsAre, ThreadInRow
  <2>3. entry[j] < entry[i]
    <3>1. CASE p = q
      <4>1. n < m /\ h = k
        BY <1>1, <1>3, <1>6, <3>1
      <4>2. Rising(list[k].items, entry)
        BY <2>2 DEF ThreadInv, ListRises
      <4>3. QED
        BY <2>2, <4>1, <4>2 DEF Rising
    <3>2. CASE p < q
      <4>1. h < k
        BY <1>1, <1>2, <3>2
      <4>2. QED
        BY <2>2, <4>1 DEF ThreadInv, ListRises
    <3>3. QED
      BY <1>3, <3>1, <3>2
  <2>4. QED
    BY <1>2, <2>3 DEF After
<1>7. QED
  BY <1>1, <1>4, <1>5, <1>6

\* Of two places in the rows, one is before the other.
LEMMA OneIsBefore ==
  ASSUME ThreadInv, NEW p \in T!Rows, NEW q \in T!Rows,
         NEW m \in DOMAIN T!Row(p), NEW n \in DOMAIN T!Row(q), ~T!Before(p, m, q, n)
  PROVE  (p = q /\ m = n) \/ T!Before(q, n, p, m)
<1>1. p \in Nat /\ q \in Nat /\ m \in Nat /\ n \in Nat
  BY ThreadRowsAre
<1>2. QED
  BY <1>1 DEF T!Before

\* What has a place was destroyed, or is in a row that will be.
LEMMA IsInARow ==
  ASSUME ThreadInv, NEW i \in T!Items
  PROVE  entry[i] > 0 <=> \E p \in IF phase = "done" THEN {0} ELSE T!Rows :
                            \E m \in DOMAIN T!Row(p) : T!Row(p)[m] = i
<1>1. entry[i] > 0 <=> i \in Gone \cup Holding \cup Linked
  BY DEF ThreadInv, Numbered
<1>2. /\ Len(list) \in Nat /\ DOMAIN list = 1..Len(list)
  BY ThreadTypes DEF ThreadInv, T!Safety
<1>3. 0 \in T!Rows /\ 1 \in T!Rows
  BY <1>2 DEF T!Rows
<1>4. ASSUME phase = "done" PROVE Holding = {} /\ Linked = {}
  <2>1. current = T!Nothing /\ list = <<>>
    BY <1>4 DEF ThreadInv, Phased
  <2>2. QED
    BY <2>1, NothingInside DEF Holding, Linked
<1>5. ASSUME i \in Gone PROVE \E m \in DOMAIN T!Row(0) : T!Row(0)[m] = i
  <2>1. T!Row(0) = gone
    BY <1>3, ThreadRowsAre
  <2>2. QED
    BY <1>5, <2>1 DEF Gone, ToSet
<1>6. ASSUME i \in Holding PROVE \E m \in DOMAIN T!Row(1) : T!Row(1)[m] = i
  <2>1. T!Row(1) = current.items
    BY <1>3, ThreadRowsAre
  <2>2. QED
    BY <1>6, <2>1 DEF Holding, ItemsOf, ToSet
<1>7. ASSUME i \in Linked PROVE \E p \in T!Rows : \E m \in DOMAIN T!Row(p) : T!Row(p)[m] = i
  <2>1. PICK k \in DOMAIN list : i \in ItemsOf(list[k])
    BY <1>7 DEF Linked, Inside
  <2>2. PICK m \in DOMAIN list[k].items : list[k].items[m] = i
    BY <2>1 DEF ItemsOf, ToSet
  <2> DEFINE p == Len(list) + 2 - k
  <2>3. p \in 0..(Len(list) + 1) /\ p > 1 /\ Len(list) + 2 - p = k
    BY <1>2
  <2>4. p \in T!Rows /\ T!Row(p) = list[k].items
    BY <2>3, ThreadRowsAre DEF T!Rows
  <2>5. QED
    BY <2>2, <2>4
<1>8. ASSUME NEW p \in T!Rows, NEW m \in DOMAIN T!Row(p), T!Row(p)[m] = i
      PROVE  /\ i \in Gone \cup Holding \cup Linked
             /\ p = 0 => i \in Gone
  BY <1>8, ThreadInRow, ThreadRowsAre
<1>9. QED
  BY <1>1, <1>3, <1>4, <1>5, <1>6, <1>7, <1>8

\* No storage and no callback is lost, or goes twice.
LEMMA ThreadEachOnce == ThreadInv => T!EachOnce
<1> SUFFICES ASSUME ThreadInv PROVE T!EachOnce
  OBVIOUS
<1>1. ASSUME NEW p \in T!Rows, NEW q \in T!Rows,
             NEW m \in DOMAIN T!Row(p), NEW n \in DOMAIN T!Row(q), T!Row(p)[m] = T!Row(q)[n]
      PROVE  p = q /\ m = n
  <2>1. ~T!Before(p, m, q, n) /\ ~T!Before(q, n, p, m)
    BY <1>1, ThreadRowsOrdered
  <2>2. QED
    BY <2>1, OneIsBefore
<1>2. QED
  BY <1>1, IsInARow DEF T!EachOnce

\* What goes early came late.
LEMMA ThreadReverseOrder == ThreadInv => T!ReverseOrder
<1> SUFFICES ASSUME ThreadInv, NEW q \in T!Rows, NEW m \in DOMAIN gone, NEW n \in DOMAIN T!Row(q),
                    T!Before(0, m, q, n)
             PROVE  \/ entry[T!Row(q)[n]] < entry[gone[m]]
                    \/ entry[T!Row(q)[n]] > newest[gone[m]]
  BY DEF T!ReverseOrder
<1>1. 0 \in T!Rows
  BY ThreadTypes DEF ThreadInv, T!Safety, T!Rows
<1>2. T!Row(0) = gone
  BY <1>1, ThreadRowsAre
<1>3. After(gone[m], T!Row(q)[n])
  BY <1>1, <1>2, ThreadRowsOrdered
<1>4. QED
  BY <1>3 DEF After

\* What was got in a constructor stays until after what it constructed went.
LEMMA ThreadNeededOutlive == ThreadInv /\ ~LookUps => T!NeededOutlive
<1> SUFFICES ASSUME ThreadInv, ~LookUps, NEW p \in T!Rows, NEW q \in T!Rows,
                    NEW m \in DOMAIN T!Row(p), NEW n \in DOMAIN T!Row(q),
                    <<T!Row(p)[m], T!Row(q)[n]>> \in needs, ~T!Before(p, m, q, n)
             PROVE  FALSE
  BY DEF T!NeededOutlive
<1> DEFINE i == T!Row(p)[m]
           j == T!Row(q)[n]
<1>1. i \in T!Items /\ j \in T!Items /\ q \in Nat /\ (q = 0 \/ q = 1 \/ q > 1)
  BY ThreadRowsAre
<1>2. /\ entry[i] \in Nat /\ entry[j] \in Nat /\ newest[j] \in Nat
  BY <1>1, ThreadTypes DEF ThreadInv, T!Safety
<1>3. i \in Gone \cup Holding \cup Linked
  BY ThreadInRow, ThreadRowsAre
<1>4. entry[i] > 0
  BY <1>1, <1>3 DEF ThreadInv, Numbered
<1>5. entry[j] < entry[i]
  BY <1>1, <1>4 DEF ThreadInv, NeedsEntered
<1>6. i # j
  BY <1>2, <1>5
<1>7. T!Before(q, n, p, m)
  BY <1>6, OneIsBefore
<1>8. After(j, i) /\ (q > 1 => entry[i] < entry[j])
  BY <1>7, ThreadRowsOrdered
<1>9. j \in Gone \cup Holding /\ entry[i] > newest[j]
  BY <1>1, <1>2, <1>5, <1>8, ThreadInRow DEF After
<1>10. entry[i] <= newest[j]
  BY <1>1, <1>9 DEF ThreadInv, NeedsEntered
<1>11. QED
  BY <1>2, <1>9, <1>10

\* A key leads to its own storage.
LEMMA ThreadOwnStorage == ThreadInv => T!OwnStorage
<1> SUFFICES ASSUME ThreadInv, NEW x \in Addresses, keys[x] # 0,
                    NEW o \in T!Found(x), NEW p \in T!Found(x)
             PROVE  o = p /\ o.item > since[x]
  BY DEF T!OwnStorage
<1>1. /\ o \in tree /\ p \in tree /\ o.key = <<x, keys[x]>> /\ p.key = <<x, keys[x]>>
  BY DEF T!Found
<1>2. o.key[1] = x /\ o.key[2] = keys[x]
  BY <1>1
<1>3. o = p
  BY <1>1 DEF ThreadInv, KeysTold
<1>4. o.item > since[x]
  BY <1>1, <1>2 DEF ThreadInv, KeysTold
<1>5. QED
  BY <1>3, <1>4

\* What thread-local storage promises, of any number of keys, objects and callbacks and any
\* size of a block, whether or not destructors look up keys: every object is linked, being
\* constructed, or being destroyed; what was constructed or registered goes once, and in
\* the reverse order of its coming; and a key leads to the storage constructed for it.
THEOREM ThreadLocalStorageIsSound ==
  T!Spec => [](T!Safety /\ T!EachOnce /\ T!ReverseOrder /\ T!OwnStorage)
<1>1. T!Init => ThreadInv
  BY ThreadInitially
<1>2. ThreadInv /\ [T!Next]_(T!vars) => ThreadInv'
  BY ThreadPreserved
<1>3. ThreadInv => T!Safety /\ T!EachOnce /\ T!ReverseOrder /\ T!OwnStorage
  BY ThreadEachOnce, ThreadReverseOrder, ThreadOwnStorage DEF ThreadInv
<1>4. QED
  BY <1>1, <1>2, <1>3, PTL DEF T!Spec

\* As long as destructors and callbacks look up no keys, storage outlives what was
\* constructed with its help.
THEOREM NeededStorageOutlives ==
  ASSUME ~LookUps PROVE T!Spec => []T!NeededOutlive
<1>1. T!Init => ThreadInv
  BY ThreadInitially
<1>2. ThreadInv /\ [T!Next]_(T!vars) => ThreadInv'
  BY ThreadPreserved
<1>3. ThreadInv => T!NeededOutlive
  BY ThreadNeededOutlive
<1>4. QED
  BY <1>1, <1>2, <1>3, PTL DEF T!Spec

---------------------------------------------------------------
(* Intrusive pointers                                                       *)

Places == {"idle", "destroy", "clearOwner", "deleteView", "deleteNew", "deleteWeak",
           "allocate", "reattach", "construct", "install", "addRef", "tryAddRef"}

\* A thread that destroys the object.
Ends(t) == pc[t] \in {"destroy", "clearOwner", "deleteView"}

\* The strong references are counted, and one thread at most destroys the object that
\* nobody refers to.
PointersInv ==
  /\ strong \in [Threads -> Nat] /\ pc \in [Threads -> Places]
  /\ life \in {"none", "alive", "dying"}
  /\ P!StrongCounted
  /\ \A t \in Threads : Ends(t) => life = "dying"
  /\ \A t, u \in Threads : Ends(t) /\ Ends(u) => t = u

\* The pointers' total is the one the lemmas are about.
LEMMA TotalIs == \A f : P!Total(f) = Total(f)
BY DEF P!Total, P!Units, P!UnitsOf, P!Cardinality, Total, Units, UnitsOf, Cardinality

\* The count is that of the references of all threads, and none has more.
LEMMA StrongTotals ==
  ASSUME strong \in [Threads -> Nat], P!StrongCounted
  PROVE  /\ ref \in Nat /\ ref = P!Total(strong)
         /\ \A t \in Threads : strong[t] <= ref
         /\ life = "alive" <=> ref > 0
<1>1. ref = P!Total(strong) /\ (life = "alive" <=> ref > 0)
  BY DEF P!StrongCounted
<1>2. IsFiniteSet(Threads)
  BY LifetimesAssumption
<1>3. Total(strong) \in Nat /\ \A t \in Threads : strong[t] <= Total(strong)
  BY <1>2, TotalType, TotalBounds
<1>4. QED
  BY <1>1, <1>3, TotalIs

\* When the references of one thread change, so does their number.
LEMMA StrongChanges ==
  ASSUME NEW f \in [Threads -> Nat], NEW g \in [Threads -> Nat], NEW t \in Threads,
         \A u \in Threads \ {t} : g[u] = f[u]
  PROVE  P!Total(g) = P!Total(f) - f[t] + g[t]
<1>1. IsFiniteSet(Threads)
  BY LifetimesAssumption
<1>2. Total(g) = Total(f) - f[t] + g[t]
  BY <1>1, TotalChanges
<1>3. QED
  BY <1>2, TotalIs

\* At first there is no object and nobody refers to it.
LEMMA PointersInitially == P!Init => PointersInv
<1> SUFFICES ASSUME P!Init PROVE PointersInv
  OBVIOUS
<1>1. /\ strong = [t \in Threads |-> 0] /\ life = "none" /\ ref = 0
      /\ pc = [t \in Threads |-> "idle"]
  BY DEF P!Init
<1>2. P!Total(strong) = 0
  BY <1>1, TotalOfZeros, TotalIs
<1>3. QED
  BY <1>1, <1>2 DEF PointersInv, P!StrongCounted, Ends, Places

\* The place of one thread changes, to one where nothing is destroyed.
LEMMA PlaceChanges ==
  ASSUME PointersInv, NEW t \in Threads, UNCHANGED <<strong, ref, life>>,
         \/ UNCHANGED pc
         \/ \E place \in Places \ {"destroy", "clearOwner", "deleteView"} :
              pc' = [pc EXCEPT ![t] = place]
  PROVE  PointersInv'
<1>1. P!StrongCounted'
  BY DEF PointersInv, P!StrongCounted, P!Total, P!Units, P!UnitsOf
<1>2. pc' \in [Threads -> Places] /\ \A u \in Threads : Ends(u)' => Ends(u)
  BY DEF PointersInv, Ends
<1>3. QED
  BY <1>1, <1>2 DEF PointersInv

\* Every step keeps the references counted.
LEMMA PointersPreserved == ASSUME PointersInv, [P!Next]_(P!vars) PROVE PointersInv'
<1>1. /\ strong \in [Threads -> Nat] /\ pc \in [Threads -> Places]
      /\ life \in {"none", "alive", "dying"}
      /\ ref \in Nat /\ ref = P!Total(strong)
      /\ \A t \in Threads : strong[t] \in Nat /\ strong[t] <= ref
      /\ life = "alive" <=> ref > 0
      /\ \A t \in Threads : Ends(t) => life = "dying"
      /\ \A t, u \in Threads : Ends(t) /\ Ends(u) => t = u
  BY StrongTotals DEF PointersInv
<1>2. ASSUME NEW t \in Threads, P!Make(t) PROVE PointersInv'
  <2>1. /\ life' = "alive" /\ ref' = 1 /\ strong' = [strong EXCEPT ![t] = 1] /\ UNCHANGED pc
        /\ ref = 0
    BY <1>1, <1>2 DEF P!Make
  <2>2. strong' \in [Threads -> Nat] /\ strong[t] = 0 /\ strong'[t] = 1
    <3>1. strong[t] \in Nat /\ strong[t] <= ref
      BY <1>1
    <3>2. QED
      BY <1>1, <2>1, <3>1
  <2>3. P!Total(strong') = P!Total(strong) - strong[t] + strong'[t]
    <3>1. \A u \in Threads \ {t} : strong'[u] = strong[u]
      BY <1>1, <2>1
    <3>2. QED
      BY <1>1, <2>2, <3>1, StrongChanges
  <2>4. P!Total(strong') = 1
    BY <1>1, <2>1, <2>2, <2>3
  <2>5. \A u \in Threads : ~Ends(u)'
    BY <1>1, <1>2, <2>1 DEF Ends, P!Make
  <2>6. QED
    BY <1>1, <2>1, <2>2, <2>4, <2>5 DEF PointersInv, P!StrongCounted, P!Total, P!Units,
       P!UnitsOf
<1>3. ASSUME NEW t \in Threads, \/ P!Fork(t)
                                \/ /\ ref # 0 /\ ref' = ref + 1
                                   /\ strong' = [strong EXCEPT ![t] = @ + 1]
                                   /\ UNCHANGED life
                                   /\ pc' = [pc EXCEPT ![t] = "idle"]
      PROVE  PointersInv'
  <2>1. /\ ref > 0 /\ ref' = ref + 1 /\ strong' = [strong EXCEPT ![t] = @ + 1]
        /\ UNCHANGED life /\ (UNCHANGED pc \/ pc' = [pc EXCEPT ![t] = "idle"])
    <3>1. CASE P!Fork(t)
      <4>1. strong[t] > 0
        BY <1>1, <3>1 DEF P!Fork
      <4>2. QED
        BY <1>1, <3>1, <4>1 DEF P!Fork
    <3>2. QED
      BY <1>1, <1>3, <3>1
  <2>2. strong' \in [Threads -> Nat] /\ strong'[t] = strong[t] + 1
    BY <1>1, <2>1
  <2>3. P!Total(strong') = P!Total(strong) - strong[t] + strong'[t]
    <3>1. \A u \in Threads \ {t} : strong'[u] = strong[u]
      BY <1>1, <2>1
    <3>2. QED
      BY <1>1, <2>2, <3>1, StrongChanges
  <2>4. P!Total(strong') = ref'
    BY <1>1, <2>1, <2>2, <2>3
  <2>5. life = "alive" /\ ref' > 0
    BY <1>1, <2>1
  <2>6. pc' \in [Threads -> Places] /\ \A u \in Threads : Ends(u)' => Ends(u)
    BY <1>1, <2>1 DEF Ends, Places
  <2>7. \A u \in Threads : ~Ends(u)'
    BY <1>1, <2>5, <2>6
  <2>8. QED
    BY <2>1, <2>2, <2>4, <2>5, <2>6, <2>7 DEF PointersInv, P!StrongCounted, P!Total,
       P!Units, P!UnitsOf
<1>4. ASSUME NEW t \in Threads, NEW u \in Threads, P!Give(t, u) PROVE PointersInv'
  <2> DEFINE less == [strong EXCEPT ![t] = @ - 1]
  <2>1. /\ strong[t] > 0 /\ t # u /\ strong' = [strong EXCEPT ![t] = @ - 1, ![u] = @ + 1]
        /\ UNCHANGED <<life, ref, pc>>
    BY <1>4 DEF P!Give, P!object
  <2>2. /\ less \in [Threads -> Nat] /\ less[t] = strong[t] - 1 /\ less[u] = strong[u]
        /\ \A h \in Threads \ {t} : less[h] = strong[h]
    BY <1>1, <2>1
  <2>3. /\ strong' \in [Threads -> Nat] /\ strong'[u] = strong[u] + 1
        /\ \A h \in Threads \ {u} : strong'[h] = less[h]
    BY <1>1, <2>1
  <2> HIDE DEF less
  <2>4. P!Total(less) = P!Total(strong) - strong[t] + less[t]
    BY <1>1, <2>2, StrongChanges
  <2>5. P!Total(strong') = P!Total(less) - less[u] + strong'[u]
    BY <2>2, <2>3, StrongChanges
  <2>6. P!Total(strong') = ref
    BY <1>1, <2>2, <2>3, <2>4, <2>5
  <2>7. QED
    BY <1>1, <2>1, <2>3, <2>6 DEF PointersInv, P!StrongCounted, Ends, P!Total, P!Units,
       P!UnitsOf
<1>5. ASSUME NEW t \in Threads, P!Drop(t) PROVE PointersInv'
  <2>1. /\ strong[t] > 0 /\ ref' = ref - 1 /\ strong' = [strong EXCEPT ![t] = @ - 1]
        /\ ref = 1 => life' = "dying" /\ pc' = [pc EXCEPT ![t] = "destroy"]
        /\ ref # 1 => UNCHANGED <<life, pc>>
    BY <1>5 DEF P!Drop, P!Go
  <2>2. ref > 0 /\ life = "alive"
    BY <1>1, <2>1
  <2>3. strong' \in [Threads -> Nat] /\ strong'[t] = strong[t] - 1
    BY <1>1, <2>1
  <2>4. P!Total(strong') = P!Total(strong) - strong[t] + strong'[t]
    BY <1>1, <2>1, <2>3, StrongChanges, ZenonT(30)
  <2>5. P!Total(strong') = ref'
    BY <1>1, <2>1, <2>3, <2>4
  <2>6. \A u \in Threads : ~Ends(u)
    BY <1>1, <2>2
  <2>7. CASE ref = 1
    <3>1. /\ life' = "dying" /\ ref' = 0 /\ pc' \in [Threads -> Places]
          /\ \A u \in Threads : Ends(u)' => u = t
      BY <1>1, <2>1, <2>6, <2>7 DEF Ends, Places
    <3>2. QED
      BY <2>3, <2>5, <3>1 DEF PointersInv, P!StrongCounted, P!Total, P!Units, P!UnitsOf
  <2>8. CASE ref # 1
    <3>1. /\ life' = "alive" /\ ref' > 0 /\ pc' \in [Threads -> Places]
          /\ \A u \in Threads : ~Ends(u)'
      BY <1>1, <2>1, <2>2, <2>6, <2>8 DEF Ends
    <3>2. QED
      BY <2>3, <2>5, <3>1 DEF PointersInv, P!StrongCounted, P!Total, P!Units, P!UnitsOf
  <2>9. QED
    BY <2>7, <2>8
<1>6. ASSUME NEW t \in Threads, Ends(t), UNCHANGED <<strong, ref>>,
             \/ life' = "none" /\ pc' = [pc EXCEPT ![t] = "idle"]
             \/ life' = life /\ pc' = [pc EXCEPT ![t] = "clearOwner"]
             \/ life' = life /\ pc' = [pc EXCEPT ![t] = "deleteView"]
      PROVE  PointersInv'
  <2>1. life = "dying" /\ ref = 0 /\ ref' = 0
    BY <1>1, <1>6
  <2>2. /\ life' \in {"none", "dying"} /\ pc' \in [Threads -> Places]
        /\ \A u \in Threads : Ends(u)' => Ends(u) /\ life' = "dying"
    <3>1. \A u \in Threads \ {t} : ~Ends(u)
      BY <1>1, <1>6
    <3>2. \A u \in Threads \ {t} : ~Ends(u)'
      BY <1>1, <1>6, <3>1 DEF Ends
    <3>3. pc' \in [Threads -> Places] /\ life' \in {"none", "dying"}
          /\ (Ends(t)' => life' = "dying")
      BY <1>1, <1>6, <2>1 DEF Ends, Places
    <3>4. QED
      BY <1>6, <3>2, <3>3
  <2>3. P!Total(strong') = ref'
    BY <1>1, <1>6
  <2>4. QED
    BY <1>1, <1>6, <2>1, <2>2, <2>3 DEF PointersInv, P!StrongCounted, P!Total, P!Units,
       P!UnitsOf
<1>7. ASSUME NEW t \in Threads, P!Destroy(t) PROVE PointersInv'
  <2>1. /\ Ends(t) /\ UNCHANGED <<strong, ref>>
        /\ \/ life' = "none" /\ pc' = [pc EXCEPT ![t] = "idle"]
           \/ life' = life /\ pc' = [pc EXCEPT ![t] = "deleteView"]
           \/ life' = life /\ pc' = [pc EXCEPT ![t] = "clearOwner"]
    BY <1>7 DEF P!Destroy, P!Go, P!handles, Ends
  <2>2. QED
    BY <1>6, <2>1
<1>8. ASSUME NEW t \in Threads, P!ClearOwner(t) PROVE PointersInv'
  <2>1. /\ Ends(t) /\ UNCHANGED <<strong, ref>>
        /\ life' = "none" /\ pc' = [pc EXCEPT ![t] = "idle"]
    BY <1>8 DEF P!ClearOwner, P!Done, P!Go, P!handles, Ends
  <2>2. QED
    BY <1>6, <2>1
<1>9. ASSUME NEW t \in Threads, P!DeleteView(t) PROVE PointersInv'
  <2>1. CASE pc[t] = "deleteView"
    <3>1. /\ Ends(t) /\ UNCHANGED <<strong, ref>>
          /\ life' = "none" /\ pc' = [pc EXCEPT ![t] = "idle"]
      BY <1>9, <2>1 DEF P!DeleteView, P!Done, P!Go, P!handles, Ends
    <3>2. QED
      BY <1>6, <3>1
  <2>2. CASE pc[t] # "deleteView"
    <3>1. /\ UNCHANGED <<strong, ref, life>>
          /\ pc' = [pc EXCEPT ![t] = "addRef"] \/ pc' = [pc EXCEPT ![t] = "idle"]
      BY <1>9, <2>2 DEF P!DeleteView, P!Done, P!Go, P!handles
    <3>2. QED
      BY <3>1, PlaceChanges DEF Places
  <2>3. QED
    BY <2>1, <2>2
<1>10. ASSUME NEW t \in Threads,
              \/ P!Weaken(t) \/ P!Allocate(t) \/ P!PutBack(t) \/ P!Construct(t)
              \/ P!Install(t) \/ P!AddWeakRef(t)
              \/ \E c \in Blocks : P!ForkWeak(t, c) \/ P!DropWeak(t, c) \/ P!Lock(t, c)
       PROVE  PointersInv'
  <2>1. UNCHANGED <<strong, ref, life>>
    BY <1>10 DEF P!Weaken, P!Allocate, P!PutBack, P!Construct, P!Install, P!AddWeakRef,
       P!ForkWeak, P!DropWeak, P!Lock, P!object, P!handles
  <2>2. \/ UNCHANGED pc
        \/ \E place \in Places \ {"destroy", "clearOwner", "deleteView"} :
             pc' = [pc EXCEPT ![t] = place]
    <3>1. CASE P!Weaken(t)
      BY <3>1 DEF P!Weaken, P!Go, Places
    <3>2. CASE P!Allocate(t)
      BY <3>2 DEF P!Allocate, P!Go, P!Done, Places
    <3>3. CASE P!PutBack(t) \/ P!Construct(t) \/ P!AddWeakRef(t)
      BY <3>3 DEF P!PutBack, P!Construct, P!AddWeakRef, P!Go, P!Done, Places
    <3>4. CASE P!Install(t)
      BY <3>4 DEF P!Install, P!Go, Places
    <3>5. CASE \E c \in Blocks : P!ForkWeak(t, c) \/ P!DropWeak(t, c) \/ P!Lock(t, c)
      BY <3>5 DEF P!ForkWeak, P!DropWeak, P!Lock, P!Go, Places
    <3>6. QED
      BY <1>10, <3>1, <3>2, <3>3, <3>4, <3>5
  <2>3. QED
    BY <2>1, <2>2, PlaceChanges
<1>11. ASSUME NEW t \in Threads, P!TryAddRef(t) PROVE PointersInv'
  <2>1. CASE ref = 0
    <3>1. UNCHANGED <<strong, ref, life>> /\ pc' = [pc EXCEPT ![t] = "idle"]
      BY <1>11, <2>1 DEF P!TryAddRef, P!Done, P!Go
    <3>2. QED
      BY <3>1, PlaceChanges DEF Places
  <2>2. CASE ref # 0
    <3>1. /\ ref' = ref + 1 /\ strong' = [strong EXCEPT ![t] = @ + 1]
          /\ UNCHANGED life /\ pc' = [pc EXCEPT ![t] = "idle"]
      BY <1>11, <2>2 DEF P!TryAddRef, P!Done, P!Go
    <3>2. QED
      BY <1>3, <2>2, <3>1
  <2>3. QED
    BY <2>1, <2>2
<1>12. CASE UNCHANGED P!vars
  BY <1>12 DEF PointersInv, P!StrongCounted, P!vars, P!object, P!handles, Ends, P!Total,
     P!Units, P!UnitsOf
<1>13. QED
  BY <1>2, <1>3, <1>4, <1>5, <1>7, <1>8, <1>9, <1>10, <1>11, <1>12 DEF P!Next

\* No step takes a reference to an object that is being destroyed.
LEMMA NoneRevives ==
  ASSUME PointersInv, [P!Next]_(P!vars)
  PROVE  life = "dying" => ref' = 0
<1> SUFFICES ASSUME life = "dying" PROVE ref' = 0
  OBVIOUS
<1>1. ref = 0 /\ \A t \in Threads : strong[t] = 0
  <2>1. ref \in Nat /\ ~(ref > 0) /\ \A t \in Threads : strong[t] \in Nat /\ strong[t] <= ref
    BY StrongTotals DEF PointersInv
  <2>2. QED
    BY <2>1
<1>2. ASSUME NEW t \in Threads, P!Make(t) \/ P!Fork(t) \/ P!Drop(t) PROVE FALSE
  <2>1. ~P!Make(t)
    BY DEF P!Make
  <2>2. ~P!Fork(t) /\ ~P!Drop(t)
    BY <1>1 DEF P!Fork, P!Drop
  <2>3. QED
    BY <1>2, <2>1, <2>2
<1>3. ASSUME NEW t \in Threads, P!TryAddRef(t) PROVE ref' = 0
  BY <1>1, <1>3 DEF P!TryAddRef
<1>4. ASSUME NEW t \in Threads,
             \/ P!Destroy(t) \/ P!ClearOwner(t) \/ P!DeleteView(t)
             \/ P!Weaken(t) \/ P!Allocate(t) \/ P!PutBack(t) \/ P!Construct(t)
             \/ P!Install(t) \/ P!AddWeakRef(t)
             \/ \E u \in Threads : P!Give(t, u)
             \/ \E c \in Blocks : P!ForkWeak(t, c) \/ P!DropWeak(t, c) \/ P!Lock(t, c)
      PROVE  UNCHANGED ref
  BY <1>4 DEF P!Destroy, P!ClearOwner, P!DeleteView, P!Weaken, P!Allocate, P!PutBack,
     P!Construct, P!Install, P!AddWeakRef, P!ForkWeak, P!DropWeak, P!Lock, P!Give,
     P!object
<1>5. CASE UNCHANGED P!vars
  BY <1>1, <1>5 DEF P!vars, P!object
<1>6. QED
  BY <1>1, <1>2, <1>3, <1>4, <1>5 DEF P!Next

\* What intrusive pointers promise of strong references, of any number of threads and
\* blocks: an object lives exactly as long as somebody has one, the count says how many
\* there are, and when it is being destroyed no weak reference brings it back.
THEOREM StrongReferencesAreCounted == P!Spec => []P!StrongCounted /\ P!NoRevival
<1>1. P!Init => PointersInv
  BY PointersInitially
<1>2. PointersInv /\ [P!Next]_(P!vars) => PointersInv'
  BY PointersPreserved
<1>3. PointersInv => P!StrongCounted
  BY DEF PointersInv
<1>4. PointersInv /\ [P!Next]_(P!vars) => [life = "dying" => ref' = 0]_(P!vars)
  BY NoneRevives
<1>5. QED
  BY <1>1, <1>2, <1>3, <1>4, PTL DEF P!Spec, P!NoRevival

---------------------------------------------------------------
(* The views of shared objects                                              *)

\* What a link of the allocator may be.
Links == Blocks \cup {P!Null}

\* The weak references of all threads to the view in a block.
WeakIn(counts, c) == Total([t \in Threads |-> counts[t][c]])

\* The owner has its part of the count until it drops it, and a view that is not
\* installed yet the one that it was made with.
Owned(c) ==
  /\ life # "none" /\ view = c
  /\ \A t \in Threads : pc[t] \in {"clearOwner", "deleteView"} => reg[t] # c
Unshared(c) == \E t \in Threads : pc[t] \in {"install", "deleteNew"} /\ reg[t] = c
Kept(c) == Owned(c) \/ Unshared(c)

\* Where a thread is the only one to have the block it works on.
Carrying == {"reattach", "construct", "install", "deleteNew", "deleteWeak", "deleteView"}
Carries(t, c) == pc[t] \in Carrying /\ reg[t] = c

\* The types of what the views are kept in.
ViewTypes ==
  /\ pool \in [first : Links, last : Links] /\ word \in [Blocks -> Nat]
  /\ use \in [Blocks -> {"fresh", "free", "used"}]
  /\ view \in Links /\ reg \in [Threads -> Links]
  /\ owner \in [Blocks -> BOOLEAN] /\ guard \in [Blocks -> Threads \cup {NoThread}]
  /\ weak \in [Threads -> [Blocks -> Nat]]
  /\ list \in [Threads -> [first : Links, last : Links]]
  /\ \A c \in Blocks : use[c] # "used" => word[c] \in Links

\* What a thread counts on at its place.
PlaceOk(t) ==
  /\ pc[t] \in {"allocate", "reattach", "construct", "install", "deleteNew"} => strong[t] > 0
  /\ pc[t] \in {"reattach", "construct"} => reg[t] \in Blocks /\ use[reg[t]] = "free"
  /\ pc[t] = "reattach" => list[t].first = reg[t]
  /\ pc[t] \in {"install", "deleteNew", "deleteWeak", "deleteView", "clearOwner"} =>
       reg[t] \in Blocks /\ use[reg[t]] = "used"
  /\ pc[t] \in {"install", "deleteNew", "deleteWeak"} => life = "none" \/ view # reg[t]
  /\ pc[t] = "deleteNew" => view # P!Null
  /\ pc[t] \in {"deleteView", "clearOwner"} => view = reg[t]
  /\ pc[t] = "addRef" =>
       reg[t] \in Blocks /\ (weak[t][reg[t]] > 0 \/ (strong[t] > 0 /\ view = reg[t]))
  /\ pc[t] = "tryAddRef" =>
       reg[t] \in Blocks /\ weak[t][reg[t]] > 0 /\ guard[reg[t]] = t /\ owner[reg[t]]

\* What is true of a block: its count, who may have it, and what its being in use means.
CountOk(c) == use[c] = "used" =>
  /\ Kept(c) => word[c] = WeakIn(weak, c) + 1
  /\ ~Kept(c) => word[c] = WeakIn(weak, c)
  /\ word[c] > 0 \/ \E t \in Threads : pc[t] \in {"deleteWeak", "deleteView"} /\ reg[t] = c
CarryOk(c) ==
  /\ \A t, u \in Threads : Carries(t, c) /\ Carries(u, c) => t = u
  /\ \A t, u \in Threads : Carries(t, c) => weak[u][c] = 0
UseOk(c) ==
  /\ \A t \in Threads : weak[t][c] > 0 => use[c] = "used"
  /\ life # "none" /\ view = c => use[c] = "used"
  /\ use[c] = "used" /\ owner[c] => life # "none" /\ (view = c \/ Unshared(c))

\* An object that is being destroyed is being destroyed by somebody.
Ending == life = "dying" => \E t \in Threads : Ends(t)

\* Together they are inductive, as long as the allocator keeps off.
ViewInv ==
  /\ ViewTypes /\ Ending
  /\ \A t \in Threads : PlaceOk(t)
  /\ \A c \in Blocks : CountOk(c) /\ CarryOk(c) /\ UseOk(c)

\* Who has a strong reference keeps the object alive.
LEMMA StrongKeeps ==
  ASSUME PointersInv
  PROVE  /\ pc \in [Threads -> Places] /\ strong \in [Threads -> Nat]
         /\ life \in {"none", "alive", "dying"}
         /\ \A t \in Threads : strong[t] > 0 => life = "alive"
         /\ \A t \in Threads : Ends(t) => life = "dying"
         /\ \A t, u \in Threads : Ends(t) /\ Ends(u) => t = u
<1>1. /\ strong \in [Threads -> Nat] /\ P!StrongCounted
      /\ ref \in Nat
      /\ life = "alive" <=> ref > 0
      /\ \A t \in Threads : strong[t] <= ref
  BY StrongTotals DEF PointersInv
<1>2. \A t \in Threads : strong[t] > 0 => ref > 0
  BY <1>1
<1>3. QED
  BY <1>1, <1>2 DEF PointersInv

\* The number of weak references is at least what each thread has.
LEMMA WeakCounts ==
  ASSUME NEW counts \in [Threads -> [Blocks -> Nat]], NEW c \in Blocks
  PROVE  /\ WeakIn(counts, c) \in Nat
         /\ \A t \in Threads : counts[t][c] \in Nat /\ counts[t][c] <= WeakIn(counts, c)
         /\ WeakIn(counts, c) > 0 => \E t \in Threads : counts[t][c] > 0
<1> DEFINE f == [t \in Threads |-> counts[t][c]]
<1>1. IsFiniteSet(Threads) /\ f \in [Threads -> Nat] /\ \A t \in Threads : f[t] = counts[t][c]
  BY LifetimesAssumption
<1>2. WeakIn(counts, c) = Total(f)
  BY DEF WeakIn
<1> HIDE DEF f
<1>3. Total(f) \in Nat
  BY <1>1, TotalType
<1>4. \A t \in Threads : f[t] <= Total(f)
  BY <1>1, TotalBounds
<1>5. Total(f) > 0 => \E t \in Threads : f[t] > 0
  BY <1>1, TotalIsSomebodys
<1>6. QED
  BY <1>1, <1>2, <1>3, <1>4, <1>5

\* The references of one thread change their number.
LEMMA WeakChanges ==
  ASSUME NEW old \in [Threads -> [Blocks -> Nat]], NEW new \in [Threads -> [Blocks -> Nat]],
         NEW c \in Blocks, NEW t \in Threads,
         \A u \in Threads \ {t} : new[u][c] = old[u][c]
  PROVE  WeakIn(new, c) = WeakIn(old, c) - old[t][c] + new[t][c]
<1> DEFINE f == [u \in Threads |-> old[u][c]]
           g == [u \in Threads |-> new[u][c]]
<1>1. /\ IsFiniteSet(Threads) /\ f \in [Threads -> Nat] /\ g \in [Threads -> Nat]
      /\ \A u \in Threads \ {t} : g[u] = f[u]
      /\ f[t] = old[t][c] /\ g[t] = new[t][c]
  BY LifetimesAssumption
<1>2. WeakIn(new, c) = Total(g) /\ WeakIn(old, c) = Total(f)
  BY DEF WeakIn
<1> HIDE DEF f, g
<1>3. P!Total(g) = P!Total(f) - f[t] + g[t]
  BY <1>1, StrongChanges
<1>4. QED
  BY <1>1, <1>2, <1>3, TotalIs

\* The number after a step is that of the references after it.
LEMMA WeakThen == \A c : WeakIn(weak, c)' = WeakIn(weak', c)
BY DEF WeakIn, Total, Units, UnitsOf

\* Addresses are numbers other than the null one.
LEMMA AddressesAre == Links \subseteq Nat /\ P!Null \notin Blocks
<1>1. Blocks \subseteq Nat \ {0} /\ P!Null = 0
  BY LifetimesAssumption DEF P!Null
<1>2. QED
  BY <1>1 DEF Links

\* A step that leaves the blocks alone, of a thread that carries none before or after it.
LEMMA ViewsStay ==
  ASSUME PointersInv, ViewInv, ViewTypes', NEW t \in Threads,
         UNCHANGED <<word, use, view, owner, weak>>,
         pc' \in [Threads -> Places],
         \A u \in Threads \ {t} : pc'[u] = pc[u] /\ reg'[u] = reg[u] /\ list'[u] = list[u],
         pc[t] \in {"idle", "allocate", "tryAddRef"},
         pc'[t] \in {"idle", "destroy", "allocate", "addRef", "tryAddRef"},
         life' = "none" <=> life = "none",
         life' = "dying" => life = "dying" \/ pc'[t] = "destroy",
         \A u \in Threads \ {t} : /\ strong[u] > 0 => strong'[u] > 0
                                  /\ pc[u] = "tryAddRef" => guard'[reg[u]] = u,
         PlaceOk(t)'
  PROVE  ViewInv'
<1>1. ASSUME NEW u \in Threads PROVE PlaceOk(u)'
  <2>1. CASE u # t
    <3>1. /\ pc'[u] = pc[u] /\ reg'[u] = reg[u] /\ list'[u] = list[u] /\ PlaceOk(u)
          /\ strong[u] > 0 => strong'[u] > 0
          /\ pc[u] = "tryAddRef" => guard'[reg[u]] = u
      BY <2>1 DEF ViewInv
    <3>2. QED
      BY <3>1 DEF PlaceOk
  <2>2. QED
    BY <2>1
<1>2. ASSUME NEW c \in Blocks PROVE CountOk(c)' /\ CarryOk(c)' /\ UseOk(c)'
  <2>1. WeakIn(weak, c)' = WeakIn(weak, c)
    BY WeakThen
  <2>2. \A u \in Threads, d \in Blocks : Carries(u, d)' <=> Carries(u, d)
    BY DEF Carries, Carrying
  <2>3. (Owned(c)' <=> Owned(c)) /\ (Unshared(c)' <=> Unshared(c))
    BY DEF Owned, Unshared
  <2>4. (\E u \in Threads : pc[u] \in {"deleteWeak", "deleteView"} /\ reg[u] = c)
          => (\E u \in Threads : pc'[u] \in {"deleteWeak", "deleteView"} /\ reg'[u] = c)
    OBVIOUS
  <2>5. CountOk(c) /\ CarryOk(c) /\ UseOk(c)
    BY DEF ViewInv
  <2>6. QED
    BY <2>1, <2>2, <2>3, <2>4, <2>5 DEF CountOk, CarryOk, UseOk, Kept
<1>3. Ending'
  BY DEF ViewInv, Ending, Ends
<1>4. QED
  BY <1>1, <1>2, <1>3 DEF ViewInv

\* A new object has no view.
LEMMA MakeKeeps ==
  ASSUME PointersInv, ViewInv, NEW t \in Threads, P!Make(t) PROVE ViewInv'
<1>1. /\ life = "none" /\ life' = "alive" /\ view' = P!Null
      /\ strong' = [strong EXCEPT ![t] = 1]
      /\ UNCHANGED <<pool, word, use, owner, guard, weak, pc, reg, list>>
  BY DEF P!Make, P!allocator
<1>2. /\ P!Null \notin Blocks /\ strong \in [Threads -> Nat]
      /\ \A u \in Threads : ~(strong[u] > 0) /\ ~Ends(u)
  BY <1>1, StrongKeeps, LifetimesAssumption DEF P!Null
<1>3. ViewTypes'
  BY <1>1 DEF ViewInv, ViewTypes, Links
<1>4. ASSUME NEW u \in Threads PROVE PlaceOk(u)'
  <2>1. PlaceOk(u) /\ ~Ends(u) /\ ~(strong[u] > 0)
    BY <1>2 DEF ViewInv
  <2>2. QED
    BY <1>1, <1>2, <2>1 DEF PlaceOk, Ends
<1>5. ASSUME NEW c \in Blocks PROVE CountOk(c)' /\ CarryOk(c)' /\ UseOk(c)'
  <2>1. WeakIn(weak, c)' = WeakIn(weak, c)
    BY <1>1, WeakThen
  <2>2. ~Owned(c) /\ ~Owned(c)' /\ (Unshared(c)' <=> Unshared(c))
    BY <1>1, <1>2 DEF Owned, Unshared
  <2>3. CountOk(c) /\ CarryOk(c) /\ UseOk(c)
    BY DEF ViewInv
  <2>4. QED
    BY <1>1, <1>2, <2>1, <2>2, <2>3 DEF CountOk, CarryOk, UseOk, Kept, Carries
<1>6. Ending'
  BY <1>1 DEF Ending
<1>7. QED
  BY <1>3, <1>4, <1>5, <1>6 DEF ViewInv

\* The object drops its view.
LEMMA DestroyKeeps ==
  ASSUME PointersInv, ViewInv, NEW t \in Threads, P!Destroy(t) PROVE ViewInv'
<1>1. /\ pc[t] = "destroy" /\ reg' = [reg EXCEPT ![t] = view]
      /\ UNCHANGED <<ref, view, pool, use, owner, guard, strong, weak, list>>
  BY DEF P!Destroy, P!handles
<1>2. /\ pc \in [Threads -> Places] /\ life = "dying"
      /\ \A u \in Threads : ~(strong[u] > 0) /\ (Ends(u) => u = t)
  <2>1. Ends(t)
    BY <1>1 DEF Ends
  <2>2. QED
    BY <2>1, StrongKeeps
<1>3. /\ \A u \in Threads : PlaceOk(u)
      /\ \A c \in Blocks : CountOk(c) /\ CarryOk(c) /\ UseOk(c) /\ ~Unshared(c)
  BY <1>2 DEF ViewInv, PlaceOk, Unshared
<1>4. \A u \in Threads, c \in Blocks : view = c => ~Carries(u, c)
  <2>1. ASSUME NEW u \in Threads, view = reg[u], view \in Blocks, pc[u] \in Carrying PROVE FALSE
    <3>1. PlaceOk(u) /\ ~(strong[u] > 0) /\ (Ends(u) => u = t)
      BY <1>2, <1>3
    <3>2. QED
      BY <1>1, <1>2, <2>1, <3>1 DEF PlaceOk, Ends, Carrying
  <2>2. QED
    BY <2>1 DEF Carries
<1>5. CASE view = P!Null
  <2>1. life' = "none" /\ pc' = [pc EXCEPT ![t] = "idle"] /\ UNCHANGED word
    BY <1>5 DEF P!Destroy, P!Go
  <2>2. P!Null \notin Blocks
    BY LifetimesAssumption DEF P!Null
  <2>3. ViewTypes'
    BY <1>1, <2>1 DEF ViewInv, ViewTypes
  <2>4. ASSUME NEW u \in Threads PROVE PlaceOk(u)'
    <3>1. CASE u = t
      BY <1>2, <2>1, <3>1 DEF PlaceOk
    <3>2. CASE u # t
      <4>1. pc'[u] = pc[u] /\ reg'[u] = reg[u] /\ PlaceOk(u)
        BY <1>1, <1>2, <1>3, <2>1, <3>2 DEF ViewInv, ViewTypes
      <4>2. QED
        BY <1>1, <2>1, <4>1 DEF PlaceOk
    <3>3. QED
      BY <3>1, <3>2
  <2>5. ASSUME NEW c \in Blocks PROVE CountOk(c)' /\ CarryOk(c)' /\ UseOk(c)'
    <3>1. WeakIn(weak, c)' = WeakIn(weak, c)
      BY <1>1, WeakThen
    <3>2. ~Owned(c) /\ ~Owned(c)' /\ ~Unshared(c)' /\ ~Unshared(c)
      BY <1>1, <1>2, <1>3, <1>5, <2>1, <2>2 DEF Owned, Unshared
    <3>3. \A u \in Threads : Carries(u, c)' <=> Carries(u, c)
      BY <1>1, <1>2, <2>1 DEF Carries, Carrying, ViewInv, ViewTypes
    <3>4. (\E u \in Threads : pc[u] \in {"deleteWeak", "deleteView"} /\ reg[u] = c)
            => (\E u \in Threads : pc'[u] \in {"deleteWeak", "deleteView"} /\ reg'[u] = c)
      BY <1>1, <1>2, <2>1 DEF ViewInv, ViewTypes
    <3>5. CountOk(c) /\ CarryOk(c) /\ UseOk(c) /\ c # view
      BY <1>3, <1>5, <2>2
    <3>6. QED
      BY <1>1, <1>2, <2>1, <3>1, <3>2, <3>3, <3>4, <3>5 DEF CountOk, CarryOk, UseOk, Kept
  <2>6. QED
    BY <2>1, <2>3, <2>4, <2>5 DEF ViewInv, Ending
<1>6. CASE view # P!Null
  <2>1. PICK r \in Blocks : r = view
    BY <1>6 DEF ViewInv, ViewTypes, Links
  <2>2. use[r] = "used" /\ Owned(r) /\ word[r] = WeakIn(weak, r) + 1
    <3>1. use[r] = "used"
      BY <1>2, <1>3, <2>1 DEF UseOk
    <3>2. Owned(r)
      BY <1>1, <1>2, <2>1 DEF Owned, Ends
    <3>3. QED
      BY <1>3, <3>1, <3>2 DEF CountOk, Kept
  <2>3. /\ life' = life /\ word' = [word EXCEPT ![r] = @ - 1]
        /\ \/ word[r] = 1 /\ pc' = [pc EXCEPT ![t] = "deleteView"]
           \/ word[r] # 1 /\ pc' = [pc EXCEPT ![t] = "clearOwner"]
    <3>1. word[r] = 1 => /\ word' = [word EXCEPT ![r] = 0] /\ life' = life
                         /\ pc' = [pc EXCEPT ![t] = "deleteView"]
      BY <1>6, <2>1 DEF P!Destroy, P!Go
    <3>2. word[r] # 1 => /\ word' = [word EXCEPT ![r] = @ - 1] /\ life' = life
                         /\ pc' = [pc EXCEPT ![t] = "clearOwner"]
      BY <1>6, <2>1 DEF P!Destroy, P!Go
    <3>3. QED
      BY <3>1, <3>2
  <2>4. /\ WeakIn(weak, r) \in Nat /\ word'[r] = WeakIn(weak, r)
        /\ pc'[t] = "deleteView" => \A u \in Threads : weak[u][r] = 0
        /\ word'[r] > 0 \/ pc'[t] = "deleteView"
    <3>1. weak \in [Threads -> [Blocks -> Nat]] /\ word \in [Blocks -> Nat]
      BY DEF ViewInv, ViewTypes
    <3>2. /\ WeakIn(weak, r) \in Nat
          /\ \A u \in Threads : weak[u][r] \in Nat /\ weak[u][r] <= WeakIn(weak, r)
      BY <3>1, WeakCounts
    <3>3. word'[r] = word[r] - 1
      BY <2>3, <3>1
    <3>4. pc'[t] = "deleteView" => WeakIn(weak, r) = 0
      BY <1>2, <2>2, <2>3, <3>2
    <3>5. QED
      BY <1>2, <2>2, <2>3, <3>2, <3>3, <3>4
  <2>5. ViewTypes'
    <3>1. word' \in [Blocks -> Nat]
      BY <2>3, <2>4 DEF ViewInv, ViewTypes
    <3>2. QED
      BY <1>1, <2>1, <2>2, <2>3, <3>1 DEF ViewInv, ViewTypes
  <2>6. ASSUME NEW u \in Threads PROVE PlaceOk(u)'
    <3>1. CASE u = t
      <4>1. reg'[t] = r /\ pc'[t] \in {"deleteView", "clearOwner"}
        BY <1>1, <1>2, <2>1, <2>3 DEF ViewInv, ViewTypes
      <4>2. QED
        BY <1>1, <2>1, <2>2, <3>1, <4>1 DEF PlaceOk
    <3>2. CASE u # t
      <4>1. pc'[u] = pc[u] /\ reg'[u] = reg[u] /\ PlaceOk(u)
        BY <1>1, <1>2, <1>3, <2>3, <3>2 DEF ViewInv, ViewTypes
      <4>2. QED
        BY <1>1, <2>3, <4>1 DEF PlaceOk
    <3>3. QED
      BY <3>1, <3>2
  <2>7. ASSUME NEW c \in Blocks PROVE CountOk(c)' /\ CarryOk(c)' /\ UseOk(c)'
    <3>1. WeakIn(weak, c)' = WeakIn(weak, c)
      BY <1>1, WeakThen
    <3>2. /\ ~Unshared(c)' /\ ~Owned(c)'
          /\ Owned(c) <=> c = r
      <4>1. ~Unshared(c)'
        BY <1>1, <1>2, <1>3, <2>3 DEF Unshared, ViewInv, ViewTypes
      <4>2. ~Owned(c)' /\ (Owned(c) <=> c = r)
        BY <1>1, <1>2, <2>1, <2>2, <2>3 DEF Owned, ViewInv, ViewTypes
      <4>3. QED
        BY <4>1, <4>2
    <3>3. \A u \in Threads :
             Carries(u, c)' <=> Carries(u, c) \/ (u = t /\ c = r /\ pc'[t] = "deleteView")
      BY <1>1, <1>2, <2>1, <2>3, ZenonT(30) DEF Carries, Carrying, ViewInv, ViewTypes
    <3>4. (\E u \in Threads : pc[u] \in {"deleteWeak", "deleteView"} /\ reg[u] = c)
            => (\E u \in Threads : pc'[u] \in {"deleteWeak", "deleteView"} /\ reg'[u] = c)
      BY <1>1, <1>2, <2>3 DEF ViewInv, ViewTypes
    <3>5. CountOk(c) /\ CarryOk(c) /\ UseOk(c)
      BY <1>3
    <3>6. CountOk(c)'
      <4>1. CASE c = r
        <5>1. pc'[t] = "deleteView" => reg'[t] = r
          BY <1>1, <2>1 DEF ViewInv, ViewTypes
        <5>2. QED
          BY <2>4, <3>1, <3>2, <4>1, <5>1 DEF CountOk, Kept
      <4>2. CASE c # r
        <5>1. word'[c] = word[c] /\ ~Unshared(c)
          BY <1>3, <2>3, <4>2 DEF ViewInv, ViewTypes
        <5>2. QED
          BY <1>1, <3>1, <3>2, <3>4, <3>5, <4>2, <5>1 DEF CountOk, Kept
      <4>3. QED
        BY <4>1, <4>2
    <3>7. CarryOk(c)'
      BY <1>1, <1>4, <2>1, <2>4, <3>3, <3>5 DEF CarryOk
    <3>8. UseOk(c)'
      BY <1>1, <1>3, <2>3, <3>5 DEF UseOk
    <3>9. QED
      BY <3>6, <3>7, <3>8
  <2>8. Ending'
    BY <1>2, <2>3 DEF Ending, Ends
  <2>9. QED
    BY <2>5, <2>6, <2>7, <2>8 DEF ViewInv
<1>7. QED
  BY <1>5, <1>6

\* The view, which others still refer to, forgets its owner.
LEMMA ClearOwnerKeeps ==
  ASSUME PointersInv, ViewInv, NEW t \in Threads, P!ClearOwner(t) PROVE ViewInv'
<1>1. /\ pc[t] = "clearOwner" /\ pc' = [pc EXCEPT ![t] = "idle"] /\ life' = "none"
      /\ reg' = [reg EXCEPT ![t] = P!Null] /\ owner' = [owner EXCEPT ![reg[t]] = FALSE]
      /\ guard[reg[t]] = NoThread
      /\ UNCHANGED <<ref, view, pool, word, use, guard, strong, weak, list>>
  BY DEF P!ClearOwner, P!Done, P!Go, P!allocator, P!handles
<1>2. /\ pc \in [Threads -> Places] /\ life = "dying"
      /\ \A u \in Threads : ~(strong[u] > 0) /\ (Ends(u) => u = t)
  <2>1. Ends(t)
    BY <1>1 DEF Ends
  <2>2. QED
    BY <2>1, StrongKeeps
<1>3. /\ \A u \in Threads : PlaceOk(u)
      /\ \A c \in Blocks : CountOk(c) /\ CarryOk(c) /\ UseOk(c) /\ ~Unshared(c)
  BY <1>2 DEF ViewInv, PlaceOk, Unshared
<1>4. reg[t] = view /\ view \in Blocks /\ NoThread \notin Threads
  BY <1>1, <1>3, LifetimesAssumption DEF PlaceOk
<1>5. ViewTypes'
  BY <1>1 DEF ViewInv, ViewTypes, Links
<1>6. ASSUME NEW u \in Threads PROVE PlaceOk(u)'
  <2>1. CASE u = t
    BY <1>1, <1>2, <2>1 DEF PlaceOk
  <2>2. CASE u # t
    <3>1. pc'[u] = pc[u] /\ reg'[u] = reg[u] /\ PlaceOk(u) /\ ~Ends(u)
      BY <1>1, <1>2, <1>3, <2>2 DEF ViewInv, ViewTypes
    <3>2. pc[u] = "tryAddRef" => owner'[reg[u]] = owner[reg[u]]
      BY <1>1, <1>4, <3>1 DEF PlaceOk, ViewInv, ViewTypes
    <3>3. QED
      BY <1>1, <1>2, <3>1, <3>2 DEF PlaceOk, Ends
  <2>3. QED
    BY <2>1, <2>2
<1>7. ASSUME NEW c \in Blocks PROVE CountOk(c)' /\ CarryOk(c)' /\ UseOk(c)'
  <2>1. WeakIn(weak, c)' = WeakIn(weak, c)
    BY <1>1, WeakThen
  <2>2. ~Owned(c)' /\ ~Unshared(c)' /\ ~Unshared(c) /\ ~Owned(c)
    BY <1>1, <1>2, <1>3, <1>4 DEF Owned, Unshared
  <2>3. \A u \in Threads : Carries(u, c)' <=> Carries(u, c)
    BY <1>1, <1>2 DEF Carries, Carrying, ViewInv, ViewTypes
  <2>4. (\E u \in Threads : pc[u] \in {"deleteWeak", "deleteView"} /\ reg[u] = c)
          => (\E u \in Threads : pc'[u] \in {"deleteWeak", "deleteView"} /\ reg'[u] = c)
    BY <1>1, <1>2 DEF ViewInv, ViewTypes
  <2>5. CountOk(c) /\ CarryOk(c) /\ UseOk(c)
    BY <1>3
  <2>6. use'[c] = "used" => ~owner'[c]
    BY <1>1, <1>3, <1>4, <2>5 DEF UseOk, ViewInv, ViewTypes
  <2>7. QED
    BY <1>1, <1>2, <2>1, <2>2, <2>3, <2>4, <2>5, <2>6 DEF CountOk, CarryOk, UseOk, Kept
<1>8. QED
  BY <1>1, <1>5, <1>6, <1>7 DEF ViewInv, Ending

\* A view that nobody refers to goes back to the allocator.
LEMMA DeleteViewKeeps ==
  ASSUME PointersInv, ViewInv, NEW t \in Threads, P!DeleteView(t) PROVE ViewInv'
<1>1. /\ \A u \in Threads : PlaceOk(u)
      /\ \A c \in Blocks : CountOk(c) /\ CarryOk(c) /\ UseOk(c)
  BY DEF ViewInv
<1>2. PICK r \in Blocks : r = reg[t] /\ use[r] = "used" /\ Carries(t, r)
  BY <1>1 DEF PlaceOk, P!DeleteView, Carries, Carrying
<1>3. /\ pc[t] \in {"deleteView", "deleteNew", "deleteWeak"}
      /\ pool' = [first |-> r, last |-> r] /\ word' = [word EXCEPT ![r] = pool.first]
      /\ use' = [use EXCEPT ![r] = "free"] /\ owner' = [owner EXCEPT ![r] = FALSE]
      /\ IF pc[t] = "deleteNew"
         THEN pc' = [pc EXCEPT ![t] = "addRef"] /\ reg' = [reg EXCEPT ![t] = view]
         ELSE pc' = [pc EXCEPT ![t] = "idle"] /\ reg' = [reg EXCEPT ![t] = P!Null]
      /\ life' = IF pc[t] = "deleteView" THEN "none" ELSE life
      /\ UNCHANGED <<ref, view, guard, strong, weak, list>>
  BY <1>2 DEF P!DeleteView, P!Deallocate, P!AttachTo, P!Done, P!Go, P!handles
<1>4. /\ pc \in [Threads -> Places]
      /\ \A u \in Threads : strong[u] > 0 => life = "alive"
      /\ \A u \in Threads : Ends(u) => life = "dying"
      /\ \A u \in Threads : Ends(u) /\ pc[t] = "deleteView" => u = t
  <2>1. pc[t] = "deleteView" => Ends(t)
    BY DEF Ends
  <2>2. QED
    BY <2>1, StrongKeeps
<1>5. /\ \A u \in Threads : weak[u][r] = 0
      /\ \A u \in Threads : Carries(u, r) => u = t
      /\ pc[t] # "deleteView" => life = "none" \/ view # r
      /\ pc[t] = "deleteView" => view = r /\ life = "dying"
  <2>1. pc[t] = "deleteView" => life = "dying"
    BY <1>4 DEF Ends
  <2>2. QED
    BY <1>1, <1>2, <1>3, <2>1 DEF CarryOk, PlaceOk
<1>6. /\ pc' \in [Threads -> Places] /\ reg' \in [Threads -> Links]
      /\ \A u \in Threads \ {t} : pc'[u] = pc[u] /\ reg'[u] = reg[u]
      /\ pc'[t] = IF pc[t] = "deleteNew" THEN "addRef" ELSE "idle"
      /\ pc[t] = "deleteNew" => reg'[t] = view
  <2>1. reg \in [Threads -> Links] /\ view \in Links /\ P!Null \in Links
    BY DEF ViewInv, ViewTypes, Links
  <2>2. PICK place \in Places, what \in Links :
          /\ pc' = [pc EXCEPT ![t] = place] /\ reg' = [reg EXCEPT ![t] = what]
          /\ place = IF pc[t] = "deleteNew" THEN "addRef" ELSE "idle"
          /\ pc[t] = "deleteNew" => what = view
    <3>1. CASE pc[t] = "deleteNew"
      BY <1>3, <2>1, <3>1 DEF Places
    <3>2. CASE pc[t] # "deleteNew"
      BY <1>3, <2>1, <3>2 DEF Places
    <3>3. QED
      BY <3>1, <3>2
  <2>3. pc \in [Threads -> Places]
    BY <1>4
  <2>4. /\ pc' \in [Threads -> Places] /\ reg' \in [Threads -> Links]
        /\ pc'[t] = place /\ reg'[t] = what
        /\ \A u \in Threads \ {t} : pc'[u] = pc[u] /\ reg'[u] = reg[u]
    BY ONLY t \in Threads, <2>1, <2>2, <2>3
  <2>5. QED
    BY <2>2, <2>4
<1>7. ViewTypes'
  <2>1. pool.first \in Links /\ pool.first \in Nat
    <3>1. pool.first \in Links
      BY DEF ViewInv, ViewTypes
    <3>2. QED
      BY <3>1, AddressesAre
  <2>2. QED
    BY <1>2, <1>3, <1>6, <2>1 DEF ViewInv, ViewTypes, Links
<1>8. ASSUME NEW u \in Threads PROVE PlaceOk(u)'
  <2>1. CASE u = t
    <3>1. pc[t] = "deleteNew" => view \in Blocks /\ strong[t] > 0
      BY <1>1 DEF PlaceOk, ViewInv, ViewTypes, Links
    <3>2. QED
      BY <1>3, <1>6, <2>1, <3>1 DEF PlaceOk
  <2>2. CASE u # t
    <3>1. /\ pc'[u] = pc[u] /\ reg'[u] = reg[u] /\ PlaceOk(u) /\ ~Carries(u, r)
          /\ weak[u][r] = 0
      BY <1>1, <1>5, <1>6, <2>2
    <3>2. pc[u] \in Carrying \cup {"clearOwner", "tryAddRef"} => reg[u] # r
      <4>1. pc[u] = "clearOwner" => reg[u] # r
        BY <1>4, <1>5, <2>2, <3>1 DEF PlaceOk, Ends
      <4>2. QED
        BY <3>1, <4>1 DEF PlaceOk, Carries
    <3>3. /\ pc[u] \in Carrying \cup {"clearOwner", "tryAddRef"} =>
               reg[u] \in Blocks /\ use'[reg[u]] = use[reg[u]]
          /\ pc[u] = "tryAddRef" => owner'[reg[u]] = owner[reg[u]]
      <4>1. \A c \in Blocks : c # r => use'[c] = use[c] /\ owner'[c] = owner[c]
        BY <1>3 DEF ViewInv, ViewTypes
      <4>2. pc[u] \in Carrying \cup {"clearOwner", "tryAddRef"} => reg[u] \in Blocks
        BY <3>1 DEF PlaceOk, Carrying
      <4>3. QED
        BY <3>2, <4>1, <4>2
    <3>4. life' = life \/ life' = "none"
      BY <1>3
    <3>5. QED
      BY <1>3, <3>1, <3>3, <3>4 DEF PlaceOk, Carrying
  <2>3. QED
    BY <2>1, <2>2
<1>9. ASSUME NEW c \in Blocks PROVE CountOk(c)' /\ CarryOk(c)' /\ UseOk(c)'
  <2>1. WeakIn(weak, c)' = WeakIn(weak, c)
    BY <1>3, WeakThen
  <2>2. \A u \in Threads : Carries(u, c)' => Carries(u, c)
    BY <1>6 DEF Carries, Carrying
  <2>3. CountOk(c) /\ CarryOk(c) /\ UseOk(c)
    BY <1>1
  <2>4. CASE c = r
    <3>1. use'[c] = "free" /\ ~(life' # "none" /\ view' = c)
      BY <1>3, <1>5, <2>4 DEF ViewInv, ViewTypes
    <3>2. \A u \in Threads : weak'[u][c] = 0
      BY <1>3, <1>5, <2>4
    <3>3. QED
      BY <2>2, <2>3, <3>1, <3>2 DEF CountOk, CarryOk, UseOk
  <2>5. CASE c # r
    <3>1. use'[c] = use[c] /\ word'[c] = word[c] /\ owner'[c] = owner[c]
      BY <1>3, <2>5 DEF ViewInv, ViewTypes
    <3>2. \A u \in Threads : reg[u] = c /\ pc[u] \in Carrying =>
             u # t /\ pc'[u] = pc[u] /\ reg'[u] = reg[u]
      BY <1>2, <1>6, <2>5
    <3>3. Unshared(c)' <=> Unshared(c)
      <4>1. Unshared(c) => Unshared(c)'
        BY <3>2 DEF Unshared, Carrying
      <4>2. Unshared(c)' => Unshared(c)
        BY <1>6 DEF Unshared
      <4>3. QED
        BY <4>1, <4>2
    <3>4. Owned(c)' <=> Owned(c)
      <4>1. CASE pc[t] = "deleteView"
        BY <1>3, <1>5, <2>5, <4>1 DEF Owned
      <4>2. CASE pc[t] # "deleteView"
        <5>1. \A u \in Threads : pc'[u] \in {"clearOwner", "deleteView"} /\ reg'[u] = c
                            <=> pc[u] \in {"clearOwner", "deleteView"} /\ reg[u] = c
          BY <1>3, <1>6, <4>2
        <5>2. QED
          BY <1>3, <4>2, <5>1 DEF Owned
      <4>3. QED
        BY <4>1, <4>2
    <3>5. (\E u \in Threads : pc[u] \in {"deleteWeak", "deleteView"} /\ reg[u] = c)
            => (\E u \in Threads : pc'[u] \in {"deleteWeak", "deleteView"} /\ reg'[u] = c)
      BY <3>2 DEF Carrying
    <3>6. CountOk(c)' /\ CarryOk(c)'
      BY <1>3, <2>1, <2>2, <2>3, <3>1, <3>3, <3>4, <3>5 DEF CountOk, CarryOk, Kept
    <3>7. UseOk(c)'
      <4>1. use[c] = "used" /\ owner[c] => life' # "none" /\ (view = c \/ Unshared(c))
        <5>1. Unshared(c) => life = "alive"
          BY <1>1, <1>4 DEF Unshared, PlaceOk
        <5>2. QED
          BY <1>3, <1>5, <2>3, <2>5, <5>1 DEF UseOk
      <4>2. life' # "none" => life # "none"
        BY <1>3
      <4>3. QED
        BY <1>3, <2>3, <3>1, <3>3, <4>1, <4>2 DEF UseOk
    <3>8. QED
      BY <3>6, <3>7
  <2>6. QED
    BY <2>4, <2>5
<1>10. Ending'
  <2>1. life' = "dying" => life = "dying" /\ pc[t] # "deleteView"
    BY <1>3
  <2>2. QED
    BY <1>3, <1>6, <2>1 DEF Ending, Ends, ViewInv
<1>11. QED
  BY <1>7, <1>8, <1>9, <1>10 DEF ViewInv

\* A block that nobody has goes to the thread that asked for one.
LEMMA Takes ==
  ASSUME PointersInv, ViewInv, ViewTypes', NEW t \in Threads, NEW r \in Blocks,
         pc[t] = "allocate", use[r] \in {"fresh", "free"}, \A u \in Threads : ~Carries(u, r),
         use' = [use EXCEPT ![r] = "free"],
         \/ pc' = [pc EXCEPT ![t] = "reattach"] /\ list'[t].first = r
         \/ pc' = [pc EXCEPT ![t] = "construct"],
         reg' = [reg EXCEPT ![t] = r],
         \A u \in Threads \ {t} : list'[u] = list[u],
         UNCHANGED <<word, life, view, owner, guard, strong, weak>>
  PROVE  ViewInv'
<1>1. /\ \A u \in Threads : PlaceOk(u)
      /\ \A c \in Blocks : CountOk(c) /\ CarryOk(c) /\ UseOk(c)
  BY DEF ViewInv
<1>2. /\ pc \in [Threads -> Places] /\ life = "alive" /\ strong[t] > 0
      /\ \A u \in Threads : ~Ends(u)
  BY <1>1, StrongKeeps DEF PlaceOk
<1>3. /\ pc'[t] \in {"reattach", "construct"} /\ reg'[t] = r
      /\ \A u \in Threads \ {t} : pc'[u] = pc[u] /\ reg'[u] = reg[u]
  BY <1>2, ZenonT(30) DEF ViewInv, ViewTypes
<1>4. /\ use'[r] = "free" /\ \A c \in Blocks \ {r} : use'[c] = use[c]
      /\ \A u \in Threads : weak[u][r] = 0
  <2>1. weak \in [Threads -> [Blocks -> Nat]] /\ use \in [Blocks -> {"fresh", "free", "used"}]
    BY DEF ViewInv, ViewTypes
  <2>2. \A u \in Threads : weak[u][r] \in Nat /\ ~(weak[u][r] > 0)
    BY <1>1, <2>1 DEF UseOk
  <2>3. QED
    BY <2>1, <2>2
<1>5. ASSUME NEW u \in Threads PROVE PlaceOk(u)'
  <2>1. CASE u = t
    BY <1>2, <1>3, <1>4, <2>1 DEF PlaceOk
  <2>2. CASE u # t
    <3>1. /\ pc'[u] = pc[u] /\ reg'[u] = reg[u] /\ list'[u] = list[u]
          /\ PlaceOk(u) /\ ~Carries(u, r)
      BY <1>1, <1>3, <2>2
    <3>2. /\ reg[u] \in Blocks /\ use[reg[u]] = "used" => use'[reg[u]] = "used"
          /\ reg[u] \in Blocks /\ use[reg[u]] = "free" => use'[reg[u]] = "free"
      BY <1>4
    <3>3. QED
      BY <3>1, <3>2 DEF PlaceOk
  <2>3. QED
    BY <2>1, <2>2
<1>6. ASSUME NEW c \in Blocks PROVE CountOk(c)' /\ CarryOk(c)' /\ UseOk(c)'
  <2>1. WeakIn(weak, c)' = WeakIn(weak, c)
    BY WeakThen
  <2>2. \A u \in Threads : Carries(u, c)' <=> Carries(u, c) \/ (u = t /\ c = r)
    BY <1>3 DEF Carries, Carrying
  <2>3. (Owned(c)' <=> Owned(c)) /\ (Unshared(c)' <=> Unshared(c))
    BY <1>3 DEF Owned, Unshared
  <2>4. (\E u \in Threads : pc[u] \in {"deleteWeak", "deleteView"} /\ reg[u] = c)
          => (\E u \in Threads : pc'[u] \in {"deleteWeak", "deleteView"} /\ reg'[u] = c)
    BY <1>3
  <2>5. CountOk(c) /\ CarryOk(c) /\ UseOk(c) /\ (use'[c] = "used" <=> use[c] = "used")
    BY <1>1, <1>4
  <2>6. QED
    BY <1>4, <2>1, <2>2, <2>3, <2>4, <2>5 DEF CountOk, CarryOk, UseOk, Kept
<1>7. Ending'
  BY <1>2 DEF Ending
<1>8. QED
  BY <1>5, <1>6, <1>7 DEF ViewInv

\* The allocator hands out the first block of its list, or a fresh one, or none.
LEMMA AllocateKeeps ==
  ASSUME PointersInv, ViewInv, P!KeepsOff, NEW t \in Threads, P!Allocate(t) PROVE ViewInv'
<1>1. /\ pc[t] = "allocate" /\ pool' = P!Empty /\ list' = [list EXCEPT ![t] = pool]
      /\ UNCHANGED <<word, life, ref, view, owner, guard, strong, weak>>
  BY DEF P!Allocate, P!Detach, P!object, P!handles
<1>2. /\ pool \in [first : Links, last : Links] /\ reg \in [Threads -> Links]
      /\ list \in [Threads -> [first : Links, last : Links]]
      /\ use \in [Blocks -> {"fresh", "free", "used"}]
      /\ pc \in [Threads -> Places]
  BY StrongKeeps DEF ViewInv, ViewTypes
<1>3. P!Empty \in [first : Links, last : Links] /\ pool.first \in Links
  BY <1>2 DEF P!Empty, Links
<1>4. ASSUME NEW r \in Blocks, use[r] \in {"fresh", "free"}, \A u \in Threads : ~Carries(u, r),
             reg' = [reg EXCEPT ![t] = r], use' = [use EXCEPT ![r] = "free"],
             \/ pc' = [pc EXCEPT ![t] = "reattach"] /\ pool.first = r
             \/ pc' = [pc EXCEPT ![t] = "construct"]
      PROVE  ViewInv'
  <2>1. /\ reg' \in [Threads -> Links] /\ list' \in [Threads -> [first : Links, last : Links]]
        /\ list'[t] = pool /\ \A u \in Threads \ {t} : list'[u] = list[u]
        /\ use' \in [Blocks -> {"fresh", "free", "used"}]
        /\ \A c \in Blocks : use'[c] = "used" <=> use[c] = "used"
    BY <1>1, <1>2, <1>4 DEF Links
  <2>2. ViewTypes'
    BY <1>1, <1>3, <2>1 DEF ViewInv, ViewTypes
  <2>3. QED
    BY <1>1, <1>4, <2>1, <2>2, Takes
<1>5. CASE pool.first # P!Null
  <2>1. PICK r \in Blocks : r = pool.first
    BY <1>3, <1>5 DEF Links
  <2>2. use[r] = "free" /\ \A u \in Threads : ~Carries(u, r)
    BY <2>1 DEF P!KeepsOff, P!Holds, P!At, Carries, Carrying
  <2>3. /\ reg' = [reg EXCEPT ![t] = r] /\ pc' = [pc EXCEPT ![t] = "reattach"]
        /\ use' = [use EXCEPT ![r] = "free"]
    BY <1>2, <1>5, <2>1, <2>2 DEF P!Allocate, P!Go
  <2>4. QED
    BY <1>4, <2>1, <2>2, <2>3
<1>6. ASSUME NEW r \in P!Fresh, reg' = [reg EXCEPT ![t] = r],
             use' = [use EXCEPT ![r] = "free"], pc' = [pc EXCEPT ![t] = "construct"]
      PROVE  ViewInv'
  <2>1. r \in Blocks /\ use[r] = "fresh"
    BY <1>6 DEF P!Fresh
  <2>2. \A u \in Threads : ~Carries(u, r)
    BY <2>1 DEF ViewInv, PlaceOk, Carries, Carrying
  <2>3. QED
    BY <1>4, <1>6, <2>1, <2>2
<1>7. ASSUME reg' = [reg EXCEPT ![t] = P!Null], pc' = [pc EXCEPT ![t] = "idle"], UNCHANGED use
      PROVE  ViewInv'
  <2>1. /\ reg' \in [Threads -> Links] /\ list' \in [Threads -> [first : Links, last : Links]]
        /\ pc' \in [Threads -> Places] /\ pc'[t] = "idle"
        /\ \A u \in Threads \ {t} : pc'[u] = pc[u] /\ reg'[u] = reg[u] /\ list'[u] = list[u]
    BY <1>1, <1>2, <1>7 DEF Links, Places
  <2>2. ViewTypes'
    BY <1>1, <1>3, <1>7, <2>1 DEF ViewInv, ViewTypes
  <2>3. PlaceOk(t)'
    BY <2>1 DEF PlaceOk
  <2>4. \A u \in Threads : pc[u] = "tryAddRef" => guard[reg[u]] = u
    BY DEF ViewInv, PlaceOk
  <2>5. QED
    BY <1>1, <1>7, <2>1, <2>2, <2>3, <2>4, ViewsStay
<1>8. QED
  BY <1>5, <1>6, <1>7 DEF P!Allocate, P!Done, P!Go

\* The rest of a list goes back, and changes no word but of a block that is not in use.
LEMMA PutBackKeeps ==
  ASSUME PointersInv, ViewInv, P!KeepsOff, NEW t \in Threads, P!PutBack(t) PROVE ViewInv'
<1>1. /\ \A u \in Threads : PlaceOk(u)
      /\ \A c \in Blocks : CountOk(c) /\ CarryOk(c) /\ UseOk(c)
  BY DEF ViewInv
<1>2. /\ pc[t] = "reattach" /\ pc' = [pc EXCEPT ![t] = "construct"]
      /\ UNCHANGED <<life, ref, view, use, owner, guard, strong, weak, reg, list>>
      /\ pc \in [Threads -> Places]
  BY StrongKeeps DEF P!PutBack, P!Go, P!object, P!handles
<1>3. PICK r \in Blocks : r = reg[t] /\ use[r] = "free" /\ list[t].first = r
  BY <1>1, <1>2 DEF PlaceOk
<1>4. /\ pool \in [first : Links, last : Links] /\ word \in [Blocks -> Nat] /\ word[r] \in Links
      /\ list[t] \in [first : Links, last : Links]
      /\ \A c \in Blocks : use[c] # "used" => word[c] \in Links
  BY <1>3 DEF ViewInv, ViewTypes
<1>5. /\ pool' \in [first : Links, last : Links] /\ word' \in [Blocks -> Nat]
      /\ \A c \in Blocks : use[c] = "used" => word'[c] = word[c]
      /\ \A c \in Blocks : use[c] # "used" => word'[c] \in Links
  <2>1. CASE word[r] # P!Null
    <3>1. list[t].last \in Blocks /\ use[list[t].last] # "used"
      BY <1>2, <1>3, <2>1 DEF P!KeepsOff, P!At
    <3>2. /\ pool' = [first |-> word[r], last |-> list[t].last]
          /\ word' = [word EXCEPT ![list[t].last] = pool.first]
      BY <1>3, <2>1 DEF P!PutBack, P!Reattach, P!AttachTo
    <3>3. pool.first \in Links /\ pool.first \in Nat /\ list[t].last \in Links
      BY <1>4, AddressesAre
    <3>4. QED
      BY <1>4, <3>1, <3>2, <3>3
  <2>2. CASE word[r] = P!Null
    <3>1. UNCHANGED <<pool, word>>
      BY <1>3, <2>2 DEF P!PutBack, P!Reattach
    <3>2. QED
      BY <1>4, <3>1
  <2>3. QED
    BY <2>1, <2>2
<1>6. ViewTypes'
  BY <1>2, <1>5 DEF ViewInv, ViewTypes
<1>7. /\ pc'[t] = "construct" /\ \A u \in Threads \ {t} : pc'[u] = pc[u]
  BY <1>2
<1>8. ASSUME NEW u \in Threads PROVE PlaceOk(u)'
  BY <1>1, <1>2, <1>7 DEF PlaceOk
<1>9. ASSUME NEW c \in Blocks PROVE CountOk(c)' /\ CarryOk(c)' /\ UseOk(c)'
  <2>1. WeakIn(weak, c)' = WeakIn(weak, c)
    BY <1>2, WeakThen
  <2>2. \A u \in Threads : Carries(u, c)' <=> Carries(u, c)
    BY <1>2, <1>7 DEF Carries, Carrying
  <2>3. (Owned(c)' <=> Owned(c)) /\ (Unshared(c)' <=> Unshared(c))
    BY <1>2, <1>7 DEF Owned, Unshared
  <2>4. (\E u \in Threads : pc[u] \in {"deleteWeak", "deleteView"} /\ reg[u] = c)
          => (\E u \in Threads : pc'[u] \in {"deleteWeak", "deleteView"} /\ reg'[u] = c)
    BY <1>2, <1>7
  <2>5. CountOk(c) /\ CarryOk(c) /\ UseOk(c) /\ (use[c] = "used" => word'[c] = word[c])
    BY <1>1, <1>5
  <2>6. QED
    BY <1>2, <2>1, <2>2, <2>3, <2>4, <2>5 DEF CountOk, CarryOk, UseOk, Kept
<1>10. Ending'
  BY <1>2, <1>7 DEF Ending, Ends, ViewInv
<1>11. QED
  BY <1>6, <1>8, <1>9, <1>10 DEF ViewInv

\* A block becomes a view that the thread has not installed yet.
LEMMA ConstructKeeps ==
  ASSUME PointersInv, ViewInv, NEW t \in Threads, P!Construct(t) PROVE ViewInv'
<1>1. /\ pc \in [Threads -> Places] /\ life = "alive" /\ strong[t] > 0
      /\ \A u \in Threads : ~Ends(u)
  BY StrongKeeps DEF ViewInv, PlaceOk, P!Construct
<1>2. PICK r \in Blocks : r = reg[t] /\ use[r] = "free" /\ Carries(t, r)
  BY DEF ViewInv, PlaceOk, P!Construct, Carries, Carrying
<1>3. /\ pc[t] = "construct" /\ pc' = [pc EXCEPT ![t] = "install"]
      /\ word' = [word EXCEPT ![r] = 1] /\ use' = [use EXCEPT ![r] = "used"]
      /\ owner' = [owner EXCEPT ![r] = TRUE] /\ list' = [list EXCEPT ![t] = P!Empty]
      /\ UNCHANGED <<life, ref, view, pool, guard, strong, weak, reg>>
  BY <1>2 DEF P!Construct, P!Go, P!object, P!handles
<1>4. /\ view # r /\ \A u \in Threads : weak[u][r] = 0
      /\ \A u \in Threads : Carries(u, r) => u = t
  BY <1>1, <1>2 DEF ViewInv, UseOk, CarryOk
<1>5. ViewTypes'
  BY <1>2, <1>3 DEF ViewInv, ViewTypes, Links, P!Empty
<1>6. ASSUME NEW u \in Threads PROVE PlaceOk(u)'
  <2>1. CASE u = t
    BY <1>1, <1>2, <1>3, <1>4, <2>1 DEF ViewInv, ViewTypes, PlaceOk
  <2>2. CASE u # t
    <3>1. pc'[u] = pc[u] /\ list'[u] = list[u] /\ PlaceOk(u) /\ ~Carries(u, r)
      BY <1>1, <1>3, <1>4, <2>2 DEF ViewInv, ViewTypes
    <3>2. QED
      BY <1>2, <1>3, <1>4, <3>1 DEF PlaceOk, Carries, Carrying, ViewInv, ViewTypes
  <2>3. QED
    BY <2>1, <2>2
<1>7. ASSUME NEW c \in Blocks PROVE CountOk(c)' /\ CarryOk(c)' /\ UseOk(c)'
  <2>1. /\ WeakIn(weak, c)' = WeakIn(weak, c) /\ WeakIn(weak, c) \in Nat
        /\ c = r => WeakIn(weak, c) = 0
    <3>1. WeakIn(weak, c)' = WeakIn(weak', c) /\ weak \in [Threads -> [Blocks -> Nat]]
      BY WeakThen DEF ViewInv, ViewTypes
    <3>2. QED
      BY <1>3, <1>4, <3>1, WeakCounts
  <2>2. \A u \in Threads, d \in Blocks : Carries(u, d)' <=> Carries(u, d)
    BY <1>1, <1>3 DEF Carries, Carrying
  <2>3. Owned(c)' <=> Owned(c)
    BY <1>1, <1>3 DEF Owned
  <2>4. Unshared(c)' <=> (Unshared(c) \/ c = r)
    BY <1>1, <1>2, <1>3 DEF Unshared
  <2>5. QED
    BY <1>1, <1>2, <1>3, <1>4, <2>1, <2>2, <2>3, <2>4
    DEF ViewInv, ViewTypes, CountOk, CarryOk, UseOk, Kept
<1>8. Ending'
  BY <1>1, <1>3 DEF Ending
<1>9. QED
  BY <1>5, <1>6, <1>7, <1>8 DEF ViewInv

\* A thread installs its view, or finds another one.
LEMMA InstallKeeps ==
  ASSUME PointersInv, ViewInv, NEW t \in Threads, P!Install(t) PROVE ViewInv'
<1>1. /\ \A u \in Threads : PlaceOk(u)
      /\ \A c \in Blocks : CountOk(c) /\ CarryOk(c) /\ UseOk(c)
  BY DEF ViewInv
<1>2. /\ pc[t] = "install" /\ strong[t] > 0
      /\ UNCHANGED <<life, ref, pool, word, use, owner, guard, strong, weak, reg, list>>
  BY <1>1 DEF P!Install, PlaceOk, P!allocator, P!handles
<1>3. /\ pc \in [Threads -> Places] /\ life = "alive" /\ \A u \in Threads : ~Ends(u)
  BY <1>2, StrongKeeps
<1>4. PICK r \in Blocks : r = reg[t] /\ use[r] = "used" /\ Carries(t, r) /\ Unshared(r)
  BY <1>1, <1>2 DEF PlaceOk, Carries, Carrying, Unshared
<1>5. \A u \in Threads : Carries(u, r) => u = t
  BY <1>1, <1>4 DEF CarryOk
<1>6. CASE view = P!Null
  <2>1. view' = r /\ pc' = [pc EXCEPT ![t] = "addRef"] /\ view \notin Blocks
    BY <1>4, <1>6, AddressesAre DEF P!Install, P!Go
  <2>2. pc'[t] = "addRef" /\ \A u \in Threads \ {t} : pc'[u] = pc[u]
    BY <1>3, <2>1
  <2>3. ViewTypes'
    BY <1>2, <2>1 DEF ViewInv, ViewTypes, Links
  <2>4. ASSUME NEW u \in Threads PROVE PlaceOk(u)'
    <3>1. CASE u = t
      BY <1>2, <1>4, <2>1, <2>2, <3>1 DEF PlaceOk
    <3>2. CASE u # t
      <4>1. pc'[u] = pc[u] /\ PlaceOk(u) /\ ~Carries(u, r) /\ ~Ends(u)
        BY <1>1, <1>3, <1>5, <2>2, <3>2
      <4>2. QED
        BY <1>2, <1>4, <1>6, <2>1, <4>1 DEF PlaceOk, Carries, Carrying, Ends
    <3>3. QED
      BY <3>1, <3>2
  <2>5. ASSUME NEW c \in Blocks PROVE CountOk(c)' /\ CarryOk(c)' /\ UseOk(c)'
    <3>1. WeakIn(weak, c)' = WeakIn(weak, c)
      BY <1>2, WeakThen
    <3>2. \A u \in Threads : Carries(u, c)' => Carries(u, c)
      BY <1>2, <2>2 DEF Carries, Carrying
    <3>3. Owned(c)' <=> c = r
      BY <1>2, <1>3, <2>1, <2>2 DEF Owned, Ends
    <3>4. ~Owned(c) /\ (Unshared(c)' <=> Unshared(c) /\ c # r)
      <4>1. ~Owned(c)
        BY <2>1 DEF Owned
      <4>2. Unshared(r)' => FALSE
        BY <1>2, <1>4, <1>5, <2>2 DEF Unshared, Carries, Carrying
      <4>3. c # r => (Unshared(c)' <=> Unshared(c))
        BY <1>2, <1>4, <2>2 DEF Unshared
      <4>4. QED
        BY <4>1, <4>2, <4>3
    <3>5. Kept(c)' <=> Kept(c)
      BY <1>4, <3>3, <3>4 DEF Kept
    <3>6. (\E u \in Threads : pc[u] \in {"deleteWeak", "deleteView"} /\ reg[u] = c)
            => (\E u \in Threads : pc'[u] \in {"deleteWeak", "deleteView"} /\ reg'[u] = c)
      BY <1>2, <2>2
    <3>7. CountOk(c) /\ CarryOk(c) /\ UseOk(c)
      BY <1>1
    <3>8. CountOk(c)' /\ CarryOk(c)'
      BY <1>2, <3>1, <3>2, <3>5, <3>6, <3>7 DEF CountOk, CarryOk
    <3>9. UseOk(c)'
      BY <1>2, <1>3, <1>4, <2>1, <3>4, <3>7 DEF UseOk
    <3>10. QED
      BY <3>8, <3>9
  <2>6. QED
    BY <1>2, <1>3, <2>3, <2>4, <2>5 DEF ViewInv, Ending
<1>7. CASE view # P!Null
  <2>1. view' = view /\ pc' = [pc EXCEPT ![t] = "deleteNew"]
    BY <1>7 DEF P!Install, P!Go
  <2>2. pc'[t] = "deleteNew" /\ \A u \in Threads \ {t} : pc'[u] = pc[u]
    BY <1>3, <2>1
  <2>3. ViewTypes'
    BY <1>2, <2>1 DEF ViewInv, ViewTypes
  <2>4. ASSUME NEW u \in Threads PROVE PlaceOk(u)'
    BY <1>1, <1>2, <1>7, <2>1, <2>2 DEF PlaceOk
  <2>5. ASSUME NEW c \in Blocks PROVE CountOk(c)' /\ CarryOk(c)' /\ UseOk(c)'
    <3>1. WeakIn(weak, c)' = WeakIn(weak, c)
      BY <1>2, WeakThen
    <3>2. \A u \in Threads : Carries(u, c)' <=> Carries(u, c)
      BY <1>2, <2>2 DEF Carries, Carrying
    <3>3. (Owned(c)' <=> Owned(c)) /\ (Unshared(c)' <=> Unshared(c))
      BY <1>2, <2>1, <2>2 DEF Owned, Unshared
    <3>4. (\E u \in Threads : pc[u] \in {"deleteWeak", "deleteView"} /\ reg[u] = c)
            => (\E u \in Threads : pc'[u] \in {"deleteWeak", "deleteView"} /\ reg'[u] = c)
      BY <1>2, <2>2
    <3>5. CountOk(c) /\ CarryOk(c) /\ UseOk(c)
      BY <1>1
    <3>6. QED
      BY <1>2, <2>1, <3>1, <3>2, <3>3, <3>4, <3>5 DEF CountOk, CarryOk, UseOk, Kept
  <2>6. QED
    BY <1>2, <1>3, <2>3, <2>4, <2>5 DEF ViewInv, Ending
<1>8. QED
  BY <1>6, <1>7

\* A weak reference is counted.
LEMMA AddWeakRefKeeps ==
  ASSUME PointersInv, ViewInv, NEW t \in Threads, P!AddWeakRef(t) PROVE ViewInv'
<1>1. /\ \A u \in Threads : PlaceOk(u)
      /\ \A c \in Blocks : CountOk(c) /\ CarryOk(c) /\ UseOk(c)
  BY DEF ViewInv
<1>2. /\ pc \in [Threads -> Places]
      /\ strong[t] > 0 => life = "alive"
      /\ \A u \in Threads : Ends(u) => life = "dying"
  BY StrongKeeps
<1>3. PICK r \in Blocks : r = reg[t]
  BY <1>1 DEF PlaceOk, P!AddWeakRef
<1>4. /\ pc[t] = "addRef" /\ pc' = [pc EXCEPT ![t] = "idle"]
      /\ word' = [word EXCEPT ![r] = @ + 1] /\ weak' = [weak EXCEPT ![t][r] = @ + 1]
      /\ reg' = [reg EXCEPT ![t] = P!Null]
      /\ UNCHANGED <<life, ref, view, pool, use, owner, guard, strong, list>>
  BY <1>3 DEF P!AddWeakRef, P!Done, P!Go, P!object
<1>5. use[r] = "used" /\ \A u \in Threads : ~Carries(u, r)
  <2>1. weak[t][r] > 0 \/ (life = "alive" /\ view = r)
    BY <1>1, <1>2, <1>3, <1>4 DEF PlaceOk
  <2>2. CASE weak[t][r] > 0
    BY <1>1, <2>2 DEF UseOk, CarryOk
  <2>3. CASE life = "alive" /\ view = r
    <3>1. use[r] = "used"
      BY <1>1, <2>3 DEF UseOk
    <3>2. ASSUME NEW u \in Threads, Carries(u, r) PROVE FALSE
      BY <1>1, <1>2, <2>3, <3>1, <3>2 DEF Carries, Carrying, PlaceOk, Ends
    <3>3. QED
      BY <3>1, <3>2
  <2>4. QED
    BY <2>1, <2>2, <2>3
<1>6. /\ weak' \in [Threads -> [Blocks -> Nat]] /\ word' \in [Blocks -> Nat]
      /\ weak'[t][r] = weak[t][r] + 1 /\ word'[r] = word[r] + 1
      /\ \A u \in Threads, c \in Blocks : weak'[u][c] # weak[u][c] => u = t /\ c = r
      /\ \A u \in Threads, c \in Blocks : weak[u][c] > 0 => weak'[u][c] > 0
      /\ \A c \in Blocks \ {r} : word'[c] = word[c]
      /\ weak \in [Threads -> [Blocks -> Nat]] /\ word \in [Blocks -> Nat]
  BY <1>3, <1>4 DEF ViewInv, ViewTypes
<1>7. pc'[t] = "idle" /\ \A u \in Threads \ {t} : pc'[u] = pc[u] /\ reg'[u] = reg[u]
  BY <1>2, <1>4 DEF ViewInv, ViewTypes
<1>8. ViewTypes'
  BY <1>3, <1>4, <1>5, <1>6 DEF ViewInv, ViewTypes, Links
<1>9. ASSUME NEW u \in Threads PROVE PlaceOk(u)'
  <2>1. CASE u = t
    BY <1>7, <2>1 DEF PlaceOk
  <2>2. CASE u # t
    BY <1>1, <1>4, <1>6, <1>7, <2>2 DEF PlaceOk
  <2>3. QED
    BY <2>1, <2>2
<1>10. ASSUME NEW c \in Blocks PROVE CountOk(c)' /\ CarryOk(c)' /\ UseOk(c)'
  <2>1. WeakIn(weak, c)' = WeakIn(weak, c) + IF c = r THEN 1 ELSE 0
    <3>1. \A u \in Threads \ {t} : weak'[u][c] = weak[u][c]
      BY <1>6
    <3>2. WeakIn(weak', c) = WeakIn(weak, c) - weak[t][c] + weak'[t][c]
      BY <1>6, <3>1, WeakChanges
    <3>3. WeakIn(weak, c) \in Nat /\ weak[t][c] \in Nat
      BY <1>6, WeakCounts
    <3>4. QED
      BY <1>6, <3>2, <3>3, WeakThen
  <2>2. \A u \in Threads : Carries(u, c)' <=> Carries(u, c)
    BY <1>4, <1>7 DEF Carries, Carrying
  <2>3. (Owned(c)' <=> Owned(c)) /\ (Unshared(c)' <=> Unshared(c))
    BY <1>4, <1>7 DEF Owned, Unshared
  <2>4. (\E u \in Threads : pc[u] \in {"deleteWeak", "deleteView"} /\ reg[u] = c)
          => (\E u \in Threads : pc'[u] \in {"deleteWeak", "deleteView"} /\ reg'[u] = c)
    BY <1>4, <1>7
  <2>5. CountOk(c) /\ CarryOk(c) /\ UseOk(c)
    BY <1>1
  <2>6. CountOk(c)'
    <3>1. WeakIn(weak, c) \in Nat /\ word[c] \in Nat
      BY <1>6, WeakCounts
    <3>2. word'[c] = word[c] + IF c = r THEN 1 ELSE 0
      BY <1>6, <3>1
    <3>3. QED
      BY <1>4, <2>1, <2>3, <2>4, <2>5, <3>1, <3>2 DEF CountOk, Kept
  <2>7. CarryOk(c)'
    BY <1>5, <1>6, <2>2, <2>5 DEF CarryOk
  <2>8. UseOk(c)'
    BY <1>4, <1>5, <1>6, <2>3, <2>5 DEF UseOk
  <2>9. QED
    BY <2>6, <2>7, <2>8
<1>11. Ending'
  BY <1>4, <1>7 DEF Ending, Ends, ViewInv
<1>12. QED
  BY <1>8, <1>9, <1>10, <1>11 DEF ViewInv

\* The last weak reference takes the view to be deleted; it is not the last one as long
\* as the owner has its part of the count, or, by Careful, has yet to leave the view.
LEMMA DropWeakKeeps ==
  ASSUME Careful, PointersInv, ViewInv, NEW t \in Threads, NEW r \in Blocks,
         P!DropWeak(t, r)
  PROVE  ViewInv'
<1>1. /\ \A u \in Threads : PlaceOk(u)
      /\ \A c \in Blocks : CountOk(c) /\ CarryOk(c) /\ UseOk(c)
  BY DEF ViewInv
<1>2. /\ pc[t] = "idle" /\ weak[t][r] > 0
      /\ \A u \in Threads : pc[u] = "clearOwner" => reg[u] # r
      /\ word' = [word EXCEPT ![r] = @ - 1] /\ weak' = [weak EXCEPT ![t][r] = @ - 1]
      /\ IF word[r] = 1 THEN reg' = [reg EXCEPT ![t] = r] /\ pc' = [pc EXCEPT ![t] = "deleteWeak"]
                        ELSE UNCHANGED <<reg, pc>>
      /\ UNCHANGED <<life, ref, view, pool, use, owner, guard, strong, list>>
      /\ pc \in [Threads -> Places]
  BY StrongKeeps DEF P!DropWeak, P!Go, P!object
<1>3. use[r] = "used" /\ \A u \in Threads : ~Carries(u, r)
  BY <1>1, <1>2 DEF UseOk, CarryOk
<1>4. /\ weak \in [Threads -> [Blocks -> Nat]] /\ word \in [Blocks -> Nat]
      /\ WeakIn(weak, r) \in Nat /\ weak[t][r] \in Nat /\ weak[t][r] <= WeakIn(weak, r)
      /\ word[r] \in Nat
      /\ Kept(r) => word[r] = WeakIn(weak, r) + 1
      /\ ~Kept(r) => word[r] = WeakIn(weak, r)
  <2>1. weak \in [Threads -> [Blocks -> Nat]] /\ word \in [Blocks -> Nat]
    BY DEF ViewInv, ViewTypes
  <2>2. QED
    BY <1>1, <1>3, <2>1, WeakCounts DEF CountOk
<1>5. /\ weak'[t][r] = weak[t][r] - 1 /\ word'[r] = word[r] - 1
      /\ word[r] - 1 \in Nat /\ weak[t][r] - 1 \in Nat
      /\ \A u \in Threads, c \in Blocks : weak'[u][c] # weak[u][c] => u = t /\ c = r
      /\ \A c \in Blocks \ {r} : word'[c] = word[c]
  <2>1. word[r] > 0
    BY <1>2, <1>4
  <2>2. QED
    BY <1>2, <1>4, <2>1
<1>6. weak' \in [Threads -> [Blocks -> Nat]] /\ word' \in [Blocks -> Nat]
  BY <1>2, <1>4, <1>5
<1>7. ASSUME NEW c \in Blocks
      PROVE  WeakIn(weak, c)' = WeakIn(weak, c) - IF c = r THEN 1 ELSE 0
  <2>1. \A u \in Threads \ {t} : weak'[u][c] = weak[u][c]
    BY <1>5
  <2>2. WeakIn(weak', c) = WeakIn(weak, c) - weak[t][c] + weak'[t][c]
    BY <1>4, <1>6, <2>1, WeakChanges
  <2>3. WeakIn(weak, c) \in Nat /\ weak[t][c] \in Nat
    BY <1>4, WeakCounts
  <2>4. QED
    BY <1>5, <2>2, <2>3, WeakThen
<1>8. word[r] = 1 => ~Kept(r) /\ \A u \in Threads : weak'[u][r] = 0
  <2>1. SUFFICES ASSUME word[r] = 1 PROVE ~Kept(r) /\ \A u \in Threads : weak'[u][r] = 0
    OBVIOUS
  <2>2. ~Kept(r) /\ WeakIn(weak, r) = 1
    BY <1>2, <1>4, <2>1
  <2>3. WeakIn(weak', r) = 0
    BY <1>7, <2>2, WeakThen
  <2>4. \A u \in Threads : weak'[u][r] \in Nat /\ weak'[u][r] <= WeakIn(weak', r)
    BY <1>6, WeakCounts
  <2>5. QED
    BY <2>2, <2>3, <2>4
<1>9. word[r] = 1 => life = "none" \/ view # r
  BY <1>2, <1>3, <1>8 DEF Kept, Owned, Carries, Carrying
<1>10. /\ pc'[t] = IF word[r] = 1 THEN "deleteWeak" ELSE "idle"
       /\ word[r] = 1 => reg'[t] = r
       /\ \A u \in Threads \ {t} : pc'[u] = pc[u] /\ reg'[u] = reg[u]
  BY <1>2 DEF ViewInv, ViewTypes
<1>11. ViewTypes'
  BY <1>2, <1>3, <1>5, <1>6 DEF ViewInv, ViewTypes, Links
<1>12. ASSUME NEW u \in Threads PROVE PlaceOk(u)'
  <2>1. CASE u = t
    BY <1>2, <1>3, <1>9, <1>10, <2>1 DEF PlaceOk
  <2>2. CASE u # t
    <3>1. /\ pc'[u] = pc[u] /\ reg'[u] = reg[u] /\ PlaceOk(u)
          /\ \A c \in Blocks : weak'[u][c] = weak[u][c]
      BY <1>1, <1>5, <1>10, <2>2
    <3>2. QED
      BY <1>2, <3>1 DEF PlaceOk
  <2>3. QED
    BY <2>1, <2>2
<1>13. ASSUME NEW c \in Blocks PROVE CountOk(c)' /\ CarryOk(c)' /\ UseOk(c)'
  <2>1. WeakIn(weak, c)' = WeakIn(weak, c) - IF c = r THEN 1 ELSE 0
    BY <1>7
  <2>2. \A u \in Threads : Carries(u, c)' <=> Carries(u, c) \/ (u = t /\ c = r /\ word[r] = 1)
    BY <1>2, <1>10 DEF Carries, Carrying
  <2>3. (Owned(c)' <=> Owned(c)) /\ (Unshared(c)' <=> Unshared(c))
    BY <1>2, <1>10 DEF Owned, Unshared
  <2>4. (\E u \in Threads : pc[u] \in {"deleteWeak", "deleteView"} /\ reg[u] = c)
          => (\E u \in Threads : pc'[u] \in {"deleteWeak", "deleteView"} /\ reg'[u] = c)
    BY <1>2, <1>10
  <2>5. CountOk(c) /\ CarryOk(c) /\ UseOk(c)
    BY <1>1
  <2>6. CountOk(c)'
    <3>1. CASE c = r
      <4>1. word'[r] > 0 \/ word[r] = 1
        BY <1>4, <1>5
      <4>2. QED
        BY <1>4, <1>5, <1>10, <2>1, <2>3, <3>1, <4>1 DEF CountOk, Kept
    <3>2. CASE c # r
      <4>1. WeakIn(weak, c) \in Nat
        BY <1>4, WeakCounts
      <4>2. WeakIn(weak, c)' = WeakIn(weak, c) /\ word'[c] = word[c]
        BY <1>5, <2>1, <3>2, <4>1
      <4>3. QED
        BY <1>2, <2>3, <2>4, <2>5, <4>2 DEF CountOk, Kept
    <3>3. QED
      BY <3>1, <3>2
  <2>7. CarryOk(c)'
    <3>1. CASE c = r
      BY <1>3, <1>8, <2>2, <3>1 DEF CarryOk
    <3>2. CASE c # r
      BY <1>5, <2>2, <2>5, <3>2 DEF CarryOk
    <3>3. QED
      BY <3>1, <3>2
  <2>8. UseOk(c)'
    BY <1>2, <1>3, <1>5, <2>3, <2>5 DEF UseOk
  <2>9. QED
    BY <2>6, <2>7, <2>8
<1>14. Ending'
  BY <1>2, <1>10 DEF Ending, Ends, ViewInv
<1>15. QED
  BY <1>11, <1>12, <1>13, <1>14 DEF ViewInv

\* At first there are no views.
LEMMA ViewsInitially == P!Init => ViewInv
<1> SUFFICES ASSUME P!Init PROVE ViewInv
  OBVIOUS
<1>1. /\ pool = [first |-> P!Null, last |-> P!Null] /\ word = [c \in Blocks |-> 0]
      /\ use = [c \in Blocks |-> "fresh"] /\ life = "none" /\ view = P!Null
      /\ owner = [c \in Blocks |-> FALSE] /\ guard = [c \in Blocks |-> NoThread]
      /\ weak = [t \in Threads |-> [c \in Blocks |-> 0]] /\ pc = [t \in Threads |-> "idle"]
      /\ reg = [t \in Threads |-> P!Null]
      /\ list = [t \in Threads |-> [first |-> P!Null, last |-> P!Null]]
  BY DEF P!Init, P!InitAllocator, P!Empty
<1>2. ViewTypes
  BY <1>1 DEF ViewTypes, Links, P!Null
<1>3. QED
  BY <1>1, <1>2
  DEF ViewInv, Ending, PlaceOk, CountOk, CarryOk, Carries, Carrying, UseOk

\* Steps of the references that change no block.
LEMMA ReferencesKeep ==
  ASSUME PointersInv, ViewInv, NEW t \in Threads,
         \/ P!Fork(t) \/ P!Drop(t) \/ P!Weaken(t) \/ P!TryAddRef(t)
         \/ \E u \in Threads : P!Give(t, u)
         \/ \E c \in Blocks : P!ForkWeak(t, c) \/ P!Lock(t, c)
  PROVE  ViewInv'
<1>1. /\ pc \in [Threads -> Places] /\ strong \in [Threads -> Nat]
      /\ life \in {"none", "alive", "dying"}
      /\ \A u \in Threads : strong[u] > 0 => life = "alive"
  BY StrongKeeps
<1>2. /\ reg \in [Threads -> Links] /\ guard \in [Blocks -> Threads \cup {NoThread}]
      /\ weak \in [Threads -> [Blocks -> Nat]] /\ view \in Links
      /\ \A u \in Threads : PlaceOk(u)
      /\ \A u \in Threads : pc[u] = "tryAddRef" => reg[u] \in Blocks /\ guard[reg[u]] = u
  BY DEF ViewInv, ViewTypes, PlaceOk
<1>3. UNCHANGED <<pool, word, use, view, owner, weak, list>>
  BY DEF P!Fork, P!Drop, P!Weaken, P!TryAddRef, P!Give, P!ForkWeak, P!Lock, P!object,
     P!allocator, P!handles
<1>4. ASSUME UNCHANGED <<life, guard, pc, reg>>, pc[t] = "idle",
             \A u \in Threads \ {t} : strong[u] > 0 => strong'[u] > 0
      PROVE  ViewInv'
  <2>1. ViewTypes'
    BY <1>3, <1>4 DEF ViewInv, ViewTypes
  <2>2. PlaceOk(t)'
    BY <1>4 DEF PlaceOk
  <2>3. QED
    BY <1>1, <1>2, <1>3, <1>4, <2>1, <2>2, ViewsStay
<1>5. CASE P!Fork(t)
  <2>1. pc[t] = "idle" /\ strong' = [strong EXCEPT ![t] = @ + 1]
        /\ UNCHANGED <<life, guard, pc, reg>>
    BY <1>5 DEF P!Fork
  <2>2. QED
    BY <1>1, <1>4, <2>1
<1>6. CASE \E u \in Threads : P!Give(t, u)
  <2>1. PICK h \in Threads : P!Give(t, h)
    BY <1>6
  <2>2. /\ pc[t] = "idle" /\ strong' = [strong EXCEPT ![t] = @ - 1, ![h] = @ + 1]
        /\ UNCHANGED <<life, guard, pc, reg>>
    BY <2>1 DEF P!Give, P!object
  <2>3. \A u \in Threads \ {t} : strong[u] > 0 => strong'[u] > 0
    BY <1>1, <2>2
  <2>4. QED
    BY <1>4, <2>2, <2>3
<1>7. CASE P!Drop(t)
  <2>1. /\ pc[t] = "idle" /\ strong[t] > 0 /\ strong' = [strong EXCEPT ![t] = @ - 1]
        /\ UNCHANGED <<guard, reg>>
        /\ ref = 1 => life' = "dying" /\ pc' = [pc EXCEPT ![t] = "destroy"]
        /\ ref # 1 => UNCHANGED <<life, pc>>
    BY <1>7 DEF P!Drop, P!Go
  <2>2. \A u \in Threads \ {t} : strong[u] > 0 => strong'[u] > 0
    BY <1>1, <2>1
  <2>3. CASE ref = 1
    <3>1. /\ pc' \in [Threads -> Places] /\ pc'[t] = "destroy"
          /\ \A u \in Threads \ {t} : pc'[u] = pc[u]
          /\ life = "alive" /\ life' = "dying"
      BY <1>1, <2>1, <2>3 DEF Places
    <3>2. ViewTypes'
      BY <1>3, <2>1 DEF ViewInv, ViewTypes
    <3>3. PlaceOk(t)'
      BY <3>1 DEF PlaceOk
    <3>4. QED
      BY <1>2, <1>3, <2>1, <2>2, <3>1, <3>2, <3>3, ViewsStay
  <2>4. QED
    BY <1>4, <2>1, <2>2, <2>3
<1>8. CASE P!Weaken(t)
  <2>1. /\ pc[t] = "idle" /\ strong[t] > 0 /\ reg' = [reg EXCEPT ![t] = view]
        /\ pc' = [pc EXCEPT ![t] = IF view = P!Null THEN "allocate" ELSE "addRef"]
        /\ UNCHANGED <<life, strong, guard>>
    BY <1>8 DEF P!Weaken, P!Go, P!object, P!handles
  <2>2. /\ pc' \in [Threads -> Places] /\ reg' \in [Threads -> Links] /\ reg'[t] = view
        /\ pc'[t] = IF view = P!Null THEN "allocate" ELSE "addRef"
        /\ \A u \in Threads \ {t} : pc'[u] = pc[u] /\ reg'[u] = reg[u]
    BY <1>1, <1>2, <2>1 DEF Places
  <2>3. ViewTypes'
    BY <1>3, <2>1, <2>2 DEF ViewInv, ViewTypes
  <2>4. PlaceOk(t)'
    BY <1>2, <1>3, <2>1, <2>2 DEF PlaceOk, Links
  <2>5. QED
    BY <1>2, <1>3, <2>1, <2>2, <2>3, <2>4, ViewsStay
<1>9. CASE P!TryAddRef(t)
  <2>1. /\ pc[t] = "tryAddRef" /\ guard' = [guard EXCEPT ![reg[t]] = NoThread]
        /\ reg' = [reg EXCEPT ![t] = P!Null] /\ pc' = [pc EXCEPT ![t] = "idle"]
        /\ strong' = strong \/ strong' = [strong EXCEPT ![t] = @ + 1]
        /\ UNCHANGED life
    BY <1>9 DEF P!TryAddRef, P!Done, P!Go
  <2>2. /\ pc' \in [Threads -> Places] /\ reg' \in [Threads -> Links] /\ pc'[t] = "idle"
        /\ guard' \in [Blocks -> Threads \cup {NoThread}]
        /\ \A u \in Threads \ {t} : pc'[u] = pc[u] /\ reg'[u] = reg[u]
    BY <1>1, <1>2, <2>1 DEF Places, Links
  <2>3. \A u \in Threads \ {t} : /\ strong[u] > 0 => strong'[u] > 0
                                 /\ pc[u] = "tryAddRef" => guard'[reg[u]] = u
    <3>1. ASSUME NEW u \in Threads \ {t}, pc[u] = "tryAddRef" PROVE guard'[reg[u]] = u
      <4>1. reg[u] \in Blocks /\ guard[reg[u]] = u /\ guard[reg[t]] = t
        BY <1>2, <2>1, <3>1
      <4>2. QED
        BY <1>2, <2>1, <4>1
    <3>2. QED
      BY <1>1, <2>1, <3>1
  <2>4. ViewTypes'
    BY <1>3, <2>2 DEF ViewInv, ViewTypes
  <2>5. PlaceOk(t)'
    BY <2>2 DEF PlaceOk
  <2>6. QED
    BY <1>2, <1>3, <2>1, <2>2, <2>3, <2>4, <2>5, ViewsStay
<1>10. CASE \E c \in Blocks : P!ForkWeak(t, c)
  <2>1. PICK r \in Blocks : P!ForkWeak(t, r)
    BY <1>10
  <2>2. /\ pc[t] = "idle" /\ weak[t][r] > 0 /\ reg' = [reg EXCEPT ![t] = r]
        /\ pc' = [pc EXCEPT ![t] = "addRef"]
        /\ UNCHANGED <<life, strong, guard>>
    <3>1. weak[t][r] \in 1 .. (MaxRefs - 1)
      BY <2>1 DEF P!ForkWeak
    <3>2. QED
      BY <2>1, <3>1 DEF P!ForkWeak, P!Go, P!object, P!handles
  <2>3. /\ pc' \in [Threads -> Places] /\ reg' \in [Threads -> Links] /\ reg'[t] = r
        /\ pc'[t] = "addRef"
        /\ \A u \in Threads \ {t} : pc'[u] = pc[u] /\ reg'[u] = reg[u]
    BY <1>1, <1>2, <2>2 DEF Places, Links
  <2>4. ViewTypes'
    BY <1>3, <2>2, <2>3 DEF ViewInv, ViewTypes
  <2>5. PlaceOk(t)'
    BY <1>3, <2>2, <2>3 DEF PlaceOk
  <2>6. QED
    BY <1>2, <1>3, <2>2, <2>3, <2>4, <2>5, ViewsStay
<1>11. CASE \E c \in Blocks : P!Lock(t, c)
  <2>1. PICK r \in Blocks : P!Lock(t, r)
    BY <1>11
  <2>2. /\ pc[t] = "idle" /\ weak[t][r] > 0 /\ guard[r] = NoThread
        /\ UNCHANGED <<life, strong>>
        /\ \/ /\ owner[r] /\ guard' = [guard EXCEPT ![r] = t]
              /\ reg' = [reg EXCEPT ![t] = r] /\ pc' = [pc EXCEPT ![t] = "tryAddRef"]
           \/ UNCHANGED <<guard, reg, pc>>
    BY <2>1 DEF P!Lock, P!Go, P!object, P!handles
  <2>3. CASE UNCHANGED <<guard, reg, pc>>
    BY <1>4, <2>2, <2>3
  <2>4. CASE /\ owner[r] /\ guard' = [guard EXCEPT ![r] = t]
             /\ reg' = [reg EXCEPT ![t] = r] /\ pc' = [pc EXCEPT ![t] = "tryAddRef"]
    <3>1. /\ pc' \in [Threads -> Places] /\ reg' \in [Threads -> Links] /\ reg'[t] = r
          /\ guard' \in [Blocks -> Threads \cup {NoThread}] /\ guard'[r] = t
          /\ pc'[t] = "tryAddRef"
          /\ \A u \in Threads \ {t} : pc'[u] = pc[u] /\ reg'[u] = reg[u]
      BY <1>1, <1>2, <2>4 DEF Places, Links
    <3>2. \A u \in Threads \ {t} : pc[u] = "tryAddRef" => guard'[reg[u]] = u
      <4>1. NoThread \notin Threads
        BY LifetimesAssumption
      <4>2. QED
        BY <1>2, <2>2, <2>4, <4>1
    <3>3. ViewTypes'
      BY <1>3, <3>1 DEF ViewInv, ViewTypes
    <3>4. PlaceOk(t)'
      BY <1>3, <2>2, <2>4, <3>1 DEF PlaceOk
    <3>5. QED
      BY <1>2, <1>3, <2>2, <3>1, <3>2, <3>3, <3>4, ViewsStay
  <2>5. QED
    BY <2>2, <2>3, <2>4
<1>12. QED
  BY <1>5, <1>6, <1>7, <1>8, <1>9, <1>10, <1>11

\* Every step keeps the views counted, as long as the allocator keeps off the blocks that
\* others have.
LEMMA ViewsPreserved ==
  ASSUME Careful, PointersInv, ViewInv, P!KeepsOff, [P!Next]_(P!vars) PROVE ViewInv'
<1>1. ASSUME NEW t \in Threads,
             \/ P!Make(t) \/ P!Destroy(t) \/ P!ClearOwner(t) \/ P!DeleteView(t)
             \/ P!Allocate(t) \/ P!PutBack(t) \/ P!Construct(t) \/ P!Install(t)
             \/ P!AddWeakRef(t) \/ \E c \in Blocks : P!DropWeak(t, c)
      PROVE  ViewInv'
  BY <1>1, MakeKeeps, DestroyKeeps, ClearOwnerKeeps, DeleteViewKeeps, AllocateKeeps,
     PutBackKeeps, ConstructKeeps, InstallKeeps, AddWeakRefKeeps, DropWeakKeeps
<1>2. CASE UNCHANGED P!vars
  <2>1. UNCHANGED <<pool, word, use, life, view, owner, guard, strong, weak, pc, reg, list>>
    BY <1>2 DEF P!vars, P!object, P!allocator, P!handles
  <2>2. \A c \in Blocks : WeakIn(weak, c)' = WeakIn(weak, c)
    BY <2>1, WeakThen
  <2>3. ViewTypes' /\ Ending' /\ \A t \in Threads : PlaceOk(t)'
    BY <2>1 DEF ViewInv, ViewTypes, Ending, Ends, PlaceOk
  <2>4. \A c \in Blocks : /\ Owned(c)' <=> Owned(c)
                          /\ Unshared(c)' <=> Unshared(c)
                          /\ \A t \in Threads : Carries(t, c)' <=> Carries(t, c)
    BY <2>1 DEF Owned, Unshared, Carries
  <2>5. \A c \in Blocks : CountOk(c)' /\ CarryOk(c)' /\ UseOk(c)'
    BY <2>1, <2>2, <2>4 DEF ViewInv, CountOk, CarryOk, UseOk, Kept
  <2>6. QED
    BY <2>3, <2>5 DEF ViewInv
<1>3. QED
  BY <1>1, <1>2, ReferencesKeep DEF P!Next

\* What the invariant says of the references and of the views that are left.
LEMMA ViewsSound ==
  ASSUME PointersInv, ViewInv
  PROVE  P!WeakCounted /\ P!NothingDangles /\ P!CountsPositive /\ P!NoneLeft
<1>1. /\ \A u \in Threads : PlaceOk(u)
      /\ \A c \in Blocks : CountOk(c) /\ CarryOk(c) /\ UseOk(c)
      /\ weak \in [Threads -> [Blocks -> Nat]] /\ word \in [Blocks -> Nat] /\ view \in Links
  BY DEF ViewInv, ViewTypes
<1>2. \A c \in Blocks : /\ WeakIn(weak, c) \in Nat /\ word[c] \in Nat
                        /\ \A u \in Threads : weak[u][c] \in Nat /\ weak[u][c] <= WeakIn(weak, c)
                        /\ WeakIn(weak, c) > 0 => \E u \in Threads : weak[u][c] > 0
  BY <1>1, WeakCounts
<1>3. P!WeakCounted
  <2>1. SUFFICES ASSUME NEW c \in Blocks, use[c] = "used"
                 PROVE  word[c] = P!Total([u \in Threads |-> weak[u][c]])
                                    + (IF Kept(c) THEN 1 ELSE 0)
    BY DEF P!WeakCounted, P!At, Kept, Owned, Unshared
  <2>2. word[c] = WeakIn(weak, c) + (IF Kept(c) THEN 1 ELSE 0)
    BY <1>1, <1>2, <2>1 DEF CountOk
  <2>3. QED
    BY <2>2, TotalIs DEF WeakIn
<1>4. P!NothingDangles
  <2>1. SUFFICES ASSUME NEW t \in Threads
        PROVE  /\ pc[t] \in {"addRef", "install", "deleteNew", "deleteView", "deleteWeak",
                             "clearOwner", "tryAddRef"} => use[reg[t]] = "used"
               /\ pc[t] = "tryAddRef" => life # "none" /\ guard[reg[t]] = t
               /\ \A c \in Blocks : weak[t][c] > 0 => use[c] = "used"
               /\ life = "alive" /\ view # P!Null => use[view] = "used"
    BY DEF P!NothingDangles, P!At
  <2>2. PlaceOk(t) /\ (strong[t] > 0 => life = "alive")
    BY <1>1, StrongKeeps
  <2>3. (life = "alive" /\ view # P!Null => use[view] = "used")
    BY <1>1 DEF UseOk, Links
  <2>4. \A c \in Blocks : weak[t][c] > 0 => use[c] = "used"
    BY <1>1 DEF UseOk
  <2>5. pc[t] = "addRef" => use[reg[t]] = "used"
    BY <1>1, <2>2 DEF PlaceOk, UseOk
  <2>6. pc[t] = "tryAddRef" => use[reg[t]] = "used" /\ life # "none" /\ guard[reg[t]] = t
    BY <1>1, <2>2 DEF PlaceOk, UseOk
  <2>7. pc[t] \in {"install", "deleteNew", "deleteView", "deleteWeak", "clearOwner"}
          => use[reg[t]] = "used"
    BY <2>2 DEF PlaceOk
  <2>8. QED
    BY <2>3, <2>4, <2>5, <2>6, <2>7
<1>5. P!CountsPositive
  <2>1. SUFFICES ASSUME NEW t \in Threads, NEW c \in Blocks, weak[t][c] > 0 PROVE word[c] > 0
    BY DEF P!CountsPositive
  <2>2. use[c] = "used" /\ WeakIn(weak, c) > 0
    BY <1>1, <1>2, <2>1 DEF UseOk
  <2>3. QED
    BY <1>1, <1>2, <2>2 DEF CountOk
<1>6. P!NoneLeft
  <2>1. SUFFICES ASSUME \A t \in Threads : pc[t] = "idle", NEW c \in Blocks, use[c] = "used"
                 PROVE  (c = view /\ life = "alive") \/ \E t \in Threads : weak[t][c] > 0
    BY DEF P!NoneLeft
  <2>2. life # "dying" /\ ~Unshared(c) /\ word[c] > 0
    <3>1. life # "dying"
      BY <2>1 DEF ViewInv, Ending, Ends
    <3>2. ~Unshared(c)
      BY <2>1 DEF Unshared
    <3>3. word[c] > 0
      BY <1>1, <2>1 DEF CountOk
    <3>4. QED
      BY <3>1, <3>2, <3>3
  <2>3. Owned(c) => c = view /\ life = "alive"
    BY <2>2, StrongKeeps DEF Owned
  <2>4. ~Owned(c) => WeakIn(weak, c) > 0
    BY <1>1, <2>1, <2>2 DEF CountOk, Kept
  <2>5. QED
    BY <1>2, <2>3, <2>4
<1>7. QED
  BY <1>3, <1>4, <1>5, <1>6

\* What intrusive pointers promise of weak references, of any number of threads and
\* blocks: as long as the allocator keeps off the blocks that others have, the count of
\* a view in use is that of the weak references to it and its owner's, nobody works on
\* a view that was deleted, and no view is left that nobody needs.
THEOREM ViewsAreCounted ==
  ASSUME Careful
  PROVE  P!Spec /\ []P!KeepsOff =>
           [](P!WeakCounted /\ P!NothingDangles /\ P!CountsPositive /\ P!NoneLeft)
<1>1. P!Init => PointersInv /\ ViewInv
  BY PointersInitially, ViewsInitially
<1>2. PointersInv /\ ViewInv /\ P!KeepsOff /\ [P!Next]_(P!vars) => PointersInv' /\ ViewInv'
  BY PointersPreserved, ViewsPreserved
<1>3. PointersInv /\ ViewInv
        => P!WeakCounted /\ P!NothingDangles /\ P!CountsPositive /\ P!NoneLeft
  BY ViewsSound
<1>4. QED
  BY <1>1, <1>2, <1>3, PTL DEF P!Spec

---------------------------------------------------------------
(* The list of free blocks, of two blocks                                   *)

\* With two blocks there are lists of at most two, the list of the allocator and those of
\* the threads share no block, and the last block that is recorded of a list of two is
\* the first one.
TwoBlocks == \A c, d, e \in Blocks : c = d \/ d = e \/ c = e

\* A block is in the allocator's list, or in one that a thread took, of one or two blocks.
InList(c) == pool.first = c \/ (pool.first \in Blocks /\ word[pool.first] = c)
Has(t, c) ==
  \/ pc[t] \in {"reattach", "construct"} /\ reg[t] = c
  \/ pc[t] = "reattach" /\ word[reg[t]] = c
Short(c) == word[c] # c /\ (word[c] \in Blocks => word[word[c]] = P!Null)

\* The lists have the free blocks between them, and are recorded as they are.
ListOk ==
  /\ \A c \in Blocks : use[c] = "free" <=> InList(c) \/ \E t \in Threads : Has(t, c)
  /\ \A c \in Blocks, t \in Threads : ~(InList(c) /\ Has(t, c))
  /\ \A c \in Blocks, t, u \in Threads : Has(t, c) /\ Has(u, c) => t = u
  /\ pool.first \in Blocks =>
       Short(pool.first) /\ (word[pool.first] # P!Null => pool.last = pool.first)
  /\ \A t \in Threads : pc[t] = "reattach" =>
       Short(reg[t]) /\ (word[reg[t]] # P!Null => list[t].last = reg[t])

\* At first it is empty.
LEMMA ListInitially == P!Init => ListOk
<1> SUFFICES ASSUME P!Init PROVE ListOk
  OBVIOUS
<1>1. /\ pool.first = P!Null /\ use = [c \in Blocks |-> "fresh"]
      /\ pc = [t \in Threads |-> "idle"]
  BY DEF P!Init, P!InitAllocator, P!Empty
<1>2. P!Null \notin Blocks
  BY AddressesAre
<1>3. QED
  BY <1>1, <1>2 DEF ListOk, InList, Has

\* It stays as it is in a step that takes no block and gives none back.
LEMMA ListStays ==
  ASSUME PointersInv, ViewInv, ListOk, NEW t \in Threads,
         pc[t] \notin {"reattach", "construct"}, pc'[t] \notin {"reattach", "construct"},
         \A u \in Threads \ {t} : pc'[u] = pc[u] /\ reg'[u] = reg[u] /\ list'[u] = list[u],
         UNCHANGED use, UNCHANGED pool \/ (pool.first = P!Null /\ pool'.first = P!Null),
         \A c \in Blocks : use[c] = "free" => word'[c] = word[c]
  PROVE  ListOk'
<1>1. P!Null \notin Blocks
  BY AddressesAre
<1>2. /\ pool'.first = pool.first
      /\ pool.first \in Blocks => pool' = pool /\ word'[pool.first] = word[pool.first]
  <2>1. pool.first \in Blocks => use[pool.first] = "free"
    BY DEF ListOk, InList
  <2>2. QED
    BY <1>1, <2>1
<1>3. \A c \in Blocks : InList(c)' <=> InList(c)
  BY <1>2 DEF InList
<1>4. \A u \in Threads : /\ pc'[u] \in {"reattach", "construct"} <=> pc[u] \in {"reattach", "construct"}
                         /\ pc[u] \in {"reattach", "construct"} =>
                              /\ pc'[u] = pc[u] /\ reg'[u] = reg[u] /\ list'[u] = list[u]
                              /\ reg[u] \in Blocks /\ use[reg[u]] = "free"
                              /\ word'[reg[u]] = word[reg[u]]
  BY DEF ViewInv, PlaceOk
<1>5. \A u \in Threads, c \in Blocks : Has(u, c)' <=> Has(u, c)
  BY <1>4 DEF Has
<1>6. pool'.first \in Blocks =>
        Short(pool.first)' /\ (word'[pool'.first] # P!Null => pool'.last = pool'.first)
  <2>1. SUFFICES ASSUME pool.first \in Blocks
        PROVE  Short(pool.first)' /\ (word'[pool'.first] # P!Null => pool'.last = pool'.first)
    BY <1>2
  <2>2. word[pool.first] \in Blocks => use[word[pool.first]] = "free"
    BY <2>1 DEF ListOk, InList
  <2>3. Short(pool.first) /\ (word[pool.first] # P!Null => pool.last = pool.first)
    BY <2>1 DEF ListOk
  <2>4. QED
    BY <1>2, <2>1, <2>2, <2>3 DEF Short
<1>7. \A u \in Threads : pc'[u] = "reattach" =>
        Short(reg[u])' /\ (word'[reg'[u]] # P!Null => list'[u].last = reg'[u])
  <2>1. SUFFICES ASSUME NEW u \in Threads, pc'[u] = "reattach"
        PROVE  Short(reg[u])' /\ (word'[reg'[u]] # P!Null => list'[u].last = reg'[u])
    OBVIOUS
  <2>2. /\ pc[u] = "reattach" /\ reg'[u] = reg[u] /\ list'[u] = list[u] /\ reg[u] \in Blocks
        /\ word'[reg[u]] = word[reg[u]]
    BY <1>4, <2>1
  <2>3. word[reg[u]] \in Blocks => use[word[reg[u]]] = "free"
    BY <2>2 DEF ListOk, Has
  <2>4. Short(reg[u]) /\ (word[reg[u]] # P!Null => list[u].last = reg[u])
    BY <2>2 DEF ListOk
  <2>5. QED
    BY <2>2, <2>3, <2>4 DEF Short
<1>8. QED
  BY <1>3, <1>5, <1>6, <1>7 DEF ListOk

\* A block comes back and goes first, before the other one if that is there.
LEMMA DeleteViewLists ==
  ASSUME TwoBlocks, PointersInv, ViewInv, ListOk, NEW t \in Threads, P!DeleteView(t)
  PROVE  ListOk'
<1>1. PICK r \in Blocks : r = reg[t] /\ use[r] = "used"
  BY DEF ViewInv, PlaceOk, P!DeleteView
<1>2. /\ pc[t] \in {"deleteView", "deleteNew", "deleteWeak"}
      /\ pool' = [first |-> r, last |-> r] /\ word' = [word EXCEPT ![r] = pool.first]
      /\ use' = [use EXCEPT ![r] = "free"]
      /\ pc' = [pc EXCEPT ![t] = "addRef"] \/ pc' = [pc EXCEPT ![t] = "idle"]
      /\ reg' = [reg EXCEPT ![t] = view] \/ reg' = [reg EXCEPT ![t] = P!Null]
      /\ list' = list
  BY <1>1 DEF P!DeleteView, P!Deallocate, P!AttachTo, P!Done, P!Go, P!handles
<1>3. /\ pool'.first = r /\ pool'.last = r
      /\ word'[r] = pool.first /\ \A c \in Blocks \ {r} : word'[c] = word[c]
      /\ use'[r] = "free" /\ \A c \in Blocks \ {r} : use'[c] = use[c]
      /\ pc'[t] \notin {"reattach", "construct"}
      /\ \A u \in Threads \ {t} : pc'[u] = pc[u] /\ reg'[u] = reg[u] /\ list'[u] = list[u]
  BY <1>1, <1>2, StrongKeeps DEF ViewInv, ViewTypes
<1>4. /\ ~InList(r) /\ \A u \in Threads : ~Has(u, r)
      /\ P!Null \notin Blocks
  BY <1>1, AddressesAre DEF ListOk
<1>5. pool.first \in Blocks => pool.first # r /\ word[pool.first] \notin Blocks
  <2>1. SUFFICES ASSUME pool.first \in Blocks, word[pool.first] \in Blocks PROVE FALSE
    BY <1>4 DEF InList
  <2>2. word[pool.first] # pool.first /\ word[pool.first] # r /\ pool.first # r
    BY <1>4, <2>1 DEF ListOk, InList, Short
  <2>3. QED
    BY <1>1, <2>1, <2>2 DEF TwoBlocks
<1>6. \A c \in Blocks : InList(c)' <=> InList(c) \/ c = r
  <2>1. SUFFICES ASSUME NEW c \in Blocks PROVE InList(c)' <=> InList(c) \/ c = r
    OBVIOUS
  <2>2. InList(c)' <=> c = r \/ c = pool.first
    BY <1>1, <1>3 DEF InList
  <2>3. InList(c) <=> c = pool.first
    BY <1>5 DEF InList
  <2>4. QED
    BY <2>2, <2>3
<1>7. \A u \in Threads : pc'[u] \in {"reattach", "construct"} =>
        /\ u # t /\ pc'[u] = pc[u] /\ reg'[u] = reg[u] /\ list'[u] = list[u]
        /\ reg[u] \in Blocks /\ reg[u] # r /\ word'[reg[u]] = word[reg[u]]
  BY <1>1, <1>3 DEF ViewInv, PlaceOk
<1>8. \A u \in Threads, c \in Blocks : Has(u, c)' <=> Has(u, c)
  <2>1. \A u \in Threads : pc[u] \in {"reattach", "construct"} => u # t
    BY <1>2
  <2>2. QED
    BY <1>3, <1>7, <2>1 DEF Has
<1>9. Short(r)'
  <2>1. pool.first # r /\ (pool.first \in Blocks => word'[pool.first] = word[pool.first])
    BY <1>1, <1>3, <1>4 DEF InList
  <2>2. pool.first \in Blocks => word[pool.first] = P!Null
    <3>1. pool.first \in Blocks => use[pool.first] = "free"
      BY DEF ListOk, InList
    <3>2. pool.first \in Blocks => word[pool.first] \in Links
      BY <3>1 DEF ViewInv, ViewTypes
    <3>3. QED
      BY <1>5, <3>2 DEF Links
  <2>3. QED
    BY <1>3, <2>1, <2>2 DEF Short
<1>10. \A u \in Threads : pc'[u] = "reattach" =>
        Short(reg[u])' /\ (word'[reg'[u]] # P!Null => list'[u].last = reg'[u])
  <2>1. SUFFICES ASSUME NEW u \in Threads, pc'[u] = "reattach"
        PROVE  Short(reg[u])' /\ (word'[reg'[u]] # P!Null => list'[u].last = reg'[u])
    OBVIOUS
  <2>2. /\ pc[u] = "reattach" /\ reg'[u] = reg[u] /\ list'[u] = list[u] /\ reg[u] \in Blocks
        /\ word'[reg[u]] = word[reg[u]]
    BY <1>7, <2>1
  <2>3. word[reg[u]] \in Blocks => word[reg[u]] # r
    BY <1>4, <2>2 DEF Has
  <2>4. Short(reg[u]) /\ (word[reg[u]] # P!Null => list[u].last = reg[u])
    BY <2>2 DEF ListOk
  <2>5. QED
    BY <1>3, <2>2, <2>3, <2>4 DEF Short
<1>11. QED
  <2>1. \A c \in Blocks : use'[c] = "free" <=> use[c] = "free" \/ c = r
    BY <1>3
  <2>2. pool'.first \in Blocks =>
          Short(pool.first)' /\ (word'[pool'.first] # P!Null => pool'.last = pool'.first)
    BY <1>3, <1>9 DEF Short
  <2>3. \A c \in Blocks : use'[c] = "free" <=> InList(c)' \/ \E u \in Threads : Has(u, c)'
    BY <1>6, <1>8, <2>1 DEF ListOk
  <2>4. /\ \A c \in Blocks, u \in Threads : ~(InList(c)' /\ Has(u, c)')
        /\ \A c \in Blocks, u, h \in Threads : Has(u, c)' /\ Has(h, c)' => u = h
    BY <1>4, <1>6, <1>8 DEF ListOk
  <2>5. QED
    BY <1>10, <2>2, <2>3, <2>4 DEF ListOk

\* The thread that takes the list has all of its blocks.
LEMMA AllocateLists ==
  ASSUME PointersInv, ViewInv, ListOk, NEW t \in Threads, P!Allocate(t)
  PROVE  ListOk'
<1>1. /\ pc[t] = "allocate" /\ pool' = P!Empty /\ list' = [list EXCEPT ![t] = pool]
      /\ word' = word /\ P!Null \notin Blocks /\ pool'.first = P!Null
  BY AddressesAre DEF P!Allocate, P!Detach, P!Empty
<1>2. /\ pool \in [first : Links, last : Links] /\ reg \in [Threads -> Links]
      /\ list \in [Threads -> [first : Links, last : Links]]
      /\ use \in [Blocks -> {"fresh", "free", "used"}]
      /\ pc \in [Threads -> Places]
  BY StrongKeeps DEF ViewInv, ViewTypes
<1>3. list'[t] = pool /\ \A u \in Threads \ {t} : list'[u] = list[u]
  BY <1>1, <1>2
<1>4. \A c \in Blocks : ~InList(c)'
  BY <1>1 DEF InList
<1>5. CASE pool.first # P!Null
  <2>1. PICK r \in Blocks : r = pool.first
    BY <1>2, <1>5 DEF Links
  <2>2. /\ reg' = [reg EXCEPT ![t] = r] /\ pc' = [pc EXCEPT ![t] = "reattach"] /\ use' = use
    BY <1>5, <2>1 DEF P!Allocate, P!Go
  <2>3. /\ reg'[t] = r /\ pc'[t] = "reattach"
        /\ \A u \in Threads \ {t} : pc'[u] = pc[u] /\ reg'[u] = reg[u]
    BY <1>2, <2>2
  <2>4. \A c \in Blocks : Has(t, c)' <=> InList(c)
    BY <1>1, <2>1, <2>3 DEF Has, InList
  <2>5. \A u \in Threads \ {t}, c \in Blocks : Has(u, c)' <=> Has(u, c)
    BY <1>1, <2>3 DEF Has
  <2>6. \A c \in Blocks : ~Has(t, c)
    BY <1>1 DEF Has
  <2>7. \A u \in Threads : pc'[u] = "reattach" =>
          Short(reg[u])' /\ (word'[reg'[u]] # P!Null => list'[u].last = reg'[u])
    BY <1>1, <1>3, <2>1, <2>3 DEF ListOk, Short
  <2>8. \A c \in Blocks : use'[c] = "free" <=> InList(c)' \/ \E u \in Threads : Has(u, c)'
    BY <1>4, <2>2, <2>4, <2>5, <2>6 DEF ListOk
  <2>9. \A c \in Blocks, u, h \in Threads : Has(u, c)' /\ Has(h, c)' => u = h
    BY <2>4, <2>5 DEF ListOk
  <2>10. QED
    BY <1>1, <1>4, <2>7, <2>8, <2>9 DEF ListOk
<1>6. ASSUME NEW r \in P!Fresh, reg' = [reg EXCEPT ![t] = r],
             use' = [use EXCEPT ![r] = "free"], pc' = [pc EXCEPT ![t] = "construct"],
             pool.first = P!Null
      PROVE  ListOk'
  <2>1. /\ r \in Blocks /\ use[r] = "fresh" /\ use'[r] = "free"
        /\ \A c \in Blocks \ {r} : use'[c] = use[c]
        /\ reg'[t] = r /\ pc'[t] = "construct"
        /\ \A u \in Threads \ {t} : pc'[u] = pc[u] /\ reg'[u] = reg[u]
    BY <1>2, <1>6 DEF P!Fresh
  <2>2. \A c \in Blocks : Has(t, c)' <=> c = r
    BY <2>1 DEF Has
  <2>3. \A u \in Threads \ {t}, c \in Blocks : Has(u, c)' <=> Has(u, c)
    BY <1>1, <2>1 DEF Has
  <2>4. \A c \in Blocks : ~Has(t, c) /\ ~InList(c)
    BY <1>1, <1>6 DEF Has, InList
  <2>5. \A u \in Threads : ~Has(u, r)
    BY <2>1 DEF ListOk
  <2>6. \A u \in Threads : pc'[u] = "reattach" =>
          Short(reg[u])' /\ (word'[reg'[u]] # P!Null => list'[u].last = reg'[u])
    BY <1>1, <1>3, <2>1 DEF ListOk, Short
  <2>7. \A c \in Blocks : use'[c] = "free" <=> InList(c)' \/ \E u \in Threads : Has(u, c)'
    BY <1>4, <2>1, <2>2, <2>3, <2>4 DEF ListOk
  <2>8. \A c \in Blocks, u, h \in Threads : Has(u, c)' /\ Has(h, c)' => u = h
    BY <2>2, <2>3, <2>5 DEF ListOk
  <2>9. QED
    BY <1>1, <1>4, <2>6, <2>7, <2>8 DEF ListOk
<1>7. ASSUME reg' = [reg EXCEPT ![t] = P!Null], pc' = [pc EXCEPT ![t] = "idle"], UNCHANGED use,
             pool.first = P!Null
      PROVE  ListOk'
  <2>1. /\ pc'[t] = "idle"
        /\ \A u \in Threads \ {t} : pc'[u] = pc[u] /\ reg'[u] = reg[u] /\ list'[u] = list[u]
    BY <1>2, <1>3, <1>7
  <2>2. QED
    BY <1>1, <1>7, <2>1, ListStays
<1>8. QED
  BY <1>5, <1>6, <1>7 DEF P!Allocate, P!Done, P!Go

\* What a thread puts back is one block, and there is none in the list then.
LEMMA PutBackLists ==
  ASSUME TwoBlocks, PointersInv, ViewInv, ListOk, NEW t \in Threads, P!PutBack(t)
  PROVE  ListOk'
<1>1. PICK r \in Blocks : r = reg[t] /\ use[r] = "free" /\ list[t].first = r
  BY DEF ViewInv, PlaceOk, P!PutBack
<1>2. /\ pc[t] = "reattach" /\ pc' = [pc EXCEPT ![t] = "construct"]
      /\ UNCHANGED <<use, reg, list>> /\ word[r] \in Links /\ P!Null \notin Blocks
  BY <1>1, AddressesAre DEF P!PutBack, P!Go, ViewInv, ViewTypes
<1>3. pc'[t] = "construct" /\ \A u \in Threads \ {t} : pc'[u] = pc[u]
  BY <1>2, StrongKeeps
<1>4. Has(t, r) /\ \A c \in Blocks : Has(t, c) <=> c = r \/ c = word[r]
  BY <1>1, <1>2 DEF Has
<1>5. \A c \in Blocks : Has(t, c)' <=> c = r
  BY <1>1, <1>2, <1>3 DEF Has
<1>6. CASE word[r] = P!Null
  <2>1. UNCHANGED <<pool, word>>
    BY <1>1, <1>6 DEF P!PutBack, P!Reattach
  <2>2. \A u \in Threads, c \in Blocks : Has(u, c)' <=> Has(u, c)
    <3>1. \A c \in Blocks : Has(t, c)' <=> Has(t, c)
      BY <1>2, <1>4, <1>5, <1>6
    <3>2. \A u \in Threads \ {t}, c \in Blocks : Has(u, c)' <=> Has(u, c)
      BY <1>2, <1>3, <2>1 DEF Has
    <3>3. QED
      BY <3>1, <3>2
  <2>3. \A c \in Blocks : InList(c)' <=> InList(c)
    BY <2>1 DEF InList
  <2>4. QED
    BY <1>2, <1>3, <2>1, <2>2, <2>3 DEF ListOk, Short
<1>7. CASE word[r] # P!Null
  <2>1. PICK e \in Blocks : e = word[r]
    BY <1>2, <1>7 DEF Links
  <2>2. e # r /\ word[e] = P!Null /\ list[t].last = r
    BY <1>1, <1>2, <1>7, <2>1 DEF ListOk, Short
  <2>3. pool.first = P!Null
    <3>1. pool.first \in Blocks => pool.first # r /\ pool.first # e
      BY <1>4, <2>1 DEF ListOk, InList
    <3>2. pool.first \in Links
      BY DEF ViewInv, ViewTypes
    <3>3. QED
      BY <2>1, <2>2, <3>1, <3>2 DEF TwoBlocks, Links
  <2>4. pool' = [first |-> e, last |-> r] /\ word' = [word EXCEPT ![r] = P!Null]
    BY <1>1, <1>7, <2>1, <2>2, <2>3 DEF P!PutBack, P!Reattach, P!AttachTo
  <2>5. pool'.first = e /\ word'[e] = P!Null /\ \A c \in Blocks \ {r} : word'[c] = word[c]
    BY <2>2, <2>4 DEF ViewInv, ViewTypes
  <2>6. \A c \in Blocks : (InList(c)' <=> c = e) /\ ~InList(c)
    BY <1>2, <2>1, <2>3, <2>5 DEF InList
  <2>7. \A u \in Threads \ {t} :
          /\ pc'[u] = pc[u] /\ reg'[u] = reg[u] /\ list'[u] = list[u]
          /\ pc[u] \in {"reattach", "construct"} =>
               reg[u] \in Blocks /\ reg[u] # r /\ word'[reg[u]] = word[reg[u]]
    <3>1. ASSUME NEW u \in Threads \ {t}, pc[u] \in {"reattach", "construct"}
          PROVE  reg[u] \in Blocks /\ reg[u] # r
      <4>1. reg[u] \in Blocks /\ Has(u, reg[u])
        BY <3>1 DEF ViewInv, PlaceOk, Has
      <4>2. QED
        BY <1>4, <3>1, <4>1 DEF ListOk
    <3>2. QED
      BY <1>2, <1>3, <2>5, <3>1
  <2>8. \A u \in Threads \ {t}, c \in Blocks : Has(u, c)' <=> Has(u, c)
    BY <2>7 DEF Has
  <2>9. /\ \A c \in Blocks : Has(t, c) <=> c = r \/ c = e
        /\ \A u \in Threads \ {t} : ~Has(u, r) /\ ~Has(u, e)
    BY <1>4, <2>1 DEF ListOk
  <2>10. \A u \in Threads : pc'[u] = "reattach" =>
          Short(reg[u])' /\ (word'[reg'[u]] # P!Null => list'[u].last = reg'[u])
    <3>1. SUFFICES ASSUME NEW u \in Threads, pc'[u] = "reattach"
          PROVE  Short(reg[u])' /\ (word'[reg'[u]] # P!Null => list'[u].last = reg'[u])
      OBVIOUS
    <3>2. u # t
      BY <1>3, <3>1
    <3>3. /\ pc[u] = "reattach" /\ reg'[u] = reg[u] /\ list'[u] = list[u]
          /\ reg[u] \in Blocks /\ word'[reg[u]] = word[reg[u]]
      BY <2>7, <3>1, <3>2
    <3>4. word[reg[u]] \in Blocks => word[reg[u]] # r
      BY <2>9, <3>2, <3>3 DEF Has
    <3>5. Short(reg[u]) /\ (word[reg[u]] # P!Null => list[u].last = reg[u])
      BY <3>3 DEF ListOk
    <3>6. QED
      BY <2>5, <3>3, <3>4, <3>5 DEF Short
  <2>11. \A c \in Blocks : use'[c] = "free" <=> InList(c)' \/ \E u \in Threads : Has(u, c)'
    <3>1. \A c \in Blocks : use'[c] = "free" <=> \E u \in Threads : Has(u, c)
      BY <1>2, <2>6 DEF ListOk
    <3>2. QED
      BY <1>5, <2>6, <2>8, <2>9, <3>1
  <2>12. \A c \in Blocks, u \in Threads : ~(InList(c)' /\ Has(u, c)')
    BY <1>5, <2>2, <2>6, <2>8, <2>9
  <2>13. \A c \in Blocks, u, h \in Threads : Has(u, c)' /\ Has(h, c)' => u = h
    BY <1>5, <2>8, <2>9 DEF ListOk
  <2>14. pool'.first \in Blocks =>
          Short(pool.first)' /\ (word'[pool'.first] # P!Null => pool'.last = pool'.first)
    BY <1>2, <2>1, <2>5 DEF Short
  <2>15. QED
    BY <2>10, <2>11, <2>12, <2>13, <2>14 DEF ListOk
<1>8. QED
  BY <1>6, <1>7

\* A block that becomes a view is nobody else's.
LEMMA ConstructLists ==
  ASSUME PointersInv, ViewInv, ListOk, NEW t \in Threads, P!Construct(t)
  PROVE  ListOk'
<1>1. PICK r \in Blocks : r = reg[t] /\ use[r] = "free" /\ Has(t, r)
  BY DEF ViewInv, PlaceOk, P!Construct, Has
<1>2. /\ pc[t] = "construct" /\ pc' = [pc EXCEPT ![t] = "install"]
      /\ word' = [word EXCEPT ![r] = 1] /\ use' = [use EXCEPT ![r] = "used"]
      /\ list' = [list EXCEPT ![t] = P!Empty] /\ UNCHANGED <<pool, reg>>
  BY <1>1 DEF P!Construct, P!Go
<1>3. /\ pc'[t] = "install" /\ use'[r] = "used"
      /\ \A c \in Blocks \ {r} : use'[c] = use[c] /\ word'[c] = word[c]
      /\ \A u \in Threads \ {t} : pc'[u] = pc[u] /\ reg'[u] = reg[u] /\ list'[u] = list[u]
  BY <1>1, <1>2, StrongKeeps DEF ViewInv, ViewTypes
<1>4. ~InList(r) /\ \A u \in Threads \ {t} : ~Has(u, r)
  BY <1>1 DEF ListOk
<1>5. pool.first \in Blocks => pool.first # r /\ word'[pool.first] = word[pool.first]
  BY <1>3, <1>4 DEF InList
<1>6. \A c \in Blocks : InList(c)' <=> InList(c)
  BY <1>2, <1>5 DEF InList
<1>7. \A c \in Blocks : ~Has(t, c)' /\ (Has(t, c) <=> c = r)
  BY <1>1, <1>2, <1>3 DEF Has
<1>8. \A u \in Threads \ {t} : pc[u] \in {"reattach", "construct"} =>
        reg[u] \in Blocks /\ reg[u] # r /\ word'[reg[u]] = word[reg[u]]
  <2>1. ASSUME NEW u \in Threads \ {t}, pc[u] \in {"reattach", "construct"}
        PROVE  reg[u] \in Blocks /\ reg[u] # r
    BY <1>4, <2>1 DEF ViewInv, PlaceOk, Has
  <2>2. QED
    BY <1>3, <2>1
<1>9. \A u \in Threads \ {t}, c \in Blocks : Has(u, c)' <=> Has(u, c)
  BY <1>3, <1>8 DEF Has
<1>10. \A u \in Threads : pc'[u] = "reattach" =>
        Short(reg[u])' /\ (word'[reg'[u]] # P!Null => list'[u].last = reg'[u])
  <2>1. SUFFICES ASSUME NEW u \in Threads, pc'[u] = "reattach"
        PROVE  Short(reg[u])' /\ (word'[reg'[u]] # P!Null => list'[u].last = reg'[u])
    OBVIOUS
  <2>2. u # t
    BY <1>3, <2>1
  <2>3. /\ pc[u] = "reattach" /\ reg'[u] = reg[u] /\ list'[u] = list[u]
        /\ reg[u] \in Blocks /\ word'[reg[u]] = word[reg[u]]
    BY <1>3, <1>8, <2>1, <2>2
  <2>4. word[reg[u]] \in Blocks => word[reg[u]] # r
    BY <1>4, <2>2, <2>3 DEF Has
  <2>5. Short(reg[u]) /\ (word[reg[u]] # P!Null => list[u].last = reg[u])
    BY <2>3 DEF ListOk
  <2>6. QED
    BY <1>3, <2>3, <2>4, <2>5 DEF Short
<1>11. pool'.first \in Blocks =>
        Short(pool.first)' /\ (word'[pool'.first] # P!Null => pool'.last = pool'.first)
  <2>1. pool.first \in Blocks /\ word[pool.first] \in Blocks => word[pool.first] # r
    BY <1>4 DEF InList
  <2>2. QED
    BY <1>2, <1>3, <1>5, <2>1 DEF ListOk, Short
<1>12. \A c \in Blocks : use'[c] = "free" <=> InList(c)' \/ \E u \in Threads : Has(u, c)'
  <2>1. SUFFICES ASSUME NEW c \in Blocks
        PROVE  use'[c] = "free" <=> InList(c)' \/ \E u \in Threads : Has(u, c)'
    OBVIOUS
  <2>2. CASE c = r
    BY <1>3, <1>4, <1>6, <1>7, <1>9, <2>2
  <2>3. CASE c # r
    BY <1>3, <1>6, <1>7, <1>9, <2>3 DEF ListOk
  <2>4. QED
    BY <2>2, <2>3
<1>13. /\ \A c \in Blocks, u \in Threads : ~(InList(c)' /\ Has(u, c)')
       /\ \A c \in Blocks, u, h \in Threads : Has(u, c)' /\ Has(h, c)' => u = h
  BY <1>6, <1>7, <1>9 DEF ListOk
<1>14. QED
  BY <1>10, <1>11, <1>12, <1>13 DEF ListOk

\* Every step keeps the list, and what threads have of it, in order.
LEMMA ListPreserved ==
  ASSUME TwoBlocks, PointersInv, ViewInv, ListOk, [P!Next]_(P!vars) PROVE ListOk'
<1>1. /\ pc \in [Threads -> Places] /\ reg \in [Threads -> Links]
      /\ word \in [Blocks -> Nat] /\ life \in {"none", "alive", "dying"}
      /\ \A t \in Threads : Ends(t) => life = "dying"
      /\ \A t \in Threads : PlaceOk(t)
      /\ \A c \in Blocks : UseOk(c)
  BY StrongKeeps DEF ViewInv, ViewTypes
<1>2. ASSUME NEW t \in Threads, UNCHANGED <<pool, use, list>>,
             pc[t] \notin {"reattach", "construct"}, pc'[t] \notin {"reattach", "construct"},
             \A u \in Threads \ {t} : pc'[u] = pc[u] /\ reg'[u] = reg[u],
             \A c \in Blocks : use[c] = "free" => word'[c] = word[c]
      PROVE  ListOk'
  BY <1>2, ListStays
<1>3. ASSUME NEW t \in Threads, P!Make(t) PROVE ListOk'
  <2>1. /\ pc[t] = "idle" /\ UNCHANGED <<pool, use, list, word, pc, reg>>
    BY <1>3 DEF P!Make, P!allocator
  <2>2. QED
    BY <1>2, <2>1
<1>4. ASSUME NEW t \in Threads, P!Destroy(t) PROVE ListOk'
  <2>1. /\ pc[t] = "destroy" /\ UNCHANGED <<pool, use, list>>
        /\ reg' = [reg EXCEPT ![t] = view]
        /\ \E place \in {"idle", "deleteView", "clearOwner"} : pc' = [pc EXCEPT ![t] = place]
        /\ UNCHANGED word \/ \E n : view # P!Null /\ word' = [word EXCEPT ![view] = n]
    BY <1>4 DEF P!Destroy, P!Go
  <2>2. \A c \in Blocks : view = c => use[c] = "used"
    <3>1. life = "dying"
      BY <1>1, <2>1 DEF Ends
    <3>2. QED
      BY <1>1, <3>1 DEF UseOk
  <2>3. \A c \in Blocks : use[c] = "free" => word'[c] = word[c]
    BY <1>1, <2>1, <2>2
  <2>4. /\ pc'[t] \notin {"reattach", "construct"}
        /\ \A u \in Threads \ {t} : pc'[u] = pc[u] /\ reg'[u] = reg[u]
    BY <1>1, <2>1
  <2>5. QED
    BY <1>2, <2>1, <2>3, <2>4
<1>5. ASSUME NEW t \in Threads,
             P!Fork(t) \/ P!Drop(t) \/ P!ClearOwner(t) \/ P!Weaken(t) \/ P!Install(t)
               \/ P!TryAddRef(t) \/ (\E u \in Threads : P!Give(t, u))
               \/ \E c \in Blocks : P!ForkWeak(t, c) \/ P!Lock(t, c)
      PROVE  ListOk'
  <2>1. /\ UNCHANGED <<pool, use, list, word>>
        /\ pc[t] \in {"idle", "clearOwner", "install", "tryAddRef"}
    BY <1>5 DEF P!Fork, P!Drop, P!ClearOwner, P!Weaken, P!Install, P!TryAddRef, P!Give,
       P!ForkWeak, P!Lock, P!allocator
  <2>2. /\ UNCHANGED pc \/ \E place \in Places \ {"reattach", "construct"} :
                             pc' = [pc EXCEPT ![t] = place]
        /\ UNCHANGED reg \/ \E link : reg' = [reg EXCEPT ![t] = link]
    <3>1. CASE P!Fork(t) \/ P!Drop(t) \/ P!ClearOwner(t)
      BY <3>1 DEF P!Fork, P!Drop, P!ClearOwner, P!Done, P!Go, Places
    <3>2. CASE P!Weaken(t) \/ P!Install(t) \/ P!TryAddRef(t)
      BY <3>2 DEF P!Weaken, P!Install, P!TryAddRef, P!Done, P!Go, Places
    <3>3. CASE \/ \E u \in Threads : P!Give(t, u)
               \/ \E c \in Blocks : P!ForkWeak(t, c) \/ P!Lock(t, c)
      BY <3>3 DEF P!Give, P!ForkWeak, P!Lock, P!Go, Places
    <3>4. QED
      BY <1>5, <3>1, <3>2, <3>3
  <2>3. /\ pc'[t] \notin {"reattach", "construct"}
        /\ \A u \in Threads \ {t} : pc'[u] = pc[u] /\ reg'[u] = reg[u]
    BY <1>1, <2>1, <2>2
  <2>4. QED
    BY <1>2, <2>1, <2>3
<1>6. ASSUME NEW t \in Threads, P!AddWeakRef(t) PROVE ListOk'
  <2>1. PICK r \in Blocks : r = reg[t] /\ use[r] = "used"
    <3>1. strong[t] > 0 => life = "alive"
      BY StrongKeeps
    <3>2. QED
      BY <1>1, <1>6, <3>1 DEF P!AddWeakRef, PlaceOk, UseOk
  <2>2. /\ pc[t] = "addRef" /\ pc' = [pc EXCEPT ![t] = "idle"]
        /\ reg' = [reg EXCEPT ![t] = P!Null] /\ word' = [word EXCEPT ![r] = @ + 1]
        /\ UNCHANGED <<pool, use, list>>
    BY <1>6, <2>1 DEF P!AddWeakRef, P!Done, P!Go
  <2>3. \A c \in Blocks : use[c] = "free" => word'[c] = word[c]
    BY <1>1, <2>1, <2>2
  <2>4. /\ pc'[t] \notin {"reattach", "construct"}
        /\ \A u \in Threads \ {t} : pc'[u] = pc[u] /\ reg'[u] = reg[u]
    BY <1>1, <2>2
  <2>5. QED
    BY <1>2, <2>2, <2>3, <2>4
<1>7. ASSUME NEW t \in Threads, NEW r \in Blocks, P!DropWeak(t, r) PROVE ListOk'
  <2>1. /\ pc[t] = "idle" /\ weak[t][r] > 0 /\ word' = [word EXCEPT ![r] = @ - 1]
        /\ UNCHANGED pc \/ pc' = [pc EXCEPT ![t] = "deleteWeak"]
        /\ UNCHANGED reg \/ reg' = [reg EXCEPT ![t] = r]
        /\ UNCHANGED <<pool, use, list>>
    BY <1>7 DEF P!DropWeak, P!Go
  <2>2. use[r] = "used"
    BY <1>1, <2>1 DEF UseOk
  <2>3. \A c \in Blocks : use[c] = "free" => word'[c] = word[c]
    BY <1>1, <2>1, <2>2
  <2>4. /\ pc'[t] \notin {"reattach", "construct"}
        /\ \A u \in Threads \ {t} : pc'[u] = pc[u] /\ reg'[u] = reg[u]
    BY <1>1, <2>1
  <2>5. QED
    BY <1>2, <2>1, <2>3, <2>4
<1>8. ASSUME NEW t \in Threads,
             P!DeleteView(t) \/ P!Allocate(t) \/ P!PutBack(t) \/ P!Construct(t)
      PROVE  ListOk'
  BY <1>8, DeleteViewLists, AllocateLists, PutBackLists, ConstructLists
<1>9. CASE UNCHANGED P!vars
  <2>1. UNCHANGED <<pool, word, use, pc, reg, list>>
    BY <1>9 DEF P!vars, P!allocator
  <2>2. QED
    BY <2>1 DEF ListOk, InList, Has, Short
<1>10. QED
  BY <1>3, <1>4, <1>5, <1>6, <1>7, <1>8, <1>9 DEF P!Next

\* A list in order keeps off the blocks that others have, and has every free one when no
\* call is under way.
LEMMA ListsSound ==
  ASSUME ViewInv, ListOk PROVE P!KeepsOff /\ (P!NoneLeft => P!NothingLeaks)
<1>1. \A t \in Threads : PlaceOk(t)
  BY DEF ViewInv
<1>2. P!KeepsOff
  <2>1. ASSUME pool.first \in Blocks
        PROVE  use[pool.first] = "free" /\ \A t \in Threads : ~P!Holds(t, pool.first)
    <3>1. InList(pool.first) /\ use[pool.first] = "free"
      BY <2>1 DEF InList, ListOk
    <3>2. \A t \in Threads : ~Has(t, pool.first)
      BY <2>1, <3>1 DEF ListOk
    <3>3. QED
      BY <1>1, <3>1, <3>2 DEF PlaceOk, Has, P!Holds, P!At
  <2>2. ASSUME NEW t \in Threads, pc[t] = "reattach", word[reg[t]] # P!Null
        PROVE  list[t].last \in Blocks /\ use[list[t].last] # "used"
    BY <1>1, <2>2 DEF PlaceOk, ListOk
  <2>3. QED
    BY <2>1, <2>2 DEF P!KeepsOff, P!At
<1>3. ASSUME P!NoneLeft PROVE P!NothingLeaks
  <2>1. SUFFICES ASSUME \A t \in Threads : pc[t] = "idle", NEW c \in Blocks, use[c] = "free"
                 PROVE  c \in P!Listed(pool.first)
    BY <1>3 DEF P!NothingLeaks
  <2>2. InList(c)
    BY <2>1 DEF ListOk, Has
  <2>3. QED
    BY <2>2 DEF InList, P!Listed
<1>4. QED
  BY <1>2, <1>3

\* With at most two blocks it does keep off them, so that nothing more is assumed.
TwoInv == ViewInv /\ ListOk

\* It holds at first.
LEMMA TwoInitially == P!Init => TwoInv
BY ViewsInitially, ListInitially DEF TwoInv

\* Every step keeps it.
LEMMA TwoPreserved ==
  ASSUME Careful, TwoBlocks, PointersInv, TwoInv, [P!Next]_(P!vars) PROVE TwoInv'
<1>1. P!KeepsOff
  BY ListsSound DEF TwoInv
<1>2. QED
  BY <1>1, ViewsPreserved, ListPreserved DEF TwoInv

\* Nothing more is needed of a state.
LEMMA TwoSound == PointersInv /\ TwoInv => P!PointersSound
<1> SUFFICES ASSUME PointersInv, TwoInv PROVE P!PointersSound
  OBVIOUS
<1>1. P!StrongCounted /\ P!WeakCounted /\ P!NothingDangles /\ P!NoneLeft
  BY ViewsSound DEF PointersInv, TwoInv
<1>2. P!KeepsOff /\ P!NothingLeaks
  BY <1>1, ListsSound DEF TwoInv
<1>3. QED
  BY <1>1, <1>2 DEF P!PointersSound

\* References of any number of threads are counted without error, nothing dangles and
\* nothing is left behind, when there are at most two blocks.
THEOREM PointersAreSound ==
  ASSUME Careful, TwoBlocks PROVE P!Spec => []P!PointersSound
<1>1. P!Init => PointersInv /\ TwoInv
  BY PointersInitially, TwoInitially
<1>2. PointersInv /\ TwoInv /\ [P!Next]_(P!vars) => PointersInv' /\ TwoInv'
  BY PointersPreserved, TwoPreserved
<1>3. QED
  BY <1>1, <1>2, TwoSound, PTL DEF P!Spec

---------------------------------------------------------------
(* The standard streams                                                     *)

\* A set of numbers that is not empty has a least one.
LEMMA LeastNatural == ASSUME NEW T0, T0 \subseteq Nat, T0 # {} PROVE \E m \in T0 : \A n \in T0 : m <= n
<1> DEFINE R == OpToRel(<,Nat)
<1>0. IsWellFoundedOn(R, Nat)
  BY NatLessThanWellFounded, Zenon
<1>a. \A m, n \in Nat : m < n => <<m, n>> \in R
  BY Zenon DEF OpToRel
<1> HIDE DEF R
<1>1. \E x \in T0 : \A y \in T0 : ~ (<<y, x>> \in R)
  BY WFMin, <1>0
<1>2. PICK m \in T0 : \A y \in T0 : ~ (<<y, m>> \in R)
  BY <1>1
<1>3. \A n \in T0 : ~(n < m)
  BY <1>2, <1>a
<1>4. QED
  BY <1>3

\* What is true of 0, and of each number if of the one before, is true of all up to N.
LEMMA Induct ==
  ASSUME NEW N \in Nat, NEW G, 0 \in G, \A n \in 1..N : n - 1 \in G => n \in G
  PROVE  \A n \in 0..N : n \in G
<1>1. SUFFICES ASSUME NEW n \in 0..N, n \notin G PROVE FALSE
  OBVIOUS
<1> DEFINE B == {i \in 0..N : i \notin G}
<1>2. PICK m \in B : \A i \in B : m <= i
  <2>1. B \subseteq Nat /\ B # {}
    BY <1>1
  <2>2. QED
    BY <2>1, LeastNatural
<1>3. m \in 1..N /\ m - 1 \notin B
  BY <1>2
<1>4. QED
  BY <1>2, <1>3

\* The runs of a loop that makes N turns over states in A.
Loops(N, A, base, step) ==
  {g \in [0..N -> A] : g[0] = base /\ \A i \in 1..N : g[i] = step[<<i, g[i - 1]>>]}

\* A loop that makes N turns, from base, can be carried to its end.
LEMMA LoopExists ==
  ASSUME NEW N \in Nat, NEW A, NEW base \in A, NEW step \in [(1..N) \X A -> A]
  PROVE  Loops(N, A, base, step) # {}
<1> SUFFICES \E g \in [0..N -> A] : g[0] = base /\ \A i \in 1..N : g[i] = step[<<i, g[i - 1]>>]
  BY DEF Loops
<1> DEFINE Good(n, g) == g[0] = base /\ \A i \in 1..n : g[i] = step[<<i, g[i - 1]>>]
           G == {n \in 0..N : \E g \in [0..n -> A] : Good(n, g)}
<1>1. 0 \in G
  <2> DEFINE h == [i \in 0..0 |-> base]
  <2>1. h \in [0..0 -> A] /\ h[0] = base /\ \A i \in 1..0 : h[i] = step[<<i, h[i - 1]>>]
    OBVIOUS
  <2> HIDE DEF h
  <2>2. 0 \in 0..N /\ \E g \in [0..0 -> A] : Good(0, g)
    BY <2>1
  <2>3. QED
    BY <2>2, Zenon
<1>2. ASSUME NEW n \in 1..N, n - 1 \in G PROVE n \in G
  <2>1. PICK g \in [0..(n - 1) -> A] : Good(n - 1, g)
    BY <1>2
  <2> DEFINE h == [i \in 0..n |-> IF i = n THEN step[<<n, g[n - 1]>>] ELSE g[i]]
  <2>2. step[<<n, g[n - 1]>>] \in A
    BY <2>1
  <2>3. h \in [0..n -> A]
    BY <2>2
  <2>4. \A i \in 0..(n - 1) : h[i] = g[i]
    OBVIOUS
  <2>5. h[n] = step[<<n, h[n - 1]>>]
    <3>1. n \in 0..n /\ n - 1 \in 0..n /\ n - 1 # n
      OBVIOUS
    <3>2. h[n] = step[<<n, g[n - 1]>>] /\ h[n - 1] = g[n - 1]
      BY <3>1
    <3>3. QED
      BY <3>2
  <2> HIDE DEF h
  <2>6. h[0] = base
    BY <2>1, <2>4
  <2>7. ASSUME NEW i \in 1..n PROVE h[i] = step[<<i, h[i - 1]>>]
    <3>1. CASE i = n
      BY <3>1, <2>5
    <3>2. CASE i # n
      <4>1. i \in 1..(n - 1) /\ i - 1 \in 0..(n - 1) /\ i \in 0..(n - 1)
        BY <3>2
      <4>2. QED
        BY <4>1, <2>1, <2>4
    <3>3. QED
      BY <3>1, <3>2
  <2>8. QED
    BY <2>3, <2>6, <2>7
<1>3. N \in G
  <2>1. \A n \in 0..N : n \in G
    BY <1>1, <1>2, Induct
  <2>2. QED
    BY <2>1
<1>4. QED
  BY <1>3

\* What a stream holds: the i-th unit of a code point.
Unit2 == IO!CodePoints \X Nat

\* U+FFFD is a code point.
LEMMA UnknownIs == "?" \in IO!CodePoints
BY DEF IO!CodePoints

\* Every code point that begins in q is whole there, and none is U+FFFD.
WellFormed(q, wide) ==
  \A i \in 1..Len(q) : q[i][2] = 1 =>
    /\ q[i][1] # "?" /\ i + IO!Width(q[i][1], wide) - 1 <= Len(q)
    /\ \A j \in 1..IO!Width(q[i][1], wide) : q[i + j - 1] = <<q[i][1], j>>

\* A code point takes one to four units, and no more of two bytes than of bytes.
LEMMA WidthIs == ASSUME NEW c, NEW wide PROVE IO!Width(c, wide) \in 1..4
BY DEF IO!Width

\* No code point takes more units on a console than in a file.
LEMMA WidthsAre ==
  /\ IO!Width("?", TRUE) = 1
  /\ \A c : IO!Width(c, TRUE) <= 2 /\ IO!Width(c, TRUE) <= IO!Width(c, FALSE)
BY DEF IO!Width

\* The units of a code point are its first, its second and so on.
LEMMA EncodeIs ==
  ASSUME NEW c \in IO!CodePoints, NEW wide
  PROVE  /\ IO!Encode(c, wide) \in Seq(Unit2)
         /\ Len(IO!Encode(c, wide)) = IO!Width(c, wide)
         /\ \A i \in 1..IO!Width(c, wide) : IO!Encode(c, wide)[i] = <<c, i>>
<1> DEFINE n == IO!Width(c, wide)
<1>1. n \in Nat
  <2>1. n \in 1..4
    BY WidthIs
  <2>2. QED
    BY <2>1
<1>2. IO!Encode(c, wide) = [i \in 1..n |-> <<c, i>>]
  BY DEF IO!Encode
<1> HIDE DEF n
<1>3. [i \in 1..n |-> <<c, i>>] \in Seq(Unit2) /\ Len([i \in 1..n |-> <<c, i>>]) = n
  BY <1>1 DEF Unit2
<1>4. \A i \in 1..n : [j \in 1..n |-> <<c, j>>][i] = <<c, i>>
  OBVIOUS
<1>5. QED
  BY <1>2, <1>3, <1>4 DEF n

\* What Decode takes is there, and is the whole of a code point unless it stands for
\* what can not be decoded.
LEMMA DecodeIs ==
  ASSUME NEW d \in Seq(Unit2), d # <<>>, NEW wide,
         NEW k, k = IO!Decode(d, wide)
  PROVE  /\ k.c \in IO!CodePoints /\ k.units \in 0..Len(d)
         /\ k.c # "?" => /\ k.c = d[1][1] /\ k.units = IO!Width(k.c, wide) /\ k.units > 0
                         /\ \A i \in 1..k.units : d[i] = <<k.c, i>>
         /\ k.c = "?" => \/ d[1][2] # 1 /\ k.units = 1
                         \/ \E i \in 1..IO!Width(d[1][1], wide) :
                              d[1][2] = 1 /\ (i > Len(d) \/ d[i] # <<d[1][1], i>>)
                         \/ d[1][2] = 1 /\ d[1][1] = "?"
<1> DEFINE w == IO!Width(d[1][1], wide)
           bad == {i \in 1..w : d[i] # <<d[1][1], i>>}
           first == CHOOSE i \in bad : \A j \in bad : i <= j
<1>1. d[1] \in Unit2 /\ Len(d) \in Nat /\ Len(d) > 0 /\ w \in 1..4
  BY WidthIs
<1>2. d[1][1] \in IO!CodePoints /\ d[1][2] \in Nat
  BY <1>1 DEF Unit2
<1>3. bad # {} => first \in bad
  <2>1. ASSUME bad # {} PROVE \E i \in bad : \A j \in bad : i <= j
    <3>1. bad \subseteq Nat
      BY <1>1
    <3>2. QED
      BY <2>1, <3>1, LeastNatural, Zenon
  <2>2. QED
    BY <2>1, Zenon
<1>4. k = IF d[1][2] # 1 THEN [c |-> "?", units |-> 1]
          ELSE IF Len(d) < w THEN [c |-> "?", units |-> 0]
          ELSE IF bad = {} THEN [c |-> d[1][1], units |-> w]
          ELSE [c |-> "?", units |-> first]
  BY DEF IO!Decode
<1> HIDE DEF w, first
<1>5. CASE d[1][2] # 1
  <2>1. k = [c |-> "?", units |-> 1]
    BY <1>4, <1>5
  <2>2. k.c = "?" /\ k.units = 1
    BY <2>1
  <2>3. QED
    BY <1>1, <1>5, <2>2, UnknownIs
<1>6. CASE d[1][2] = 1 /\ Len(d) < w
  <2>0. k = [c |-> "?", units |-> 0]
    BY <1>1, <1>4, <1>6
  <2>1. k.c = "?" /\ k.units = 0
    BY <2>0
  <2>2. w \in 1..IO!Width(d[1][1], wide) /\ w > Len(d)
    BY <1>1, <1>6 DEF w
  <2>3. QED
    BY <1>1, <1>6, <2>1, <2>2, UnknownIs
<1>7. CASE d[1][2] = 1 /\ Len(d) >= w /\ bad = {}
  <2>1. k.c = d[1][1] /\ k.units = w
    BY <1>1, <1>4, <1>7
  <2>2. \A i \in 1..w : d[i] = <<d[1][1], i>>
    BY <1>7
  <2>3. w = IO!Width(k.c, wide)
    BY <2>1 DEF w
  <2>4. QED
    BY <1>1, <1>2, <1>7, <2>1, <2>2, <2>3
<1>8. CASE d[1][2] = 1 /\ Len(d) >= w /\ bad # {}
  <2>1. k.c = "?" /\ k.units = first /\ first \in 1..w /\ d[first] # <<d[1][1], first>>
    BY <1>1, <1>3, <1>4, <1>8
  <2>2. first \in 1..IO!Width(d[1][1], wide)
    BY <2>1 DEF w
  <2>3. QED
    BY <1>1, <1>8, <2>1, <2>2, UnknownIs
<1>9. QED
  BY <1>1, <1>5, <1>6, <1>7, <1>8

\* What is dropped from the front of a sequence and what is left make it up.
LEMMA DropIs ==
  ASSUME NEW E, NEW q \in Seq(E), NEW n \in 0..Len(q)
  PROVE  /\ IO!Drop(q, n) \in Seq(E) /\ Len(IO!Drop(q, n)) = Len(q) - n
         /\ \A i \in 1..(Len(q) - n) : IO!Drop(q, n)[i] = q[n + i]
         /\ SubSeq(q, 1, n) \in Seq(E) /\ Len(SubSeq(q, 1, n)) = n
         /\ \A i \in 1..n : SubSeq(q, 1, n)[i] = q[i]
<1>1. IO!Drop(q, n) = SubSeq(q, n + 1, Len(q)) /\ Len(q) \in Nat
  BY DEF IO!Drop
<1>2. /\ SubSeq(q, n + 1, Len(q)) \in Seq(E)
      /\ Len(SubSeq(q, n + 1, Len(q))) = Len(q) - n
      /\ \A i \in 1..(Len(q) - n) : SubSeq(q, n + 1, Len(q))[i] = q[n + i]
  OBVIOUS
<1>3. /\ SubSeq(q, 1, n) \in Seq(E) /\ Len(SubSeq(q, 1, n)) = n
      /\ \A i \in 1..n : SubSeq(q, 1, n)[i] = q[i]
  OBVIOUS
<1>4. QED
  BY <1>1, <1>2, <1>3

\* What is put behind a sequence.
LEMMA JoinIs ==
  ASSUME NEW E, NEW p \in Seq(E), NEW q \in Seq(E)
  PROVE  /\ p \o q \in Seq(E) /\ Len(p \o q) = Len(p) + Len(q)
         /\ \A i \in 1..Len(p) : (p \o q)[i] = p[i]
         /\ \A i \in 1..Len(q) : (p \o q)[Len(p) + i] = q[i]
OBVIOUS

\* It does not matter which of three sequences are joined first.
LEMMA JoinsAre ==
  ASSUME NEW E, NEW p \in Seq(E), NEW q \in Seq(E), NEW r \in Seq(E)
  PROVE  (p \o q) \o r = p \o (q \o r)
BY SMTT(30)

\* Sequences are the same if their elements are.
LEMMA SameSequence ==
  ASSUME NEW E, NEW p \in Seq(E), NEW q \in Seq(E), Len(p) = Len(q),
         \A i \in 1..Len(p) : p[i] = q[i]
  PROVE  p = q
OBVIOUS

\* What follows well-formed text, and what comes before a code point of it, is such text.
LEMMA SuffixWellFormed ==
  ASSUME NEW q \in Seq(Unit2), NEW n \in 0..Len(q), NEW wide, WellFormed(q, wide)
  PROVE  WellFormed(IO!Drop(q, n), wide)
<1> DEFINE d == IO!Drop(q, n)
<1>1. /\ Len(d) = Len(q) - n /\ \A i \in 1..Len(d) : d[i] = q[n + i]
  BY DropIs, ZenonT(30)
<1> HIDE DEF d
<1>2. SUFFICES ASSUME NEW i \in 1..Len(d), d[i][2] = 1
               PROVE  /\ d[i][1] # "?" /\ i + IO!Width(d[i][1], wide) - 1 <= Len(d)
                      /\ \A j \in 1..IO!Width(d[i][1], wide) : d[i + j - 1] = <<d[i][1], j>>
  BY DEF WellFormed, d
<1>3. /\ i + n \in 1..Len(q) /\ q[i + n] = d[i] /\ Len(q) \in Nat
  BY <1>1
<1>4. IO!Width(d[i][1], wide) \in 1..4
  BY WidthIs
<1>5. /\ d[i][1] # "?" /\ i + n + IO!Width(d[i][1], wide) - 1 <= Len(q)
      /\ \A j \in 1..IO!Width(d[i][1], wide) : q[i + n + j - 1] = <<d[i][1], j>>
  BY <1>2, <1>3 DEF WellFormed
<1>6. \A j \in 1..IO!Width(d[i][1], wide) :
         i + j - 1 \in 1..Len(d) /\ i + j - 1 + n = i + n + j - 1
  BY <1>1, <1>3, <1>4, <1>5
<1>7. \A j \in 1..IO!Width(d[i][1], wide) : d[i + j - 1] = q[n + (i + j - 1)]
  BY <1>1, <1>6
<1>8. \A j \in 1..IO!Width(d[i][1], wide) : d[i + j - 1] = <<d[i][1], j>>
  <2>1. \A j \in 1..IO!Width(d[i][1], wide) : n + (i + j - 1) = i + n + j - 1
    BY <1>4
  <2>2. QED
    BY <1>5, <1>7, <2>1
<1>9. QED
  BY <1>1, <1>3, <1>4, <1>5, <1>8, SMTT(30)

\* What comes before a code point of well-formed text is such text.
LEMMA PrefixWellFormed ==
  ASSUME NEW q \in Seq(Unit2), NEW n \in 0..Len(q), NEW wide, WellFormed(q, wide),
         n < Len(q) => q[n + 1][2] = 1
  PROVE  WellFormed(SubSeq(q, 1, n), wide)
<1> DEFINE d == SubSeq(q, 1, n)
<1>1. /\ Len(d) = n /\ \A i \in 1..n : d[i] = q[i]
  BY DropIs
<1> HIDE DEF d
<1>2. SUFFICES ASSUME NEW i \in 1..n, d[i][2] = 1
               PROVE  /\ d[i][1] # "?" /\ i + IO!Width(d[i][1], wide) - 1 <= Len(d)
                      /\ \A j \in 1..IO!Width(d[i][1], wide) : d[i + j - 1] = <<d[i][1], j>>
  BY <1>1 DEF WellFormed, d
<1> DEFINE w == IO!Width(d[i][1], wide)
<1>3. w \in 1..4
  BY WidthIs
<1>4. i \in 1..Len(q) /\ q[i] = d[i] /\ Len(q) \in Nat
  BY <1>1
<1>5. /\ d[i][1] # "?" /\ i + w - 1 <= Len(q)
      /\ \A j \in 1..w : q[i + j - 1] = <<d[i][1], j>>
  BY <1>2, <1>4 DEF WellFormed
<1> HIDE DEF w
<1>6. i + w - 1 <= n
  <2>1. SUFFICES ASSUME i + w - 1 > n PROVE FALSE
    BY <1>3
  <2>2. n + 2 - i \in 1..w /\ i + (n + 2 - i) - 1 = n + 1 /\ n + 2 - i # 1 /\ n < Len(q)
    BY <1>3, <1>5, <2>1
  <2>3. q[n + 1] = <<d[i][1], n + 2 - i>>
    BY <1>5, <2>2
  <2>4. QED
    BY <2>2, <2>3
<1>7. \A j \in 1..w : i + j - 1 \in 1..n
  BY <1>3, <1>6
<1>8. \A j \in 1..w : d[i + j - 1] = <<d[i][1], j>>
  BY <1>1, <1>5, <1>7
<1>9. QED
  BY <1>1, <1>5, <1>6, <1>8 DEF w

\* A code point and what is before it.
LEMMA AppendWellFormed ==
  ASSUME NEW q \in Seq(Unit2), NEW c \in IO!CodePoints \ {"?"}, NEW wide, WellFormed(q, wide)
  PROVE  WellFormed(q \o IO!Encode(c, wide), wide)
<1> DEFINE e == IO!Encode(c, wide)
           w == IO!Width(c, wide)
           d == q \o e
<1>1. e \in Seq(Unit2) /\ Len(e) = w /\ \A i \in 1..w : e[i] = <<c, i>>
  BY EncodeIs
<1>2. w \in 1..4 /\ Len(q) \in Nat
  <2>1. w \in 1..4
    BY WidthIs
  <2>2. QED
    BY <2>1
<1> HIDE DEF e
<1>3. /\ Len(d) = Len(q) + w /\ \A i \in 1..Len(q) : d[i] = q[i]
      /\ \A i \in 1..w : d[Len(q) + i] = <<c, i>>
  <2>1. Len(d) = Len(q) + Len(e) /\ \A i \in 1..Len(q) : d[i] = q[i]
    BY <1>1, SMTT(30)
  <2>2. \A i \in 1..Len(e) : d[Len(q) + i] = e[i]
    BY <1>1
  <2>3. QED
    BY <1>1, <2>1, <2>2
<1> HIDE DEF d, w
<1>4. SUFFICES ASSUME NEW i \in 1..Len(d), d[i][2] = 1
               PROVE  /\ d[i][1] # "?" /\ i + IO!Width(d[i][1], wide) - 1 <= Len(d)
                      /\ \A j \in 1..IO!Width(d[i][1], wide) : d[i + j - 1] = <<d[i][1], j>>
  BY DEF WellFormed, d, e
<1>5. CASE i <= Len(q)
  <2>1. i \in 1..Len(q) /\ q[i] = d[i]
    BY <1>2, <1>3, <1>5
  <2>2. IO!Width(d[i][1], wide) \in 1..4
    BY WidthIs
  <2>3. /\ d[i][1] # "?" /\ i + IO!Width(d[i][1], wide) - 1 <= Len(q)
        /\ \A j \in 1..IO!Width(d[i][1], wide) : q[i + j - 1] = <<d[i][1], j>>
    BY <1>4, <2>1 DEF WellFormed
  <2>4. \A j \in 1..IO!Width(d[i][1], wide) : i + j - 1 \in 1..Len(q)
    BY <1>2, <2>1, <2>2, <2>3
  <2>5. \A j \in 1..IO!Width(d[i][1], wide) : d[i + j - 1] = <<d[i][1], j>>
    BY <1>3, <2>3, <2>4
  <2>6. QED
    BY <1>2, <1>3, <2>2, <2>3, <2>5
<1>6. CASE i > Len(q)
  <2>1. i - Len(q) \in 1..w /\ Len(q) + (i - Len(q)) = i
    BY <1>2, <1>3, <1>6
  <2>2. d[i] = <<c, i - Len(q)>>
    BY <1>3, <2>1
  <2>3. i = Len(q) + 1 /\ d[i][1] = c
    BY <1>2, <1>4, <2>1, <2>2
  <2>4. \A j \in 1..w : i + j - 1 = Len(q) + j
    BY <1>2, <2>3
  <2>5. w = IO!Width(d[i][1], wide) /\ d[i][1] # "?"
    BY <2>3 DEF w
  <2>6. i + w - 1 <= Len(d)
    BY <1>2, <1>3, <2>3
  <2>7. \A j \in 1..w : d[i + j - 1] = <<d[i][1], j>>
    BY <1>3, <2>3, <2>4
  <2>8. QED
    BY <2>5, <2>6, <2>7
<1>7. QED
  BY <1>2, <1>3, <1>5, <1>6

\* Of such text Decode takes a code point, or one unit of what is left of one.
LEMMA DecodeWellFormed ==
  ASSUME NEW d \in Seq(Unit2), d # <<>>, NEW wide, WellFormed(d, wide),
         NEW k, k = IO!Decode(d, wide)
  PROVE  /\ k.c \in IO!CodePoints /\ k.units \in 1..Len(d)
         /\ IF k.c = "?" THEN k.units = 1
            ELSE k.units = IO!Width(k.c, wide) /\ \A i \in 1..k.units : d[i] = <<k.c, i>>
<1>1. 1 \in 1..Len(d)
  BY SMT
<1>2. d[1][2] = 1 =>
        /\ d[1][1] # "?" /\ 1 + IO!Width(d[1][1], wide) - 1 <= Len(d)
        /\ \A j \in 1..IO!Width(d[1][1], wide) : d[1 + j - 1] = <<d[1][1], j>>
  BY <1>1 DEF WellFormed
<1>3. IO!Width(d[1][1], wide) \in 1..4
  BY WidthIs
<1>4. \A j \in 1..IO!Width(d[1][1], wide) : 1 + j - 1 = j
  BY <1>3
<1>5. d[1][2] = 1 =>
        /\ d[1][1] # "?"
        /\ \A j \in 1..IO!Width(d[1][1], wide) : j <= Len(d) /\ d[j] = <<d[1][1], j>>
  BY <1>2, <1>3, <1>4
<1>6. /\ k.c \in IO!CodePoints /\ k.units \in 0..Len(d)
      /\ k.c # "?" => /\ k.c = d[1][1] /\ k.units = IO!Width(k.c, wide) /\ k.units > 0
                      /\ \A i \in 1..k.units : d[i] = <<k.c, i>>
      /\ k.c = "?" => \/ d[1][2] # 1 /\ k.units = 1
                      \/ \E i \in 1..IO!Width(d[1][1], wide) :
                           d[1][2] = 1 /\ (i > Len(d) \/ d[i] # <<d[1][1], i>>)
                      \/ d[1][2] = 1 /\ d[1][1] = "?"
  BY DecodeIs
<1>7. k.c = "?" => k.units = 1
  <2>1. \A j \in 1..IO!Width(d[1][1], wide) : ~(j > Len(d) /\ j <= Len(d))
    BY <1>3
  <2>2. QED
    BY <1>3, <1>5, <1>6, <2>1
<1>8. QED
  BY <1>6, <1>7

\* A turn of Recode makes no more of a unit than there is room for.
Room(to) == IF to THEN 1 ELSE 6
RecodeStates(d, to) ==
  {l \in [left : Seq(Unit2), put : Seq(Unit2)] :
     Len(l.put) + Room(to) * Len(l.left) <= Room(to) * Len(d)}

\* The room that is reserved for the units that are left is enough after a turn.
LEMMA RoomLeft ==
  ASSUME NEW p \in Nat, NEW x \in Nat, NEW y \in Nat, NEW e \in 1..4, NEW n \in Nat,
         NEW r \in {1, 6}, p + r * x <= r * n, y <= x - 1, r = 1 => y + e <= x
  PROVE  p + e + r * y <= r * n
<1>1. CASE r = 1
  BY <1>1
<1>2. CASE r = 6
  BY <1>2
<1>3. QED
  BY <1>1, <1>2

\* A turn of Recode keeps within the room that is reserved.
LEMMA RecodeTurnIs ==
  ASSUME NEW d \in Seq(Unit2), NEW from \in BOOLEAN, NEW to \in BOOLEAN,
         NEW l \in RecodeStates(d, to)
  PROVE  IO!RecodeTurn(l, from, to) \in RecodeStates(d, to)
<1> DEFINE k == IO!Decode(l.left, from)
           m == IO!RecodeTurn(l, from, to)
<1>1. /\ l.left \in Seq(Unit2) /\ l.put \in Seq(Unit2)
      /\ Len(l.put) + Room(to) * Len(l.left) <= Room(to) * Len(d)
  BY DEF RecodeStates
<1>2. /\ l.left = <<>> => m = l
      /\ l.left # <<>> /\ k.units = 0 =>
           m = [left |-> <<>>, put |-> l.put \o IO!Encode("?", to)]
      /\ l.left # <<>> /\ k.units # 0 =>
           m = [left |-> IO!Drop(l.left, k.units), put |-> l.put \o IO!Encode(k.c, to)]
  BY DEF IO!RecodeTurn
<1> HIDE DEF k, m
<1>3. SUFFICES ASSUME l.left # <<>> PROVE m \in RecodeStates(d, to)
  BY <1>2 DEF m
<1>4. /\ k.c \in IO!CodePoints /\ k.units \in 0..Len(l.left)
      /\ k.c # "?" => k.units = IO!Width(k.c, from)
  BY <1>1, <1>3, DecodeIs DEF k
<1> DEFINE c == IF k.units = 0 THEN "?" ELSE k.c
           e == IO!Encode(c, to)
           left == IF k.units = 0 THEN <<>> ELSE IO!Drop(l.left, k.units)
<1>5. m = [left |-> left, put |-> l.put \o e]
  BY <1>2, <1>3
<1>6. c \in IO!CodePoints
  BY <1>4, UnknownIs
<1>7. e \in Seq(Unit2) /\ Len(e) = IO!Width(c, to) /\ IO!Width(c, to) \in 1..4
  BY <1>6, EncodeIs, WidthIs
<1> HIDE DEF c, e, left
<1>8. /\ left \in Seq(Unit2) /\ Len(l.left) \in Nat /\ Len(l.left) > 0
      /\ Len(left) <= Len(l.left) - 1 /\ (to => Len(left) + Len(e) <= Len(l.left))
  <2>1. Len(l.left) \in Nat /\ Len(l.left) > 0
    BY <1>1, <1>3
  <2>2. CASE k.units = 0
    <3>1. left = <<>> /\ c = "?"
      BY <2>2 DEF left, c
    <3>2. to => IO!Width(c, to) = 1
      BY <3>1, WidthsAre
    <3>3. QED
      BY <1>7, <2>1, <3>1, <3>2
  <2>3. CASE k.units # 0
    <3>1. left = IO!Drop(l.left, k.units) /\ c = k.c /\ k.units \in 1..Len(l.left)
      BY <1>4, <2>1, <2>3 DEF left, c
    <3>2. left \in Seq(Unit2) /\ Len(left) = Len(l.left) - k.units
      BY <1>1, <1>4, <3>1, DropIs
    <3>3. ASSUME to PROVE IO!Width(c, to) <= k.units
      <4>1. to = TRUE /\ (from = TRUE \/ from = FALSE)
        BY <3>3
      <4>2. IO!Width(c, from) \in 1..4 /\ IO!Width(c, to) \in 1..4
        BY WidthIs
      <4>3. IO!Width(c, to) <= IO!Width(c, from)
        BY <4>1, <4>2 DEF IO!Width
      <4>4. CASE c = "?"
        <5>1. IO!Width(c, to) = 1
          BY <4>1, <4>4, WidthsAre
        <5>2. QED
          BY <2>1, <3>1, <5>1
      <4>5. CASE c # "?"
        BY <1>4, <3>1, <4>3, <4>5
      <4>6. QED
        BY <4>4, <4>5
    <3>4. QED
      BY <1>7, <2>1, <3>1, <3>2, <3>3
  <2>4. QED
    BY <2>2, <2>3
<1>9. m.left = left /\ m.put = l.put \o e /\ m \in [left : Seq(Unit2), put : Seq(Unit2)]
  <2>1. l.put \o e \in Seq(Unit2)
    BY <1>1, <1>7
  <2>2. QED
    BY <1>5, <1>8, <2>1
<1>10. Len(m.put) = Len(l.put) + Len(e)
  BY <1>1, <1>7, <1>9, SMTT(30)
<1>11. Len(m.put) + Room(to) * Len(m.left) <= Room(to) * Len(d)
  <2>1. /\ Len(left) \in Nat /\ Len(l.put) \in Nat /\ Len(e) \in 1..4 /\ Len(d) \in Nat
        /\ Len(m.left) = Len(left)
    BY <1>1, <1>7, <1>8, <1>9
  <2>2. Room(to) \in {1, 6} /\ (Room(to) = 1 => to)
    BY DEF Room
  <2>3. QED
    BY <1>1, <1>8, <1>10, <2>1, <2>2, RoomLeft
<1>12. QED
  BY <1>9, <1>11 DEF RecodeStates

\* Recode starts with all that is to be recoded and goes on turn after turn.
LEMMA RecodeIs ==
  ASSUME NEW d \in Seq(Unit2), NEW from \in BOOLEAN, NEW to \in BOOLEAN
  PROVE  /\ IO!Recode(d, from, to) \in Seq(Unit2)
         /\ Len(IO!Recode(d, from, to)) <= IF to THEN Len(d) ELSE 6 * Len(d)
<1> DEFINE A == RecodeStates(d, to)
           base == [left |-> d, put |-> <<>>]
           N == Len(d)
           Is(f) == f = [n \in 0..N |-> IF n = 0 THEN base ELSE IO!RecodeTurn(f[n - 1], from, to)]
           turn == CHOOSE f : Is(f)
<1>1. base \in A /\ N \in Nat
  BY DEF RecodeStates, Room
<1>2. \A l \in A : IO!RecodeTurn(l, from, to) \in A
  BY RecodeTurnIs
<1>3. IO!Recode(d, from, to) = turn[N].put
  BY Zenon DEF IO!Recode
<1> HIDE DEF A, base, N, turn
<1>4. \E f : Is(f)
  <2> DEFINE step == [p \in (1..N) \X A |-> IO!RecodeTurn(p[2], from, to)]
  <2>1. step \in [(1..N) \X A -> A]
    BY <1>2
  <2>2. \A i \in 1..N, l \in A : step[<<i, l>>] = IO!RecodeTurn(l, from, to)
    OBVIOUS
  <2> HIDE DEF step
  <2>3. PICK g \in [0..N -> A] : g[0] = base /\ \A i \in 1..N : g[i] = step[<<i, g[i - 1]>>]
    <3>1. Loops(N, A, base, step) # {}
      BY <1>1, <2>1, LoopExists
    <3>2. QED
      BY <3>1 DEF Loops
  <2>4. \A i \in 1..N : g[i] = IO!RecodeTurn(g[i - 1], from, to)
    <3>1. \A i \in 1..N : i - 1 \in 0..N
      BY <1>1
    <3>2. QED
      BY <2>2, <2>3, <3>1
  <2>5. \A i \in 0..N : g[i] = IF i = 0 THEN base ELSE IO!RecodeTurn(g[i - 1], from, to)
    BY <1>1, <2>3, <2>4
  <2>6. Is(g)
    BY <2>3, <2>5
  <2>7. QED
    BY <2>6
<1>5. Is(turn)
  BY <1>4, Zenon DEF turn
<1>6. \A n \in 0..N : n \in {i \in 0..N : turn[i] \in A}
  <2>1. 0 \in {i \in 0..N : turn[i] \in A}
    BY <1>1, <1>5
  <2>2. ASSUME NEW n \in 1..N, n - 1 \in {i \in 0..N : turn[i] \in A}
        PROVE  n \in {i \in 0..N : turn[i] \in A}
    <3>1. n \in 0..N /\ n # 0 /\ turn[n - 1] \in A
      BY <1>1, <2>2
    <3>2. turn[n] = IO!RecodeTurn(turn[n - 1], from, to)
      BY <1>5, <3>1
    <3>3. QED
      BY <1>2, <3>1, <3>2
  <2>3. QED
    BY <1>1, <2>1, <2>2, Induct
<1>7. turn[N] \in A
  BY <1>1, <1>6
<1>8. /\ turn[N].put \in Seq(Unit2) /\ turn[N].left \in Seq(Unit2)
      /\ Len(turn[N].put) + Room(to) * Len(turn[N].left) <= Room(to) * Len(d)
  BY <1>7 DEF A, RecodeStates
<1>9. Room(to) \in {1, 6} /\ Len(turn[N].put) \in Nat /\ Len(turn[N].left) \in Nat /\ Len(d) \in Nat
  BY <1>8 DEF Room
<1>10. Len(turn[N].put) <= Room(to) * Len(d)
  BY <1>8, <1>9, SMTT(30)
<1>11. Room(to) * Len(d) = IF to THEN Len(d) ELSE 6 * Len(d)
  BY <1>9 DEF Room
<1>12. QED
  BY <1>3, <1>8, <1>10, <1>11

\* EncodeAll encodes one code point after another.
LEMMA EncodeAllRuns ==
  ASSUME NEW cs \in Seq(IO!CodePoints), NEW wide \in BOOLEAN
  PROVE  \E f \in [0..Len(cs) -> Seq(Unit2)] :
           /\ IO!EncodeAll(cs, wide) = f[Len(cs)] /\ f[0] = <<>>
           /\ \A i \in 1..Len(cs) : f[i] = f[i - 1] \o IO!Encode(cs[i], wide)
<1> DEFINE N == Len(cs)
           Is(f) == f = [n \in 0..N |-> IF n = 0 THEN <<>> ELSE f[n - 1] \o IO!Encode(cs[n], wide)]
           put == CHOOSE f : Is(f)
           A == Seq(Unit2)
           step == [p \in (1..N) \X A |-> p[2] \o IO!Encode(cs[p[1]], wide)]
<1>1. N \in Nat /\ <<>> \in A
  OBVIOUS
<1>2. \A i \in 1..N : IO!Encode(cs[i], wide) \in A
  BY EncodeIs
<1>3. step \in [(1..N) \X A -> A]
  BY <1>2
<1>4. \A i \in 1..N, q \in A : step[<<i, q>>] = q \o IO!Encode(cs[i], wide)
  OBVIOUS
<1>5. IO!EncodeAll(cs, wide) = put[N]
  BY Zenon DEF IO!EncodeAll
<1> HIDE DEF N, put, A, step
<1>6. PICK g \in [0..N -> A] : g[0] = <<>> /\ \A i \in 1..N : g[i] = step[<<i, g[i - 1]>>]
  <2>1. Loops(N, A, <<>>, step) # {}
    BY <1>1, <1>3, LoopExists
  <2>2. QED
    BY <2>1 DEF Loops
<1>7. \A i \in 1..N : i - 1 \in 0..N /\ i \in 0..N /\ i # 0
  BY <1>1
<1>8. \A i \in 1..N : g[i] = g[i - 1] \o IO!Encode(cs[i], wide)
  BY <1>4, <1>6, <1>7
<1>9. Is(g)
  <2>1. \A i \in 0..N : g[i] = IF i = 0 THEN <<>> ELSE g[i - 1] \o IO!Encode(cs[i], wide)
    BY <1>1, <1>6, <1>8, SMTT(30)
  <2>2. QED
    BY <1>6, <2>1
<1>10. Is(put)
  BY <1>9, Zenon DEF put
<1>11. /\ put[0] = <<>>
       /\ \A i \in 1..N : put[i] = put[i - 1] \o IO!Encode(cs[i], wide)
  <2>1. \A i \in 0..N : put[i] = IF i = 0 THEN <<>> ELSE put[i - 1] \o IO!Encode(cs[i], wide)
    BY <1>10
  <2>2. 0 \in 0..N
    BY <1>1
  <2>3. put[0] = <<>>
    BY <2>1, <2>2, Zenon
  <2>4. ASSUME NEW i \in 1..N PROVE put[i] = put[i - 1] \o IO!Encode(cs[i], wide)
    BY <1>7, <2>1, Zenon
  <2>5. QED
    BY <2>3, <2>4
<1>12. put \in [0..N -> A]
  <2> DEFINE G == {n \in 0..N : put[n] \in A}
  <2>1. 0 \in G
    BY <1>1, <1>11
  <2>2. ASSUME NEW n \in 1..N, n - 1 \in G PROVE n \in G
    <3>1. put[n - 1] \in A /\ IO!Encode(cs[n], wide) \in A /\ n \in 0..N
      BY <1>2, <1>7, <2>2
    <3>2. put[n - 1] \o IO!Encode(cs[n], wide) \in A
      BY <3>1 DEF A
    <3>3. QED
      BY <1>11, <3>1, <3>2
  <2>3. \A n \in 0..N : n \in G
    BY <1>1, <2>1, <2>2, Induct
  <2>4. QED
    BY <1>10, <2>3
<1>13. QED
  BY <1>5, <1>11, <1>12 DEF N, A

\* One code point is encoded as it is by itself.
LEMMA EncodeOne ==
  ASSUME NEW cs \in Seq(IO!CodePoints), Len(cs) = 1, NEW wide \in BOOLEAN
  PROVE  /\ IO!EncodeAll(cs, wide) \in Seq(Unit2)
         /\ Len(IO!EncodeAll(cs, wide)) = IO!Width(cs[1], wide)
<1>1. PICK f \in [0..Len(cs) -> Seq(Unit2)] :
        /\ IO!EncodeAll(cs, wide) = f[Len(cs)] /\ f[0] = <<>>
        /\ \A i \in 1..Len(cs) : f[i] = f[i - 1] \o IO!Encode(cs[i], wide)
  BY EncodeAllRuns, Zenon
<1>2. f[1] = f[0] \o IO!Encode(cs[1], wide)
  <2>1. 1 \in 1..Len(cs) /\ 1 - 1 = 0
    OBVIOUS
  <2>2. QED
    BY <1>1, <2>1
<1>3. cs[1] \in IO!CodePoints
  <2>1. 1 \in 1..Len(cs)
    OBVIOUS
  <2>2. QED
    BY <2>1, ElementOfSeq
<1>4. /\ IO!Encode(cs[1], wide) \in Seq(Unit2)
      /\ Len(IO!Encode(cs[1], wide)) = IO!Width(cs[1], wide)
  BY <1>3, EncodeIs
<1>5. <<>> \o IO!Encode(cs[1], wide) = IO!Encode(cs[1], wide)
  BY <1>4
<1>6. QED
  BY <1>1, <1>2, <1>4, <1>5

\* What comes in is well-formed.
LEMMA InputWellFormed ==
  ASSUME NEW cs \in Seq(IO!CodePoints \ {"?"}), NEW wide \in BOOLEAN
  PROVE  IO!EncodeAll(cs, wide) \in Seq(Unit2) /\ WellFormed(IO!EncodeAll(cs, wide), wide)
<1>1. cs \in Seq(IO!CodePoints) /\ \A i \in 1..Len(cs) : cs[i] \in IO!CodePoints \ {"?"}
  OBVIOUS
<1>2. PICK f \in [0..Len(cs) -> Seq(Unit2)] :
        /\ IO!EncodeAll(cs, wide) = f[Len(cs)] /\ f[0] = <<>>
        /\ \A i \in 1..Len(cs) : f[i] = f[i - 1] \o IO!Encode(cs[i], wide)
  BY <1>1, EncodeAllRuns
<1> DEFINE G == {n \in 0..Len(cs) : WellFormed(f[n], wide)}
<1>3. Len(cs) \in Nat
  OBVIOUS
<1>4. 0 \in G
  <2>1. WellFormed(<<>>, wide)
    BY DEF WellFormed
  <2>2. QED
    BY <1>2, <1>3, <2>1
<1>5. ASSUME NEW n \in 1..Len(cs), n - 1 \in G PROVE n \in G
  <2>1. n \in 0..Len(cs) /\ n - 1 \in 0..Len(cs) /\ f[n - 1] \in Seq(Unit2)
    BY <1>2, <1>3, SMTT(30)
  <2>2. WellFormed(f[n - 1] \o IO!Encode(cs[n], wide), wide)
    BY <1>1, <1>5, <2>1, AppendWellFormed
  <2>3. QED
    BY <1>2, <2>1, <2>2
<1>6. \A n \in 0..Len(cs) : n \in G
  BY <1>3, <1>4, <1>5, Induct
<1>7. Len(cs) \in 0..Len(cs)
  BY <1>3
<1>8. QED
  BY <1>2, <1>6, <1>7

\* What stands for a unit that can not be decoded.
Unknown == <<"?", 1>>

\* What a turn of TakeMany has when it reads: units that are those at the front, or stand
\* for what can not be decoded, and as many of them as it has used.
TakeStates(d) ==
  {l \in [out : Seq(Unit2), used : 0..Len(d), again : {FALSE}, ended : BOOLEAN,
          copied : Nat, stop : BOOLEAN] :
     /\ Len(l.out) = l.used /\ (l.used > 0 => l.copied > 0)
     /\ \A i \in 1..l.used : l.out[i] = d[i] \/ l.out[i] = Unknown}

\* What is put out for a decoded code point, and that it stands for the units at the front.
PutFor(k, wide) == IF k.c = "?" THEN <<Unknown>> ELSE IO!Encode(k.c, wide)
StandsFor(d, k, out) ==
  /\ k.units \in 1..Len(d) /\ out \in Seq(Unit2) /\ Len(out) = k.units
  /\ \A i \in 1..k.units : out[i] = d[i] \/ out[i] = Unknown

\* Of well-formed text a code point is put out as it is, or one unit as U+FFFD.
LEMMA DecodedIs ==
  ASSUME NEW d \in Seq(Unit2), d # <<>>, NEW wide, WellFormed(d, wide)
  PROVE  StandsFor(d, IO!Decode(d, wide), PutFor(IO!Decode(d, wide), wide))
<1> DEFINE k == IO!Decode(d, wide)
           out == PutFor(k, wide)
<1> USE DEF PutFor, StandsFor
<1>1. /\ k.c \in IO!CodePoints /\ k.units \in 1..Len(d)
      /\ IF k.c = "?" THEN k.units = 1
         ELSE k.units = IO!Width(k.c, wide) /\ \A i \in 1..k.units : d[i] = <<k.c, i>>
  BY DecodeWellFormed
<1>2. CASE k.c = "?"
  <2>1. Unknown \in Unit2
    BY UnknownIs DEF Unit2, Unknown
  <2>2. <<Unknown>> \in Seq(Unit2) /\ Len(<<Unknown>>) = 1 /\ <<Unknown>>[1] = Unknown
    BY <2>1
  <2>3. QED
    BY <1>1, <1>2, <2>2
<1>3. CASE k.c # "?"
  <2>1. /\ IO!Encode(k.c, wide) \in Seq(Unit2)
        /\ Len(IO!Encode(k.c, wide)) = IO!Width(k.c, wide)
        /\ \A i \in 1..IO!Width(k.c, wide) : IO!Encode(k.c, wide)[i] = <<k.c, i>>
    BY <1>1, EncodeIs
  <2>2. QED
    BY <1>1, <1>3, <2>1
<1>4. QED
  BY <1>2, <1>3

\* A turn of TakeMany returns as many units as it uses, each as it came or unknown.
LEMMA TakeTurnIs ==
  ASSUME NEW d \in Seq(Unit2), d # <<>>, NEW wide \in BOOLEAN, WellFormed(d, wide),
         NEW r, r.how = "read", ~(r.line /\ wide), NEW l \in TakeStates(d),
         r.line \in BOOLEAN
  PROVE  IO!TakeTurn(r, d, wide, l) \in TakeStates(d)
<1> DEFINE x == IO!Drop(d, l.used)
           k == IO!Decode(x, wide)
           size == IO!Width(k.c, r.what = "text")
           out == IF k.c = "?" THEN <<Unknown>> ELSE IO!Encode(k.c, wide)
           last == r.line /\ k.c = "n"
           m == IO!TakeTurn(r, d, wide, l)
<1>1. /\ l \in [out : Seq(Unit2), used : 0..Len(d), again : {FALSE}, ended : BOOLEAN,
                copied : Nat, stop : BOOLEAN]
      /\ Len(l.out) = l.used /\ (l.used > 0 => l.copied > 0)
      /\ \A i \in 1..l.used : l.out[i] = d[i] \/ l.out[i] = Unknown
  BY DEF TakeStates
<1>2. x \in Seq(Unit2) /\ Len(x) = Len(d) - l.used /\ WellFormed(x, wide)
      /\ \A i \in 1..(Len(d) - l.used) : x[i] = d[l.used + i]
  <2>1. l.used \in 0..Len(d)
    BY <1>1
  <2>2. WellFormed(x, wide)
    BY <2>1, SuffixWellFormed
  <2> HIDE DEF k, size, out, last, m
  <2>3. PICK n \in 0..Len(d) : n = l.used /\ x = IO!Drop(d, n)
    BY <2>1
  <2> HIDE DEF x
  <2>4. /\ IO!Drop(d, n) \in Seq(Unit2) /\ Len(IO!Drop(d, n)) = Len(d) - n
        /\ \A i \in 1..(Len(d) - n) : IO!Drop(d, n)[i] = d[n + i]
    BY DropIs
  <2>5. QED
    BY <2>2, <2>3, <2>4
<1>3. size \in 1..4
  BY WidthIs
<1>4. \/ m = l
      \/ k.units = 0 /\ m = [l EXCEPT !.stop = TRUE, !.again = l.copied = 0]
      \/ m = [l EXCEPT !.stop = TRUE, !.ended = TRUE]
      \/ m = [l EXCEPT !.stop = TRUE]
      \/ k.units # 0 /\ m = [l EXCEPT !.stop = last, !.copied = l.copied + size,
                                      !.out = l.out \o out, !.used = l.used + k.units]
  BY DEF IO!TakeTurn, IO!Peeks, Unknown
<1>5. x # <<>> => StandsFor(x, k, out)
  <2>1. k = IO!Decode(x, wide) /\ out = PutFor(k, wide)
    BY DEF PutFor
  <2> HIDE DEF x, k, out, size, last, m
  <2>2. x \in Seq(Unit2) /\ WellFormed(x, wide)
    BY <1>2
  <2>3. x # <<>> => StandsFor(x, IO!Decode(x, wide), PutFor(IO!Decode(x, wide), wide))
    BY <2>2, DecodedIs
  <2>4. QED
    BY <2>1, <2>3
<1>6. x = <<>> => k.units = 0
  BY DEF IO!Decode
<1>7. last \in BOOLEAN /\ Len(d) \in Nat /\ Len(d) > 0
  OBVIOUS
<1> HIDE DEF x, k, size, out, last, m
<1>8. CASE m = l
  BY <1>8 DEF m
<1>9. CASE k.units = 0 /\ m = [l EXCEPT !.stop = TRUE, !.again = l.copied = 0]
  <2>1. x = <<>>
    BY <1>5, <1>9 DEF StandsFor
  <2>2. Len(x) = 0
    BY <2>1
  <2>3. l.used > 0 /\ l.copied > 0
    BY <1>1, <1>2, <1>7, <2>2
  <2>4. (l.copied = 0) = FALSE
    BY <2>3
  <2>5. QED
    BY <1>1, <1>9, <2>4, ZenonT(30) DEF TakeStates, m
<1>10. CASE m = [l EXCEPT !.stop = TRUE, !.ended = TRUE]
  BY <1>1, <1>10 DEF TakeStates, m
<1>11. CASE m = [l EXCEPT !.stop = TRUE]
  BY <1>1, <1>11 DEF TakeStates, m
<1>12. CASE k.units # 0 /\ m = [l EXCEPT !.stop = last, !.copied = l.copied + size,
                                         !.out = l.out \o out, !.used = l.used + k.units]
  <2>1. x # <<>>
    BY <1>6, <1>12
  <2>2. /\ k.units \in 1..Len(x) /\ out \in Seq(Unit2) /\ Len(out) = k.units
        /\ \A i \in 1..k.units : out[i] = x[i] \/ out[i] = Unknown
    BY <1>5, <2>1 DEF StandsFor
  <2>3. l.used + k.units \in 0..Len(d) /\ l.copied + size \in Nat /\ l.copied + size > 0
    BY <1>1, <1>2, <1>3, <2>2, SMTT(30)
  <2>4. /\ l.out \o out \in Seq(Unit2) /\ Len(l.out \o out) = l.used + k.units
        /\ \A i \in 1..l.used : (l.out \o out)[i] = l.out[i]
        /\ \A i \in 1..k.units : (l.out \o out)[l.used + i] = out[i]
    <3>1. l.out \in Seq(Unit2) /\ Len(l.out) = l.used
      BY <1>1
    <3>2. /\ l.out \o out \in Seq(Unit2) /\ Len(l.out \o out) = Len(l.out) + Len(out)
          /\ \A i \in 1..Len(l.out) : (l.out \o out)[i] = l.out[i]
          /\ \A i \in 1..Len(out) : (l.out \o out)[Len(l.out) + i] = out[i]
      <4>1. out \in Seq(Unit2)
        BY <2>2
      <4>2. l.out \in Seq(Unit2)
        BY <3>1
      <4>3. QED
        BY <4>1, <4>2, JoinIs
    <3>3. QED
      BY <2>2, <3>1, <3>2
  <2>5. /\ m \in [out : Seq(Unit2), used : 0..Len(d), again : {FALSE}, ended : BOOLEAN,
                  copied : Nat, stop : BOOLEAN]
        /\ m.out = l.out \o out /\ m.used = l.used + k.units /\ m.copied = l.copied + size
    BY <1>1, <1>7, <1>12, <2>3, <2>4
  <2> DEFINE u == l.used
             n == k.units
  <2>n. u \in Nat /\ n \in Nat /\ Len(d) \in Nat /\ u + n <= Len(d)
    BY <1>1, <1>2, <2>2
  <2> HIDE DEF u, n
  <2>6. ASSUME NEW i \in 1..m.used PROVE m.out[i] = d[i] \/ m.out[i] = Unknown
    <3>0. i \in 1..(u + n) /\ m.out = l.out \o out
      BY <2>5 DEF u, n
    <3>1. CASE i <= u
      <4>1. i \in 1..u
        BY <2>n, <3>0, <3>1
      <4>2. m.out[i] = l.out[i]
        BY <2>4, <3>0, <4>1 DEF u
      <4>3. QED
        BY <1>1, <4>1, <4>2 DEF u
    <3>2. CASE i > u
      <4>1. PICK j \in 1..n : i = u + j
        <5>1. i - u \in 1..n /\ i = u + (i - u)
          BY <2>n, <3>0, <3>2
        <5>2. QED
          BY <5>1
      <4>2. m.out[i] = out[j]
        BY <2>4, <3>0, <4>1 DEF u, n
      <4>3. j \in 1..(Len(d) - u)
        BY <2>n, <4>1
      <4>4. x[j] = d[i]
        BY <1>2, <4>1, <4>3 DEF u
      <4>5. QED
        BY <2>2, <4>1, <4>2, <4>4 DEF n
    <3>3. i <= u \/ i > u
      BY <2>n, <3>0
    <3>4. QED
      BY <3>1, <3>2, <3>3
  <2>7. Len(m.out) = m.used /\ (m.used > 0 => m.copied > 0)
    BY <2>3, <2>4, <2>5
  <2>8. QED
    BY <2>5, <2>6, <2>7 DEF TakeStates, m
<1>13. QED
  BY <1>4, <1>8, <1>9, <1>10, <1>11, <1>12

\* What TakeMany has in the end is what its last turn has.
LEMMA TakeManyIs ==
  ASSUME NEW d \in Seq(Unit2), d # <<>>, NEW wide \in BOOLEAN, WellFormed(d, wide),
         NEW r, r.how = "read", ~(r.line /\ wide), r.line \in BOOLEAN, r.room \in Nat
  PROVE  IO!TakeMany(r, d, wide) \in TakeStates(d)
<1> DEFINE A == TakeStates(d)
           base == [out |-> <<>>, used |-> 0, again |-> FALSE, ended |-> FALSE,
                    copied |-> 0, stop |-> FALSE]
           N == Len(d) + r.room + 1
           Is(f) == f = [n \in 0..N |-> IF n = 0 THEN base ELSE IO!TakeTurn(r, d, wide, f[n - 1])]
           turn == CHOOSE f : Is(f)
           step == [p \in (1..N) \X A |-> IO!TakeTurn(r, d, wide, p[2])]
<1>1. base \in A /\ N \in Nat
  BY DEF TakeStates
<1>2. \A l \in A : IO!TakeTurn(r, d, wide, l) \in A
  BY TakeTurnIs
<1>3. IO!TakeMany(r, d, wide) = turn[N]
  BY Zenon DEF IO!TakeMany
<1>4. step \in [(1..N) \X A -> A]
  BY <1>2
<1>5. \A i \in 1..N, l \in A : step[<<i, l>>] = IO!TakeTurn(r, d, wide, l)
  OBVIOUS
<1> HIDE DEF A, base, N, turn, step
<1>6. PICK g \in [0..N -> A] : g[0] = base /\ \A i \in 1..N : g[i] = step[<<i, g[i - 1]>>]
  <2>1. Loops(N, A, base, step) # {}
    BY <1>1, <1>4, LoopExists
  <2>2. QED
    BY <2>1 DEF Loops
<1>7. \A i \in 1..N : i - 1 \in 0..N /\ i \in 0..N /\ i # 0
  BY <1>1
<1>8. Is(g)
  <2>1. \A i \in 1..N : g[i] = IO!TakeTurn(r, d, wide, g[i - 1])
    BY <1>5, <1>6, <1>7
  <2>2. \A i \in 0..N : g[i] = IF i = 0 THEN base ELSE IO!TakeTurn(r, d, wide, g[i - 1])
    BY <1>1, <1>6, <2>1
  <2>3. QED
    BY <1>6, <2>2
<1>9. Is(turn)
  BY <1>8, Zenon DEF turn
<1> DEFINE G == {n \in 0..N : turn[n] \in A}
<1>10. 0 \in G
  BY <1>1, <1>9
<1>11. ASSUME NEW n \in 1..N, n - 1 \in G PROVE n \in G
  <2>1. turn[n] = IO!TakeTurn(r, d, wide, turn[n - 1])
    BY <1>7, <1>9
  <2>2. QED
    BY <1>2, <1>7, <1>11, <2>1
<1>12. \A n \in 0..N : n \in G
  BY <1>1, <1>10, <1>11, Induct
<1>13. N \in 0..N
  BY <1>1
<1>14. QED
  BY <1>3, <1>12, <1>13 DEF A

\* What comes to something good takes from well-formed text what is at its front.
TakenFrom(x, d, peeks) ==
  /\ x.again = FALSE /\ x.ended \in BOOLEAN /\ x.used \in 0..Len(d)
  /\ x.out \in Seq(Unit2) /\ Len(x.out) <= Len(d)
  /\ peeks => x.used = 0
  /\ ~peeks => x.used = Len(x.out)
  /\ \A i \in 1..Len(x.out) : x.out[i] = d[i] \/ x.out[i] = Unknown

\* So does every call that works, from input that is well-formed.
LEMMA TakeIs ==
  ASSUME CallsAreKnown, NEW r \in Reads, IO!Works(r), console["in"] \in BOOLEAN,
         NEW d \in Seq(Unit2), d # <<>>, WellFormed(d, console["in"])
  PROVE  TakenFrom(IO!Take(r, d), d, IO!Peeks(r))
<1> DEFINE wide == console["in"]
           x == IO!Take(r, d)
<1>1. /\ r.what \in {"byte", "binary", "char", "text"} /\ r.how \in {"peek", "read", "discard"}
      /\ r.room \in Nat /\ r.line \in BOOLEAN
  BY DEF CallsAreKnown
<1>2. wide \in BOOLEAN /\ WellFormed(d, wide)
  OBVIOUS
<1>3. \/ r.what \in {"byte", "char"}
      \/ wide /\ r.how = "read" /\ ~r.line
      \/ ~wide /\ (r.what = "binary" \/ r.how = "read")
  BY DEF IO!Works
<1>4. x = IF r.what \in {"byte", "binary"} /\ ~wide THEN IO!TakeRaw(r, d)
          ELSE IF r.what \in {"byte", "char"} THEN IO!TakeOne(r, d, wide)
          ELSE IO!TakeMany(r, d, wide)
  BY DEF IO!Take
<1>5. Len(d) \in Nat /\ Len(d) > 0
  OBVIOUS
<1> HIDE DEF wide, x
<1>6. CASE r.what \in {"byte", "binary"} /\ ~wide
  <2> DEFINE n == IO!Lesser(r.room, Len(d))
  <2>1. n \in 0..Len(d)
    BY <1>1, <1>5 DEF IO!Lesser
  <2>2. x = [out |-> SubSeq(d, 1, n), used |-> IF IO!Peeks(r) THEN 0 ELSE n,
             again |-> FALSE, ended |-> FALSE]
    BY <1>4, <1>6 DEF IO!TakeRaw
  <2> HIDE DEF n
  <2>3. /\ SubSeq(d, 1, n) \in Seq(Unit2) /\ Len(SubSeq(d, 1, n)) = n
        /\ \A i \in 1..n : SubSeq(d, 1, n)[i] = d[i]
    BY <2>1, DropIs
  <2>4. /\ x.out = SubSeq(d, 1, n) /\ x.used = (IF IO!Peeks(r) THEN 0 ELSE n)
        /\ x.again = FALSE /\ x.ended = FALSE
    BY <2>2
  <2>5. QED
    <3>1. x.out \in Seq(Unit2) /\ Len(x.out) = n /\ \A i \in 1..n : x.out[i] = d[i]
      BY <2>3, <2>4
    <3>2. /\ x.used \in 0..Len(d) /\ Len(x.out) <= Len(d) /\ x.ended \in BOOLEAN
          /\ IO!Peeks(r) => x.used = 0
          /\ ~IO!Peeks(r) => x.used = Len(x.out)
      <4>1. Len(x.out) \in 0..Len(d) /\ 0 \in 0..Len(d)
        BY <1>5, <2>1, <3>1
      <4>2. IO!Peeks(r) => x.used = 0
        BY <2>4
      <4>3. ~IO!Peeks(r) => x.used = Len(x.out)
        BY <2>4, <3>1
      <4>4. x.ended \in BOOLEAN
        BY <2>4
      <4>5. QED
        BY <4>1, <4>2, <4>3, <4>4
    <3>3. \A i \in 1..Len(x.out) : x.out[i] = d[i]
      BY <3>1
    <3>4. QED
      BY <2>4, <3>1, <3>2, <3>3 DEF TakenFrom, x
<1>7. CASE r.what \in {"byte", "char"} /\ ~(r.what = "byte" /\ ~wide)
  <2> DEFINE k == IO!Decode(d, wide)
             out == IF k.c = "?" THEN <<Unknown>> ELSE IO!Encode(k.c, wide)
             eof == wide /\ k.c = "z"
  <2>1. x = [out |-> IF k.units = 0 \/ eof THEN <<>> ELSE out,
             used |-> IF IO!Peeks(r) \/ eof THEN 0 ELSE k.units,
             again |-> k.units = 0, ended |-> eof]
    BY <1>1, <1>4, <1>7 DEF IO!TakeOne, Unknown
  <2>2. /\ k.units \in 1..Len(d) /\ out \in Seq(Unit2) /\ Len(out) = k.units
        /\ \A i \in 1..k.units : out[i] = d[i] \/ out[i] = Unknown
    <3>1. StandsFor(d, IO!Decode(d, wide), PutFor(IO!Decode(d, wide), wide))
      BY <1>2, DecodedIs
    <3>2. QED
      BY <3>1 DEF StandsFor, PutFor
  <2>3. eof \in BOOLEAN
    BY <1>2
  <2> HIDE DEF k, out, eof
  <2>4. /\ x.out = (IF eof THEN <<>> ELSE out)
        /\ x.used = (IF IO!Peeks(r) \/ eof THEN 0 ELSE k.units)
        /\ x.again = FALSE /\ x.ended = eof
    <3>1. k.units # 0
      BY <2>2
    <3>2. x = [out |-> IF eof THEN <<>> ELSE out,
               used |-> IF IO!Peeks(r) \/ eof THEN 0 ELSE k.units,
               again |-> FALSE, ended |-> eof]
      BY <2>1, <3>1
    <3>3. QED
      BY <3>2
  <2>5. CASE eof
    <3>1. x.out = <<>> /\ x.used = 0 /\ x.again = FALSE /\ x.ended \in BOOLEAN
      BY <2>3, <2>4, <2>5
    <3>2. QED
      BY <1>5, <3>1 DEF TakenFrom, x
  <2>6. CASE ~eof
    <3>1. x.out = out /\ x.used = (IF IO!Peeks(r) THEN 0 ELSE k.units)
          /\ x.again = FALSE /\ x.ended \in BOOLEAN
      BY <2>3, <2>4, <2>6
    <3>2. QED
      BY <1>5, <2>2, <3>1 DEF TakenFrom, x
  <2>7. QED
    BY <2>5, <2>6
<1>8. CASE r.what = "text" \/ (r.what = "binary" /\ wide)
  <2>1. x = IO!TakeMany(r, d, wide)
    BY <1>4, <1>8
  <2>2. r.how = "read" /\ ~(r.line /\ wide)
    BY <1>3, <1>8
  <2>3. x \in TakeStates(d)
    BY <1>1, <1>2, <2>1, <2>2, TakeManyIs
  <2>4. ~IO!Peeks(r)
    BY <2>2 DEF IO!Peeks
  <2>5. /\ x.again = FALSE /\ x.ended \in BOOLEAN /\ x.used \in 0..Len(d)
        /\ x.out \in Seq(Unit2) /\ Len(x.out) = x.used
        /\ \A i \in 1..x.used : x.out[i] = d[i] \/ x.out[i] = Unknown
    BY <2>3 DEF TakeStates
  <2>6. Len(x.out) <= Len(d) /\ \A i \in 1..Len(x.out) : x.out[i] = d[i] \/ x.out[i] = Unknown
    BY <1>5, <2>5
  <2>7. QED
    BY <2>4, <2>5, <2>6 DEF TakenFrom, x
<1>9. QED
  BY <1>1, <1>6, <1>7, <1>8

\* A buffer, and whether what is in it lies in its storage.
Buffers == [data : Seq(Unit2), begin : Nat, cap : Nat, buffered : BOOLEAN]
InPlace(s, q) == q.begin + IO!Unit(s) * Len(q.data) <= q.cap

\* A unit of a console takes two cells, one of a file takes one.
LEMMA UnitIs == ASSUME NEW s PROVE IO!Unit(s) \in {1, 2}
BY DEF IO!Unit

\* A new buffer has nothing in it.
LEMMA EmptyIs ==
  ASSUME NEW s, NEW f \in BOOLEAN
  PROVE  /\ IO!Empty(f) \in Buffers /\ InPlace(s, IO!Empty(f))
         /\ IO!Empty(f).data = <<>> /\ IO!Empty(f).buffered = f
<1>1. IO!Empty(f) = [data |-> <<>>, begin |-> 0, cap |-> 0, buffered |-> f]
  BY DEF IO!Empty
<1>2. <<>> \in Seq(Unit2) /\ Len(<<>>) = 0
  OBVIOUS
<1>3. IO!Unit(s) * 0 = 0
  BY UnitIs
<1>4. QED
  BY <1>1, <1>2, <1>3 DEF Buffers, InPlace

\* Discarding takes units from the front of the data, and no more storage.
LEMMA DiscardIs ==
  ASSUME NEW s, NEW q \in Buffers, InPlace(s, q), NEW n \in 0..Len(q.data)
  PROVE  /\ IO!Discard(s, q, n) \in Buffers /\ InPlace(s, IO!Discard(s, q, n))
         /\ IO!Discard(s, q, n).data = IO!Drop(q.data, n)
         /\ IO!Discard(s, q, n).buffered = q.buffered
<1> DEFINE e == IO!Discard(s, q, n)
           k == IO!Unit(s)
<1>1. /\ q.data \in Seq(Unit2) /\ q.begin \in Nat /\ q.cap \in Nat /\ q.buffered \in BOOLEAN
      /\ q.begin + k * Len(q.data) <= q.cap
  BY DEF Buffers, InPlace
<1>2. IO!Drop(q.data, n) \in Seq(Unit2) /\ Len(IO!Drop(q.data, n)) = Len(q.data) - n
  BY <1>1, DropIs
<1>3. k \in {1, 2}
  BY UnitIs
<1>4. e = [q EXCEPT !.data = IO!Drop(q.data, n), !.begin = q.begin + n * k]
  BY DEF IO!Discard
<1> HIDE DEF e, k
<1>5. q.begin + n * k \in Nat /\ Len(q.data) \in Nat
  BY <1>1, <1>3
<1>6. /\ e \in Buffers /\ e.data = IO!Drop(q.data, n) /\ e.begin = q.begin + n * k
      /\ e.cap = q.cap /\ e.buffered = q.buffered
  BY <1>1, <1>2, <1>4, <1>5 DEF Buffers
<1>7. Len(e.data) = Len(q.data) - n
  BY <1>2, <1>6
<1>8. e.begin + k * Len(e.data) = q.begin + k * Len(q.data)
  <2>1. CASE k = 1
    BY <1>1, <1>5, <1>6, <1>7, <2>1
  <2>2. CASE k = 2
    BY <1>1, <1>5, <1>6, <1>7, <2>2, SMTT(30)
  <2>3. QED
    BY <1>3, <2>1, <2>2
<1>9. e.begin + k * Len(e.data) <= e.cap
  BY <1>1, <1>6, <1>8
<1>10. QED
  BY <1>6, <1>9 DEF InPlace, e, k

\* More storage is reserved behind the data, which stays as it is.
LEMMA ReserveIs ==
  ASSUME CallsAreKnown, NEW s, NEW q \in Buffers, InPlace(s, q), NEW size \in Nat
  PROVE  /\ IO!ReserveMore(s, q, size) \in Buffers
         /\ IO!ReserveMore(s, q, size).data = q.data
         /\ IO!ReserveMore(s, q, size).buffered = q.buffered
         /\ IO!ReserveMore(s, q, size).begin + IO!Unit(s) * Len(q.data) + size
              <= IO!ReserveMore(s, q, size).cap
<1> DEFINE e == IO!ReserveMore(s, q, size)
           used == IO!Unit(s) * Len(q.data)
           more == (q.cap + 1) + (q.cap + 1) \div 2 + GRAIN - 1
           rounded == (more \div GRAIN) * GRAIN
           cap == IF used + size <= q.cap THEN q.cap ELSE IO!Greater(rounded, used + size)
<1>1. /\ q.data \in Seq(Unit2) /\ q.begin \in Nat /\ q.cap \in Nat /\ q.buffered \in BOOLEAN
      /\ q.begin + used <= q.cap
  BY DEF Buffers, InPlace
<1>2. GRAIN \in Nat /\ GRAIN > 0
  BY DEF CallsAreKnown
<1>3. used \in Nat
  <2>1. Len(q.data) \in Nat
    BY <1>1
  <2>2. QED
    BY <2>1, UnitIs
<1>4. e = IF size <= q.cap - q.begin - used THEN q
          ELSE [q EXCEPT !.begin = 0, !.cap = cap]
  BY DEF IO!ReserveMore, IO!Reserved, IO!Size
<1> HIDE DEF e, used
<1>5. rounded \in Nat
  <2>1. more \in Nat
    BY <1>1, <1>2
  <2> HIDE DEF more
  <2>2. more \div GRAIN \in Nat
    BY <1>2, <2>1
  <2>3. QED
    BY <1>2, <2>2
<1> HIDE DEF rounded
<1>6. cap \in Nat /\ used + size <= cap
  BY <1>1, <1>3, <1>5 DEF IO!Greater
<1> HIDE DEF cap
<1>7. CASE size <= q.cap - q.begin - used
  <2>1. e = q
    BY <1>4, <1>7
  <2>2. q.begin + used + size <= q.cap
    BY <1>1, <1>3, <1>7
  <2>3. QED
    BY <2>1, <2>2 DEF e, used
<1>8. CASE ~(size <= q.cap - q.begin - used)
  <2>1. e = [q EXCEPT !.begin = 0, !.cap = cap]
    BY <1>4, <1>8
  <2>2. /\ e \in Buffers /\ e.data = q.data /\ e.buffered = q.buffered
        /\ e.begin = 0 /\ e.cap = cap
    BY <1>1, <1>6, <2>1 DEF Buffers
  <2>3. e.begin + used + size <= e.cap
    BY <1>3, <1>6, <2>2
  <2>4. QED
    BY <2>2, <2>3 DEF e, used
<1>9. QED
  BY <1>7, <1>8

\* What a device took of the data, and what is left, are what was put.
LEMMA SplitIs ==
  ASSUME NEW E, NEW p \in Seq(E), NEW q \in Seq(E), NEW n \in 0..Len(q)
  PROVE  /\ p \o SubSeq(q, 1, n) \in Seq(E) /\ Len(p \o SubSeq(q, 1, n)) = Len(p) + n
         /\ (p \o SubSeq(q, 1, n)) \o IO!Drop(q, n) = p \o q
<1> DEFINE h == SubSeq(q, 1, n)
           x == IO!Drop(q, n)
<1>1. /\ h \in Seq(E) /\ Len(h) = n /\ \A i \in 1..n : h[i] = q[i]
      /\ x \in Seq(E) /\ Len(x) = Len(q) - n /\ \A i \in 1..(Len(q) - n) : x[i] = q[n + i]
  BY DropIs
<1> HIDE DEF h, x
<1>2. p \o h \in Seq(E) /\ Len(p \o h) = Len(p) + n
  <2>1. p \o h \in Seq(E) /\ Len(p \o h) = Len(p) + Len(h)
    BY <1>1, JoinIs
  <2>2. QED
    BY <1>1, <2>1
<1>3. h \o x = q
  <2>0. /\ h \o x \in Seq(E) /\ Len(h \o x) = Len(h) + Len(x)
        /\ \A i \in 1..Len(h) : (h \o x)[i] = h[i]
        /\ \A i \in 1..Len(x) : (h \o x)[Len(h) + i] = x[i]
    BY <1>1, JoinIs
  <2>1. h \o x \in Seq(E) /\ Len(h \o x) = Len(q)
    BY <1>1, <2>0
  <2>2. ASSUME NEW i \in 1..Len(q) PROVE (h \o x)[i] = q[i]
    <3>1. CASE i <= n
      <4>1. i \in 1..n
        BY <3>1
      <4>2. (h \o x)[i] = h[i]
        BY <1>1, <2>0, <4>1
      <4>3. QED
        BY <1>1, <4>1, <4>2
    <3>2. CASE i > n
      <4>1. i - n \in 1..(Len(q) - n) /\ n + (i - n) = i
        BY <3>2
      <4>2. (h \o x)[n + (i - n)] = x[i - n]
        BY <1>1, <2>0, <4>1
      <4>3. QED
        BY <1>1, <4>1, <4>2
    <3>3. i <= n \/ i > n
      OBVIOUS
    <3>4. QED
      BY <3>1, <3>2, <3>3
  <2>3. QED
    BY <2>1, <2>2, SameSequence
<1>4. (p \o h) \o x = p \o (h \o x)
  BY <1>1, SMTT(30)
<1>5. QED
  BY <1>2, <1>3, <1>4 DEF h, x

\* What is shown is the first part of what is shown and what is still to be.
LEMMA PrefixIs ==
  ASSUME NEW E, NEW p \in Seq(E), NEW q \in Seq(E), NEW r \in Seq(E), p \o q = r
  PROVE  IO!Prefix(p, r)
<1>1. Len(r) = Len(p) + Len(q) /\ Len(p) \in Nat /\ Len(q) \in Nat
  OBVIOUS
<1>2. SubSeq(r, 1, Len(p)) \in Seq(E) /\ Len(SubSeq(r, 1, Len(p))) = Len(p)
      /\ \A i \in 1..Len(p) : SubSeq(r, 1, Len(p))[i] = r[i]
  <2>1. Len(p) \in 0..Len(r)
    BY <1>1
  <2>2. QED
    BY <2>1, DropIs
<1>3. \A i \in 1..Len(p) : r[i] = p[i]
  OBVIOUS
<1>4. SubSeq(r, 1, Len(p)) = p
  BY <1>2, <1>3, SameSequence
<1>5. QED
  BY <1>1, <1>4 DEF IO!Prefix

\* A flush shows some of the data and keeps the rest.
Flushed(s, q, p, n) ==
  /\ n \in 0..Len(q.data)
  /\ IO!Discard(s, q, n) \in Buffers /\ InPlace(s, IO!Discard(s, q, n))
  /\ IO!Discard(s, q, n).buffered = q.buffered
  /\ p \o SubSeq(q.data, 1, n) \in Seq(Unit2)
  /\ Len(p) <= Len(p \o SubSeq(q.data, 1, n))
  /\ (p \o SubSeq(q.data, 1, n)) \o IO!Discard(s, q, n).data = p \o q.data

\* A flush that shows n units does that.
LEMMA FlushIs ==
  ASSUME NEW s, NEW q \in Buffers, InPlace(s, q), NEW p \in Seq(Unit2),
         NEW threshold, NEW n \in IO!Flushable(s, q, threshold)
  PROVE  Flushed(s, q, p, n)
<1>1. q.data \in Seq(Unit2) /\ Len(q.data) \in Nat
  BY DEF Buffers
<1>2. n \in 0..Len(q.data)
  BY <1>1 DEF IO!Flushable
<1>3. /\ IO!Discard(s, q, n) \in Buffers /\ InPlace(s, IO!Discard(s, q, n))
      /\ IO!Discard(s, q, n).data = IO!Drop(q.data, n)
      /\ IO!Discard(s, q, n).buffered = q.buffered
  BY <1>2, DiscardIs
<1>4. /\ p \o SubSeq(q.data, 1, n) \in Seq(Unit2)
      /\ Len(p \o SubSeq(q.data, 1, n)) = Len(p) + n
      /\ (p \o SubSeq(q.data, 1, n)) \o IO!Drop(q.data, n) = p \o q.data
  BY <1>1, <1>2, SplitIs, ZenonT(30)
<1>5. Len(p) <= Len(p) + n
  BY <1>1, <1>2
<1>6. QED
  BY <1>2, <1>3, <1>4, <1>5 DEF Flushed

\* What is put takes no more than the room that was reserved for it.
LEMMA PutIs ==
  ASSUME CallsAreKnown, NEW w \in Writes, NEW s, console[s] \in BOOLEAN
  PROVE  /\ IO!Put(s, w) \in Seq(Unit2) /\ IO!Room(s, w) \in Nat
         /\ IO!Unit(s) * Len(IO!Put(s, w)) <= IO!Room(s, w)
<1> DEFINE wide == console[s]
           put == IO!Put(s, w)
           room == IO!Room(s, w)
           k == IO!Unit(s)
<1>1. /\ w.what \in {"byte", "binary", "char", "text"} /\ w.line \in BOOLEAN
      /\ w.what = "char" => w.data \in Seq(IO!CodePoints)
      /\ w.what # "char" => w.data \in Seq(Unit2)
      /\ w.what \in {"byte", "char"} => Len(w.data) = 1
  BY DEF CallsAreKnown, Unit2
<1>2. k = (IF wide THEN 2 ELSE 1) /\ wide \in BOOLEAN
  BY DEF IO!Unit
<1>3. CASE w.what = "byte"
  <2>1. put = w.data /\ room = k
    BY <1>3 DEF IO!Put, IO!Room
  <2>2. w.data \in Seq(Unit2) /\ Len(w.data) = 1
    BY <1>1, <1>3
  <2>3. k \in {1, 2} /\ k * 1 = k
    BY <1>2
  <2> HIDE DEF put, room, k
  <2>4. put \in Seq(Unit2) /\ room \in Nat /\ k * Len(put) <= room
    BY <2>1, <2>2, <2>3
  <2>5. QED
    BY <2>4 DEF put, room, k
<1>4. CASE w.what = "binary"
  <2>1. room = k * Len(w.data)
    BY <1>4 DEF IO!Room
  <2>2. put = IF wide THEN IO!Recode(w.data, FALSE, TRUE) ELSE w.data
    BY <1>4 DEF IO!Put
  <2>3. w.data \in Seq(Unit2) /\ Len(w.data) \in Nat
    BY <1>1, <1>4
  <2>4. /\ IO!Recode(w.data, FALSE, TRUE) \in Seq(Unit2)
        /\ Len(IO!Recode(w.data, FALSE, TRUE)) <= Len(w.data)
    BY <2>3, RecodeIs
  <2>6. put \in Seq(Unit2) /\ Len(put) <= Len(w.data)
    <3>1. CASE wide
      <4>1. put = IO!Recode(w.data, FALSE, TRUE)
        BY <2>2, <3>1
      <4>2. QED
        BY <2>4, <4>1
    <3>2. CASE ~wide
      BY <2>2, <2>3, <3>2
    <3>3. QED
      BY <3>1, <3>2
  <2> HIDE DEF put, k, room
  <2>7. k \in {1, 2} /\ Len(put) \in Nat
    BY <1>2, <2>6
  <2>8. k * Len(put) <= k * Len(w.data) /\ k * Len(w.data) \in Nat
    BY <2>3, <2>6, <2>7
  <2>9. QED
    BY <2>1, <2>6, <2>8 DEF put, k, room
<1>5. CASE w.what = "char"
  <2>1. put = IO!EncodeAll(w.data, wide) /\ room = 4
    BY <1>5 DEF IO!Put, IO!Room
  <2>2. /\ IO!EncodeAll(w.data, wide) \in Seq(Unit2)
        /\ Len(IO!EncodeAll(w.data, wide)) = IO!Width(w.data[1], wide)
    BY <1>1, <1>2, <1>5, EncodeOne
  <2>3. IO!Width(w.data[1], wide) \in 1..4 /\ (wide => IO!Width(w.data[1], wide) <= 2)
    BY DEF IO!Width
  <2>4. QED
    BY <1>2, <2>1, <2>2, <2>3
<1>6. CASE w.what = "text"
  <2> DEFINE c == IO!Recode(w.data, TRUE, wide)
             n == IF w.line THEN <<<<"n", 1>>>> ELSE <<>>
  <2>1. put = c \o n /\ room = IF wide THEN 2 * (Len(w.data) + 1) ELSE 6 * Len(w.data) + 1
    BY <1>6 DEF IO!Put, IO!Room
  <2>2. w.data \in Seq(Unit2) /\ Len(w.data) \in Nat
    BY <1>1, <1>6
  <2>3. c \in Seq(Unit2) /\ Len(c) <= IF wide THEN Len(w.data) ELSE 6 * Len(w.data)
    BY <1>2, <2>2, RecodeIs
  <2>4. n \in Seq(Unit2) /\ Len(n) \in Nat /\ Len(n) <= 1
    <3>1. <<"n", 1>> \in Unit2
      BY DEF Unit2, IO!CodePoints
    <3>2. <<<<"n", 1>>>> \in Seq(Unit2) /\ <<>> \in Seq(Unit2)
      BY <3>1
    <3>3. QED
      BY <3>2
  <2> HIDE DEF c, n
  <2>6. put \in Seq(Unit2) /\ Len(put) = Len(c) + Len(n) /\ Len(c) \in Nat
    BY <2>1, <2>3, <2>4
  <2> HIDE DEF put, room
  <2>7. CASE wide
    BY <1>2, <2>1, <2>2, <2>3, <2>4, <2>6, <2>7 DEF put, room
  <2>8. CASE ~wide
    <3>1. k = 1 /\ room = 6 * Len(w.data) + 1 /\ Len(c) <= 6 * Len(w.data)
      BY <1>2, <2>1, <2>3, <2>8 DEF put, room
    <3> HIDE DEF k
    <3>2. put \in Seq(Unit2) /\ room \in Nat /\ k * Len(put) <= room
      <4>1. Len(put) \in Nat /\ Len(put) <= room
        <5> DEFINE lw == Len(w.data)
                   lp == Len(put)
                   lc == Len(c)
                   ln == Len(n)
        <5>1. /\ lw \in Nat /\ lc \in Nat /\ ln \in Nat /\ ln <= 1 /\ lp = lc + ln
              /\ room = 6 * lw + 1 /\ lc <= 6 * lw
          <6>1. lw \in Nat
            BY <2>2
          <6>2. lc \in Nat /\ lp = lc + ln
            BY <2>6
          <6>3. ln \in Nat /\ ln <= 1
            BY <2>4
          <6>4. room = 6 * lw + 1 /\ lc <= 6 * lw
            BY <3>1
          <6>5. QED
            BY <6>1, <6>2, <6>3, <6>4
        <5> HIDE DEF lw, lp, lc, ln
        <5>2. lp \in Nat /\ lp <= room
          BY <5>1
        <5>3. QED
          BY <5>2 DEF lp
      <4>2. k * Len(put) = Len(put) /\ room \in Nat
        BY <2>2, <3>1, <4>1
      <4>3. QED
        BY <2>6, <4>1, <4>2
    <3>3. QED
      BY <3>2 DEF put, room, k
  <2>9. QED
    BY <2>7, <2>8
<1>7. QED
  BY <1>1, <1>3, <1>4, <1>5, <1>6

\* What a thread is doing between the two halves of a call.
Calls == [at : {"error", "lock", "input"}, what : Writes \cup Reads, threshold : Nat,
          told : Nat, flushed : BOOLEAN]

\* The outputs: what is shown, and while the streams are up what is still in the buffer,
\* is what was accepted.
OutputOk(s) ==
  /\ stream[s] \in Buffers /\ InPlace(s, stream[s])
  /\ IO!Prefix(shown[s], accepted[s])
  /\ up => shown[s] \o stream[s].data = accepted[s]
OutputsOk ==
  /\ stream = [s \in IO!Streams |-> stream[s]]
  /\ shown \in [IO!Outputs -> Seq(Unit2)] /\ accepted \in [IO!Outputs -> Seq(Unit2)]
  /\ \A s \in IO!Outputs : OutputOk(s)

\* What a thread was told is shown was shown.
CallsOk ==
  /\ pc \in [Threads -> Calls \cup {IO!Idle}]
  /\ \A t \in Threads : /\ pc[t].at = "error" => pc[t].what \in Writes
                        /\ pc[t] # IO!Idle /\ pc[t].flushed => Len(shown["out"]) >= pc[t].told

\* The outputs and the calls under way.
OutInv == /\ console \in [IO!Streams -> BOOLEAN] /\ up \in BOOLEAN
          /\ OutputsOk /\ CallsOk

\* A step that changes an output, and not the input.
OutputsMove == /\ OutputsOk' /\ stream'["in"] = stream["in"]
               /\ Len(shown'["out"]) >= Len(shown["out"])

\* An output shows p, has q in its buffer and has accepted both.
Becomes(s, p, q) ==
  /\ stream' = [stream EXCEPT ![s] = q] /\ shown' = [shown EXCEPT ![s] = p]
  /\ accepted' = [accepted EXCEPT ![s] = p \o q.data]

\* Such a step keeps what is said of the outputs, and shows no less than before.
LEMMA OutputMoves ==
  ASSUME OutInv, UNCHANGED <<console, up>>, NEW s \in IO!Outputs,
         NEW e \in Buffers, InPlace(s, e), NEW p \in Seq(Unit2),
         Len(shown[s]) <= Len(p), Becomes(s, p, e)
  PROVE  OutputsMove
<1>1. /\ stream = [x \in IO!Streams |-> stream[x]]
      /\ shown \in [IO!Outputs -> Seq(Unit2)] /\ accepted \in [IO!Outputs -> Seq(Unit2)]
      /\ \A x \in IO!Outputs : OutputOk(x)
  BY DEF OutInv, OutputsOk
<1>2. /\ stream' = [stream EXCEPT ![s] = e] /\ shown' = [shown EXCEPT ![s] = p]
      /\ accepted' = [accepted EXCEPT ![s] = p \o e.data]
  BY DEF Becomes
<1>3. e \in Buffers /\ InPlace(s, e) /\ p \in Seq(Unit2) /\ Len(shown[s]) <= Len(p)
  OBVIOUS
<1>4. s \in IO!Streams /\ "in" # s /\ "in" \in IO!Streams /\ IO!Outputs \subseteq IO!Streams
      /\ "out" \in IO!Outputs
  BY DEF IO!Streams, IO!Outputs
<1>5. /\ stream' = [x \in IO!Streams |-> IF x = s THEN e ELSE stream[x]]
      /\ shown' = [x \in IO!Outputs |-> IF x = s THEN p ELSE shown[x]]
      /\ accepted' = [x \in IO!Outputs |-> IF x = s THEN p \o e.data ELSE accepted[x]]
  BY <1>1, <1>2, <1>4
<1>6. /\ stream' = [x \in IO!Streams |-> stream'[x]]
      /\ stream'["in"] = stream["in"]
      /\ stream'[s] = e /\ shown'[s] = p /\ accepted'[s] = p \o e.data
      /\ \A x \in IO!Outputs \ {s} :
            stream'[x] = stream[x] /\ shown'[x] = shown[x] /\ accepted'[x] = accepted[x]
  BY <1>3, <1>4, <1>5
<1>7. \A x, z : InPlace(x, z) => (z.begin + IO!Unit(x)' * Len(z.data) <= z.cap)
  BY DEF InPlace, IO!Unit
<1>8. ASSUME NEW x \in IO!Outputs PROVE OutputOk(x)'
  <2>1. CASE x = s
    <3>1. e.data \in Seq(Unit2)
      BY <1>3 DEF Buffers
    <3>2. p \o e.data \in Seq(Unit2)
      BY <1>3, <3>1, JoinIs
    <3>3. IO!Prefix(p, p \o e.data)
      BY <1>3, <3>1, <3>2, PrefixIs
    <3>4. IO!Prefix(shown'[x], accepted'[x]) /\ InPlace(x, stream[x])'
      BY <1>3, <1>6, <1>7, <2>1, <3>3 DEF InPlace
    <3>5. QED
      BY <1>3, <1>6, <2>1, <3>2, <3>4 DEF OutputOk, IO!Prefix
  <2>2. CASE x # s
    <3>1. /\ stream'[x] = stream[x] /\ shown'[x] = shown[x] /\ accepted'[x] = accepted[x]
          /\ OutputOk(x) /\ (InPlace(x, stream[x]))'
      BY <1>1, <1>6, <1>7, <2>2 DEF OutputOk, InPlace
    <3>2. QED
      BY <3>1 DEF OutputOk, IO!Prefix
  <2>3. QED
    BY <2>1, <2>2
<1>8a. shown' \in [IO!Outputs -> Seq(Unit2)] /\ accepted' \in [IO!Outputs -> Seq(Unit2)]
  <2>1. p \o e.data \in Seq(Unit2)
    BY <1>3, JoinIs DEF Buffers
  <2>2. QED
    BY <1>1, <1>3, <1>5, <2>1
<1>9. Len(shown'["out"]) >= Len(shown["out"])
  <2>1. Len(shown["out"]) \in Nat
    BY <1>1, <1>4
  <2>2. CASE s = "out"
    <3>1. shown'["out"] = p /\ shown[s] = shown["out"] /\ Len(p) \in Nat
      BY <1>3, <1>6, <2>2
    <3>2. QED
      BY <1>3, <2>1, <2>2, <3>1
  <2>3. CASE s # "out"
    BY <1>4, <1>6, <2>1, <2>3
  <2>4. QED
    BY <2>2, <2>3
<1>10. QED
  BY <1>6, <1>8, <1>8a, <1>9 DEF OutputsMove, OutputsOk

\* What was shown and what the buffer q holds are what was accepted.
Accepts(s, q) == accepted' = [accepted EXCEPT ![s] = shown[s] \o q.data]

\* A flush of a buffer, of which what was shown and what it holds were accepted.
LEMMA FlushesKeep ==
  ASSUME OutInv, UNCHANGED <<console, up>>, NEW s \in IO!Outputs,
         NEW q \in Buffers, InPlace(s, q), NEW threshold, IO!FlushesTo(s, q, threshold),
         Accepts(s, q)
  PROVE  OutputsMove
<1>1. PICK n \in IO!Flushable(s, q, threshold) :
        /\ stream' = [stream EXCEPT ![s] = IO!Discard(s, q, n)]
        /\ shown' = [shown EXCEPT ![s] = shown[s] \o SubSeq(q.data, 1, n)]
  BY DEF IO!FlushesTo
<1>2. Flushed(s, q, shown[s], n)
  <2>1. shown[s] \in Seq(Unit2)
    BY DEF OutInv, OutputsOk
  <2>2. QED
    BY <2>1, FlushIs
<1> DEFINE e == IO!Discard(s, q, n)
           p == shown[s] \o SubSeq(q.data, 1, n)
<1>3. Becomes(s, p, e)
  BY <1>1, <1>2 DEF Flushed, Becomes, Accepts
<1>4. e \in Buffers /\ InPlace(s, e) /\ p \in Seq(Unit2) /\ Len(shown[s]) <= Len(p)
  BY <1>2 DEF Flushed
<1> HIDE DEF e, p
<1>5. QED
  BY <1>3, <1>4, OutputMoves

\* A flush of what is in a buffer.
LEMMA FlushKeeps ==
  ASSUME OutInv, up, UNCHANGED <<console, up, accepted>>, NEW s \in IO!Outputs,
         NEW threshold, IO!FlushesTo(s, stream[s], threshold)
  PROVE  OutputsMove
<1>1. OutputOk(s) /\ accepted \in [IO!Outputs -> Seq(Unit2)]
  BY DEF OutInv, OutputsOk
<1>2. /\ stream[s] \in Buffers /\ InPlace(s, stream[s])
      /\ accepted[s] = shown[s] \o stream[s].data
  BY <1>1 DEF OutputOk
<1>3. [accepted EXCEPT ![s] = accepted[s]] = accepted
  BY <1>1
<1>4. Accepts(s, stream[s])
  BY <1>2, <1>3 DEF Accepts
<1>5. QED
  BY <1>2, <1>4, FlushesKeep

\* A write puts what it writes behind what is in the buffer, or nothing.
LEMMA WriteKeeps ==
  ASSUME CallsAreKnown, OutInv, up, UNCHANGED <<console, up>>, NEW s \in IO!Outputs,
         NEW w \in Writes, IO!Write(s, w)
  PROVE  OutputsMove
<1> DEFINE q == stream[s]
           threshold == IF q.buffered THEN FLUSH_THRESHOLD ELSE 0
           put == IO!Put(s, w)
           room == IO!Room(s, w)
           wider == IO!ReserveMore(s, q, room)
           full == [wider EXCEPT !.data = wider.data \o put]
<1>1. \/ /\ IO!FlushesTo(s, full, threshold)
         /\ accepted' = [accepted EXCEPT ![s] = accepted[s] \o put]
      \/ IO!FlushesTo(s, q, threshold) /\ UNCHANGED accepted
  BY DEF IO!Write
<1>2. /\ q \in Buffers /\ InPlace(s, q) /\ shown \in [IO!Outputs -> Seq(Unit2)]
      /\ accepted[s] = shown[s] \o q.data
  BY DEF OutInv, OutputsOk, OutputOk
<1>3. put \in Seq(Unit2) /\ room \in Nat /\ IO!Unit(s) * Len(put) <= room
  <2>1. console[s] \in BOOLEAN
    BY DEF OutInv, IO!Streams
  <2>2. QED
    BY <2>1, PutIs
<1> HIDE DEF q, threshold, put, room
<1>4. /\ wider \in Buffers /\ wider.data = q.data
      /\ wider.begin + IO!Unit(s) * Len(q.data) + room <= wider.cap
  BY <1>2, <1>3, ReserveIs
<1> HIDE DEF wider
<1>5. q.data \in Seq(Unit2) /\ q.data \o put \in Seq(Unit2) /\ Len(q.data \o put) = Len(q.data) + Len(put)
  <2>1. q.data \in Seq(Unit2)
    BY <1>2 DEF Buffers
  <2>2. QED
    BY <1>3, <2>1, JoinIs
<1>6. full \in Buffers /\ full.data = q.data \o put /\ full.begin = wider.begin /\ full.cap = wider.cap
  BY <1>4, <1>5 DEF Buffers
<1>7. InPlace(s, full)
  <2> DEFINE k == IO!Unit(s)
             m == Len(q.data)
             n == Len(put)
  <2>1. k \in {1, 2} /\ m \in Nat /\ n \in Nat /\ wider.begin \in Nat /\ wider.cap \in Nat
    BY <1>3, <1>4, <1>5, UnitIs DEF Buffers
  <2>2. wider.begin + k * m + room <= wider.cap /\ k * n <= room
    BY <1>3, <1>4
  <2>3. Len(full.data) = m + n
    BY <1>5, <1>6
  <2> HIDE DEF k, m, n
  <2>4. wider.begin + k * (m + n) <= wider.cap
    <3>1. CASE k = 1
      BY <1>3, <2>1, <2>2, <3>1
    <3>2. CASE k = 2
      BY <1>3, <2>1, <2>2, <3>2
    <3>3. QED
      BY <2>1, <3>1, <3>2
  <2>5. QED
    BY <1>6, <2>3, <2>4 DEF InPlace, k
<1>8. shown[s] \o full.data = accepted[s] \o put
  <2>1. shown[s] \o (q.data \o put) = (shown[s] \o q.data) \o put
    <3>1. PICK old \in Seq(Unit2) : old = shown[s]
      BY <1>2
    <3>2. PICK held \in Seq(Unit2) : held = q.data
      BY <1>2 DEF Buffers
    <3>3. (old \o held) \o put = old \o (held \o put)
      <4>1. put \in Seq(Unit2)
        BY <1>3
      <4>2. QED
        BY <4>1, JoinsAre
    <3>4. QED
      BY <3>1, <3>2, <3>3
  <2>2. QED
    BY <1>2, <1>6, <2>1
<1> HIDE DEF full
<1>9. CASE IO!FlushesTo(s, full, threshold) /\ accepted' = [accepted EXCEPT ![s] = accepted[s] \o put]
  <2>1. Accepts(s, full)
    BY <1>8, <1>9 DEF Accepts
  <2>2. QED
    BY <1>6, <1>7, <1>9, <2>1, FlushesKeep
<1>10. CASE IO!FlushesTo(s, q, threshold) /\ UNCHANGED accepted
  BY <1>10, FlushKeeps DEF q
<1>11. QED
  BY <1>1, <1>9, <1>10

\* What is shown stays shown.
LEMMA CallsStay ==
  ASSUME CallsOk, Len(shown["out"]) \in Nat, Len(shown'["out"]) \in Nat,
         Len(shown'["out"]) >= Len(shown["out"]), UNCHANGED pc
  PROVE  CallsOk'
<1>1. \A t \in Threads : pc[t] # IO!Idle => pc[t].told \in Nat
  BY DEF CallsOk, Calls
<1>2. \A t \in Threads : pc[t] # IO!Idle /\ pc[t].flushed => Len(shown'["out"]) >= pc[t].told
  BY <1>1 DEF CallsOk
<1>3. QED
  BY <1>2 DEF CallsOk, Calls, IO!Idle

\* A call ends.
LEMMA CallEnds ==
  ASSUME CallsOk, Len(shown["out"]) \in Nat, Len(shown'["out"]) \in Nat,
         Len(shown'["out"]) >= Len(shown["out"]),
         NEW t \in Threads, pc' = [pc EXCEPT ![t] = IO!Idle]
  PROVE  CallsOk'
<1>1. pc \in [Threads -> Calls \cup {IO!Idle}]
  BY DEF CallsOk
<1>2. pc' \in [Threads -> Calls \cup {IO!Idle}]
      /\ \A u \in Threads : pc'[u] = IF u = t THEN IO!Idle ELSE pc[u]
  BY <1>1
<1>3. IO!Idle.at = "idle" /\ IO!Idle.at # "error"
  BY DEF IO!Idle
<1>4. \A u \in Threads : pc[u] # IO!Idle => pc[u].told \in Nat
  BY <1>1 DEF Calls
<1>5. \A u \in Threads : pc'[u] # IO!Idle /\ pc'[u].flushed => Len(shown'["out"]) >= pc'[u].told
  BY <1>2, <1>4 DEF CallsOk
<1>6. \A u \in Threads : pc'[u].at = "error" => pc'[u].what \in Writes
  BY <1>2, <1>3 DEF CallsOk
<1>7. QED
  BY <1>2, <1>5, <1>6 DEF CallsOk, Calls, IO!Idle

\* A call begins: it flushes the output, and knows whether all of it is shown.
LEMMA CallBegins ==
  ASSUME OutInv, NEW t \in Threads, NEW at \in {"error", "lock"}, NEW what \in Writes \cup Reads,
         at = "error" => what \in Writes, IO!FlushBefore(t, at, what)
  PROVE  OutInv'
<1>1. /\ up /\ UNCHANGED <<console, up, accepted>> /\ IO!FlushesTo("out", stream["out"], 0)
      /\ pc' = [pc EXCEPT ![t] = [at |-> at, what |-> what, threshold |-> 1,
                                  told |-> Len(accepted["out"]),
                                  flushed |-> stream'["out"].data = <<>>]]
  BY DEF IO!FlushBefore, IO!Starts
<1>2. "out" \in IO!Outputs
  BY DEF IO!Outputs
<1>3. OutputsMove
  BY <1>1, <1>2, FlushKeeps
<1>4. /\ OutputOk("out")' /\ shown \in [IO!Outputs -> Seq(Unit2)]
      /\ shown' \in [IO!Outputs -> Seq(Unit2)] /\ accepted \in [IO!Outputs -> Seq(Unit2)]
  BY <1>2, <1>3 DEF OutputsMove, OutputsOk, OutInv
<1>5. Len(shown["out"]) \in Nat /\ Len(shown'["out"]) \in Nat /\ Len(accepted["out"]) \in Nat
  BY <1>2, <1>4
<1>6. stream'["out"].data = <<>> => Len(shown'["out"]) = Len(accepted["out"])
  <2>1. ASSUME stream'["out"].data = <<>> PROVE shown'["out"] \o <<>> = accepted["out"]
    <3>1. up' /\ accepted' = accepted
      BY <1>1
    <3>2. shown'["out"] \o stream'["out"].data = accepted'["out"]
      BY <1>4, <3>1 DEF OutputOk
    <3>3. QED
      BY <2>1, <3>1, <3>2
  <2>2. shown'["out"] \o <<>> = shown'["out"]
    BY <1>2, <1>4
  <2>3. QED
    BY <2>1, <2>2
<1> DEFINE new == [at |-> at, what |-> what, threshold |-> 1, told |-> Len(accepted["out"]),
                   flushed |-> stream'["out"].data = <<>>]
<1>7. /\ new \in Calls /\ new.at = at /\ new.what = what /\ new.told = Len(accepted["out"])
      /\ new.flushed <=> stream'["out"].data = <<>>
  <2>1. (stream'["out"].data = <<>>) \in BOOLEAN
    OBVIOUS
  <2>2. QED
    BY <1>5, <2>1 DEF Calls
<1>8. pc' = [pc EXCEPT ![t] = new] /\ pc \in [Threads -> Calls \cup {IO!Idle}]
  BY <1>1 DEF OutInv, CallsOk
<1> HIDE DEF new
<1>9. /\ pc' \in [Threads -> Calls \cup {IO!Idle}]
      /\ \A u \in Threads : pc'[u] = IF u = t THEN new ELSE pc[u]
  BY <1>7, <1>8
<1>10. ASSUME NEW u \in Threads
       PROVE  /\ pc'[u].at = "error" => pc'[u].what \in Writes
              /\ pc'[u] # IO!Idle /\ pc'[u].flushed => Len(shown'["out"]) >= pc'[u].told
  <2>1. CASE u = t
    <3>1. pc'[u] = new
      BY <1>9, <2>1
    <3>2. new.flushed => Len(shown'["out"]) >= new.told
      BY <1>5, <1>6, <1>7
    <3>3. new.at = "error" => new.what \in Writes
      BY <1>7
    <3>4. QED
      BY <3>1, <3>2, <3>3
  <2>2. CASE u # t
    <3>1. pc'[u] = pc[u] /\ (pc[u] # IO!Idle => pc[u].told \in Nat)
      BY <1>8, <1>9, <2>2 DEF Calls
    <3>2. Len(shown'["out"]) >= Len(shown["out"])
      BY <1>3 DEF OutputsMove
    <3>3. /\ pc[u].at = "error" => pc[u].what \in Writes
          /\ pc[u] # IO!Idle /\ pc[u].flushed => Len(shown["out"]) >= pc[u].told
      BY DEF OutInv, CallsOk
    <3>4. QED
      BY <1>5, <3>1, <3>2, <3>3
  <2>3. QED
    BY <2>1, <2>2
<1>11. CallsOk'
  BY <1>9, <1>10 DEF CallsOk, Calls, IO!Idle
<1>12. QED
  BY <1>1, <1>3, <1>11 DEF OutInv, OutputsMove, IO!Streams, IO!Outputs

\* What is done with the input leaves the outputs as they are.
LEMMA OutputsStay ==
  ASSUME OutInv, UNCHANGED <<console, up, shown, accepted>>,
         stream' = [stream EXCEPT !["in"] = stream'["in"]]
  PROVE  OutputsOk'
<1>1. /\ stream = [x \in IO!Streams |-> stream[x]] /\ \A x \in IO!Outputs : OutputOk(x)
      /\ shown \in [IO!Outputs -> Seq(Unit2)] /\ accepted \in [IO!Outputs -> Seq(Unit2)]
  BY DEF OutInv, OutputsOk
<1>2. "in" \in IO!Streams /\ \A x \in IO!Outputs : x # "in" /\ x \in IO!Streams
  BY DEF IO!Streams, IO!Outputs
<1>3. /\ stream' = [x \in IO!Streams |-> stream'[x]]
      /\ \A x \in IO!Outputs : stream'[x] = stream[x]
  BY <1>1, <1>2
<1>4. \A x, z : InPlace(x, z) => (z.begin + IO!Unit(x)' * Len(z.data) <= z.cap)
  BY DEF InPlace, IO!Unit
<1>5. ASSUME NEW x \in IO!Outputs PROVE OutputOk(x)'
  <2>1. stream'[x] = stream[x] /\ OutputOk(x)
    BY <1>1, <1>3
  <2>2. InPlace(x, stream[x])'
    BY <1>4, <2>1 DEF OutputOk, InPlace
  <2>3. QED
    BY <2>1, <2>2 DEF OutputOk, IO!Prefix
<1>6. QED
  BY <1>1, <1>3, <1>5 DEF OutputsOk

\* The lengths of what is shown.
LEMMA ShownIs ==
  ASSUME OutputsOk PROVE Len(shown["out"]) \in Nat
BY DEF OutputsOk, IO!Outputs

\* Unbuffered output is flushed.
LEMMA BufferedKeeps ==
  ASSUME OutInv, NEW t \in Threads, NEW flag \in BOOLEAN, IO!SetStandardOutputBuffered(t, flag)
  PROVE  OutputsMove
<1> DEFINE q == stream["out"]
<1>1. PICK n \in IF flag THEN {0} ELSE IO!Flushable("out", stream["out"], 0) :
        /\ stream' = [stream EXCEPT !["out"] = [IO!Discard("out", stream["out"], n) EXCEPT !.buffered = flag]]
        /\ shown' = [shown EXCEPT !["out"] = shown["out"] \o SubSeq(stream["out"].data, 1, n)]
  BY DEF IO!SetStandardOutputBuffered
<1>2. UNCHANGED <<console, up, accepted>> /\ up
  BY DEF IO!SetStandardOutputBuffered, IO!Starts
<1>3. "out" \in IO!Outputs
  BY DEF IO!Outputs
<1>4. OutputOk("out")
  BY <1>3 DEF OutInv, OutputsOk
<1>5. /\ shown \in [IO!Outputs -> Seq(Unit2)] /\ accepted \in [IO!Outputs -> Seq(Unit2)]
  BY DEF OutInv, OutputsOk
<1>6. q \in Buffers /\ InPlace("out", q) /\ accepted["out"] = shown["out"] \o q.data
  BY <1>2, <1>4 DEF OutputOk
<1>7. n \in IO!Flushable("out", q, 0)
  <2>1. q.data \in Seq(Unit2)
    BY <1>6 DEF Buffers
  <2>2. 0 \in IO!Flushable("out", q, 0)
    BY <2>1 DEF IO!Flushable
  <2>3. QED
    BY <1>1, <2>2
<1> HIDE DEF q
<1>8. Flushed("out", q, shown["out"], n)
  <2>1. shown["out"] \in Seq(Unit2)
    BY <1>3, <1>5
  <2>2. QED
    BY <1>6, <1>7, <2>1, FlushIs
<1> DEFINE d == IO!Discard("out", q, n)
           e == [d EXCEPT !.buffered = flag]
           p == shown["out"] \o SubSeq(q.data, 1, n)
<1>9. d \in Buffers /\ InPlace("out", d) /\ p \in Seq(Unit2) /\ Len(shown["out"]) <= Len(p)
      /\ p \o d.data = accepted["out"]
  BY <1>6, <1>8 DEF Flushed
<1>10. stream' = [stream EXCEPT !["out"] = e] /\ shown' = [shown EXCEPT !["out"] = p]
  BY <1>1 DEF q
<1> HIDE DEF d, p
<1>11. e \in Buffers /\ e.data = d.data /\ InPlace("out", e)
  BY <1>9 DEF Buffers, InPlace
<1> HIDE DEF e
<1>12. accepted' = [accepted EXCEPT !["out"] = p \o e.data]
  BY <1>2, <1>5, <1>9, <1>11
<1>13. Becomes("out", p, e)
  BY <1>10, <1>12 DEF Becomes
<1>14. QED
  BY <1>2, <1>3, <1>9, <1>11, <1>13, OutputMoves

\* The end of all streams shows some of what the outputs had.
LEMMA UninitKeeps ==
  ASSUME OutInv, IO!StandardStreamsUninit PROVE OutInv'
<1>1. PICK n \in IO!Flushable("out", stream["out"], 0), m \in IO!Flushable("err", stream["err"], 0) :
        shown' = [s \in IO!Outputs |->
                    shown[s] \o SubSeq(stream[s].data, 1, IF s = "out" THEN n ELSE m)]
  BY DEF IO!StandardStreamsUninit
<1>2. /\ up /\ up' = FALSE /\ UNCHANGED <<console, accepted>>
      /\ stream' = [s \in IO!Streams |-> IO!Empty(FALSE)]
      /\ pc' = [t \in Threads |-> IO!Idle]
  BY DEF IO!StandardStreamsUninit
<1>3. /\ \A s \in IO!Outputs : OutputOk(s) /\ s \in IO!Streams
      /\ shown \in [IO!Outputs -> Seq(Unit2)] /\ accepted \in [IO!Outputs -> Seq(Unit2)]
  BY DEF OutInv, OutputsOk, IO!Streams
<1>4. ASSUME NEW s \in IO!Outputs
      PROVE  shown'[s] \in Seq(Unit2) /\ OutputOk(s)'
  <2> DEFINE k == IF s = "out" THEN n ELSE m
             q == stream[s]
  <2>1. shown'[s] = shown[s] \o SubSeq(q.data, 1, k)
    BY <1>1
  <2>2. k \in IO!Flushable(s, q, 0)
    BY DEF IO!Outputs
  <2>3. q \in Buffers /\ InPlace(s, q) /\ accepted[s] = shown[s] \o q.data
    BY <1>2, <1>3 DEF OutputOk
  <2> HIDE DEF k, q
  <2>4. Flushed(s, q, shown[s], k)
    <3>1. shown[s] \in Seq(Unit2)
      BY <1>3
    <3>2. QED
      BY <2>2, <2>3, <3>1, FlushIs
  <2> DEFINE p == shown[s] \o SubSeq(q.data, 1, k)
             r == IO!Discard(s, q, k).data
  <2>5. p \in Seq(Unit2) /\ r \in Seq(Unit2) /\ p \o r = accepted[s]
    BY <2>3, <2>4 DEF Flushed, Buffers
  <2>6. accepted[s] \in Seq(Unit2)
    BY <1>3
  <2>7. shown'[s] = p
    BY <2>1
  <2> HIDE DEF p, r
  <2>8. IO!Prefix(p, accepted[s])
    BY <2>5, <2>6, PrefixIs
  <2>9. /\ stream'[s] = IO!Empty(FALSE) /\ IO!Empty(FALSE) \in Buffers
        /\ InPlace(s, IO!Empty(FALSE))
    BY <1>2, <1>3, EmptyIs
  <2>10. InPlace(s, stream[s])'
    BY <1>2, <2>9 DEF InPlace, IO!Unit
  <2>11. IO!Prefix(shown'[s], accepted'[s])
    BY <1>2, <2>7, <2>8
  <2>12. QED
    BY <1>2, <2>5, <2>7, <2>9, <2>10, <2>11 DEF OutputOk, IO!Prefix
<1>5. shown' \in [IO!Outputs -> Seq(Unit2)]
  BY <1>1, <1>4
<1>6. OutputsOk'
  BY <1>2, <1>3, <1>4, <1>5 DEF OutputsOk
<1>7. CallsOk'
  BY <1>2 DEF CallsOk, IO!Idle, Calls
<1>8. QED
  BY <1>2, <1>6, <1>7 DEF OutInv, IO!Streams, IO!Outputs

\* The outputs move on, or stay, while the calls are as they should be.
LEMMA OutputsGo ==
  ASSUME OutInv, OutputsMove, UNCHANGED <<console, up>>,
         \/ UNCHANGED pc
         \/ \E t \in Threads : pc' = [pc EXCEPT ![t] = IO!Idle]
  PROVE  OutInv'
<1>1. "out" \in IO!Outputs
  BY DEF IO!Outputs
<1>2. Len(shown["out"]) \in Nat /\ Len(shown'["out"]) \in Nat
  BY <1>1 DEF OutInv, OutputsMove, OutputsOk
<1>3. CallsOk /\ Len(shown'["out"]) >= Len(shown["out"])
  BY DEF OutInv, OutputsMove
<1>4. CASE UNCHANGED pc
  BY <1>2, <1>3, <1>4, CallsStay DEF OutInv, OutputsMove, IO!Streams, IO!Outputs
<1>5. CASE \E t \in Threads : pc' = [pc EXCEPT ![t] = IO!Idle]
  BY <1>2, <1>3, <1>5, CallEnds DEF OutInv, OutputsMove, IO!Streams, IO!Outputs
<1>6. QED
  BY <1>4, <1>5

\* What is done with the input alone changes no output.
LEMMA InputGoes ==
  ASSUME OutInv, UNCHANGED <<console, up, shown, accepted>>, CallsOk',
         UNCHANGED stream \/ \E e : stream' = [stream EXCEPT !["in"] = e]
  PROVE  OutInv'
<1>1. stream = [s \in IO!Streams |-> stream[s]] /\ "in" \in IO!Streams
  BY DEF OutInv, OutputsOk, IO!Streams
<1>2. stream' = [stream EXCEPT !["in"] = stream'["in"]]
  <2>1. CASE UNCHANGED stream
    BY <1>1, <2>1
  <2>2. CASE \E e : stream' = [stream EXCEPT !["in"] = e]
    <3>1. PICK e : stream' = [stream EXCEPT !["in"] = e]
      BY <2>2
    <3>2. stream'["in"] = e
      BY <1>1, <3>1
    <3>3. QED
      BY <3>1, <3>2
  <2>3. QED
    BY <2>1, <2>2
<1>3. OutputsOk'
  BY <1>2, OutputsStay
<1>4. QED
  BY <1>3 DEF OutInv, IO!Streams, IO!Outputs

\* A call that goes on keeps what it was told.
LEMMA CallGoesOn ==
  ASSUME CallsOk, UNCHANGED shown, Len(shown["out"]) \in Nat, NEW t \in Threads, pc[t] # IO!Idle,
         NEW y \in Calls, y.at # "error", y.told = pc[t].told, y.flushed = pc[t].flushed,
         pc' = [pc EXCEPT ![t] = y]
  PROVE  CallsOk'
<1>1. pc \in [Threads -> Calls \cup {IO!Idle}]
  BY DEF CallsOk
<1>2. pc' \in [Threads -> Calls \cup {IO!Idle}]
      /\ \A u \in Threads : pc'[u] = IF u = t THEN y ELSE pc[u]
  BY <1>1
<1>3. \A u \in Threads : pc'[u] # IO!Idle /\ pc'[u].flushed => Len(shown'["out"]) >= pc'[u].told
  BY <1>2 DEF CallsOk
<1>4. \A u \in Threads : pc'[u].at = "error" => pc'[u].what \in Writes
  BY <1>2 DEF CallsOk
<1>5. QED
  BY <1>2, <1>3, <1>4 DEF CallsOk, Calls, IO!Idle

\* A call that got so far is one.
LEMMA CallIs ==
  ASSUME CallsOk, NEW t \in Threads, pc[t].at \in {"error", "lock", "input"}
  PROVE  pc[t] \in Calls /\ pc[t] # IO!Idle
BY DEF CallsOk, IO!Idle

\* The outputs and the calls are in order whatever is done next.
LEMMA OutKeeps ==
  ASSUME CallsAreKnown, OutInv, IO!Next PROVE OutInv'
<1>0. "out" \in IO!Outputs /\ "err" \in IO!Outputs /\ Len(shown["out"]) \in Nat /\ CallsOk
  BY ShownIs DEF OutInv, IO!Outputs
<1>1. ASSUME NEW t \in Threads, NEW w \in Writes, IO!WriteStandardOutput(t, w) PROVE OutInv'
  <2>1. up /\ IO!Write("out", w) /\ UNCHANGED <<console, up, pc>>
    BY <1>1 DEF IO!WriteStandardOutput, IO!Starts
  <2>2. OutputsMove
    BY <1>0, <2>1, WriteKeeps
  <2>3. QED
    BY <2>1, <2>2, OutputsGo
<1>2. ASSUME NEW t \in Threads, NEW w \in Writes, IO!BeginError(t, w) PROVE OutInv'
  BY <1>2, CallBegins DEF IO!BeginError
<1>3. ASSUME NEW t \in Threads, NEW s \in IO!Outputs, IO!FlushStandard(t, s) PROVE OutInv'
  <2>1. up /\ IO!FlushesTo(s, stream[s], 0) /\ UNCHANGED <<console, up, pc, accepted>>
    BY <1>3 DEF IO!FlushStandard, IO!Starts
  <2>2. OutputsMove
    BY <2>1, FlushKeeps
  <2>3. QED
    BY <2>1, <2>2, OutputsGo
<1>4. ASSUME NEW t \in Threads, NEW flag \in BOOLEAN, IO!SetStandardOutputBuffered(t, flag)
      PROVE  OutInv'
  <2>1. UNCHANGED <<console, up, pc>>
    BY <1>4 DEF IO!SetStandardOutputBuffered
  <2>2. OutputsMove
    BY <1>4, BufferedKeeps
  <2>3. QED
    BY <2>1, <2>2, OutputsGo
<1>5. ASSUME NEW t \in Threads, NEW r \in Reads, IO!BeginRead(t, r) PROVE OutInv'
  BY <1>5, CallBegins DEF IO!BeginRead
<1>6. ASSUME NEW t \in Threads, IO!WriteStandardError(t) PROVE OutInv'
  <2>1. /\ up /\ pc[t].at = "error" /\ IO!Write("err", pc[t].what) /\ UNCHANGED <<console, up>>
        /\ pc' = [pc EXCEPT ![t] = IO!Idle]
    BY <1>6 DEF IO!WriteStandardError
  <2>2. pc[t].what \in Writes
    BY <1>0, <2>1 DEF CallsOk
  <2>3. OutputsMove
    BY <1>0, <2>1, <2>2, WriteKeeps
  <2>4. QED
    BY <2>1, <2>3, OutputsGo
<1>7. ASSUME NEW t \in Threads, IO!LockInput(t) PROVE OutInv'
  <2>1. /\ pc[t].at = "lock" /\ pc' = [pc EXCEPT ![t].at = "input"]
        /\ UNCHANGED <<console, stream, accepted, shown, up>>
    BY <1>7 DEF IO!LockInput
  <2>2. pc[t] \in Calls /\ pc[t] # IO!Idle
    BY <1>0, <2>1, CallIs
  <2> DEFINE y == [pc[t] EXCEPT !.at = "input"]
  <2>3. y \in Calls /\ y.at = "input" /\ y.told = pc[t].told /\ y.flushed = pc[t].flushed
    BY <2>2 DEF Calls
  <2>4. pc' = [pc EXCEPT ![t] = y]
    BY <2>1
  <2> HIDE DEF y
  <2>5. CallsOk'
    BY <1>0, <2>1, <2>2, <2>3, <2>4, CallGoesOn
  <2>6. QED
    BY <2>1, <2>5, InputGoes
<1>8. ASSUME NEW t \in Threads, IO!PopulateFails(t) PROVE OutInv'
  <2>1. /\ pc' = [pc EXCEPT ![t] = IO!Idle] /\ UNCHANGED <<console, accepted, shown, up>>
        /\ UNCHANGED stream \/ \E e : stream' = [stream EXCEPT !["in"] = e]
    BY <1>8 DEF IO!PopulateFails
  <2>2. CallsOk'
    <3>1. Len(shown'["out"]) \in Nat /\ Len(shown'["out"]) >= Len(shown["out"])
      BY <1>0, <2>1
    <3>2. QED
      BY <1>0, <2>1, <3>1, CallEnds
  <2>3. QED
    BY <2>1, <2>2, InputGoes
<1>9. ASSUME NEW t \in Threads, IO!Populate(t) PROVE OutInv'
  <2>1. /\ UNCHANGED <<console, accepted, shown, up, pc>>
        /\ \E e : stream' = [stream EXCEPT !["in"] = e]
    BY <1>9 DEF IO!Populate
  <2>2. CallsOk'
    BY <1>0, <2>1, CallsStay
  <2>3. QED
    BY <2>1, <2>2, InputGoes
<1>10. ASSUME NEW t \in Threads, IO!Consume(t) PROVE OutInv'
  <2>1. /\ pc[t].at = "input" /\ UNCHANGED <<console, accepted, shown, up>>
        /\ \E e : stream' = [stream EXCEPT !["in"] = e]
        /\ \/ pc' = [pc EXCEPT ![t] = [pc[t] EXCEPT !.threshold = pc[t].threshold + 1]]
           \/ pc' = [pc EXCEPT ![t] = IO!Idle]
    BY <1>10 DEF IO!Consume, IO!Reading
  <2>2. pc[t] \in Calls /\ pc[t] # IO!Idle
    BY <1>0, <2>1, CallIs
  <2> DEFINE y == [pc[t] EXCEPT !.threshold = pc[t].threshold + 1]
  <2>3. y \in Calls /\ y.at = "input" /\ y.told = pc[t].told /\ y.flushed = pc[t].flushed
    BY <2>1, <2>2 DEF Calls
  <2>4. pc' = [pc EXCEPT ![t] = y] \/ pc' = [pc EXCEPT ![t] = IO!Idle]
    BY <2>1
  <2> HIDE DEF y
  <2>5. CASE pc' = [pc EXCEPT ![t] = y]
    <3>1. CallsOk'
      BY <1>0, <2>1, <2>2, <2>3, <2>5, CallGoesOn
    <3>2. QED
      BY <2>1, <3>1, InputGoes
  <2>6. CASE pc' = [pc EXCEPT ![t] = IO!Idle]
    <3>1. CallsOk'
      <4>1. Len(shown'["out"]) \in Nat /\ Len(shown'["out"]) >= Len(shown["out"])
        BY <1>0, <2>1
      <4>2. QED
        BY <1>0, <2>6, <4>1, CallEnds
    <3>2. QED
      BY <2>1, <3>1, InputGoes
  <2>7. QED
    BY <2>4, <2>5, <2>6
<1>11. ASSUME IO!StandardStreamsUninit PROVE OutInv'
  BY <1>11, UninitKeeps
<1>12. QED
  BY <1>1, <1>2, <1>3, <1>4, <1>5, <1>6, <1>7, <1>8, <1>9, <1>10, <1>11 DEF IO!Next

\* The streams begin with nothing written and no call.
LEMMA OutBegins == ASSUME IO!Init PROVE OutInv
<1>1. /\ console \in [IO!Streams -> BOOLEAN] /\ up = TRUE
      /\ stream = [s \in IO!Streams |-> IO!Empty(s # "err")]
      /\ accepted = [s \in IO!Outputs |-> <<>>] /\ shown = [s \in IO!Outputs |-> <<>>]
      /\ pc = [t \in Threads |-> IO!Idle]
  BY DEF IO!Init
<1>2. \A s \in IO!Outputs : s \in IO!Streams
  BY DEF IO!Streams
<1>3. ASSUME NEW s \in IO!Outputs PROVE OutputOk(s)
  <2>1. /\ IO!Empty(s # "err") \in Buffers /\ InPlace(s, IO!Empty(s # "err"))
        /\ IO!Empty(s # "err").data = <<>>
    <3>1. (s # "err") \in BOOLEAN
      OBVIOUS
    <3>2. QED
      BY <3>1, EmptyIs
  <2>2. stream[s] = IO!Empty(s # "err") /\ shown[s] = <<>> /\ accepted[s] = <<>>
    BY <1>1, <1>2
  <2>3. <<>> \in Seq(Unit2) /\ <<>> \o <<>> = <<>>
    OBVIOUS
  <2>4. IO!Prefix(<<>>, <<>>)
    BY <2>3, PrefixIs
  <2>5. QED
    BY <2>1, <2>2, <2>3, <2>4 DEF OutputOk
<1>4. OutputsOk
  BY <1>1, <1>3 DEF OutputsOk
<1>5. CallsOk
  BY <1>1 DEF CallsOk, IO!Idle, Calls
<1>6. QED
  BY <1>1, <1>4, <1>5 DEF OutInv

\* Nothing happens.
LEMMA OutStays == ASSUME OutInv, UNCHANGED IO!vars PROVE OutInv'
BY DEF OutInv, OutputsOk, OutputOk, CallsOk, InPlace, Calls, Buffers, IO!vars, IO!Unit,
       IO!Prefix, IO!Idle, IO!Streams, IO!Outputs

\* What is in the buffer and what is left are what comes after what was given.
Ahead(d, left, given, all) == d \o left = IO!Drop(all, Len(given))

\* The input, when the program leaves out the calls that do not work and devices hand out
\* whole code points: what was given, what is in the buffer and what is still to come are
\* what came in.
ReadsOk ==
  \A t \in Threads : pc[t].at \in {"lock", "input"} =>
    pc[t].what \in Reads /\ IO!Works(pc[t].what) /\ pc[t].threshold = 1
BufferOk(q, left) ==
  /\ q \in Buffers /\ InPlace("in", q)
  /\ left \in Seq(Unit2) /\ WellFormed(left, console["in"]) /\ WellFormed(q.data, console["in"])
InputOk(q, left, given, peeked) ==
  /\ BufferOk(q, left) /\ given \in Seq(Unit2) /\ peeked \in Seq(Unit2)
  /\ IO!Same(given, input)
  /\ q.buffered => /\ Ahead(q.data, left, given, input)
                   /\ IO!Same(peeked, q.data \o left)
InInv == ReadsOk /\ input \in Seq(Unit2) /\ InputOk(stream["in"], rest, gave, seen)

\* What is taken from the front of what is ahead is given.
LEMMA GaveMore ==
  ASSUME NEW all \in Seq(Unit2), NEW given \in Seq(Unit2), NEW d \in Seq(Unit2),
         NEW left \in Seq(Unit2), NEW out \in Seq(Unit2),
         IO!Same(given, all), Ahead(d, left, given, all), Len(out) <= Len(d),
         \A i \in 1..Len(out) : out[i] = d[i] \/ out[i] = Unknown
  PROVE  /\ given \o out \in Seq(Unit2) /\ IO!Same(given \o out, all)
         /\ Ahead(IO!Drop(d, Len(out)), left, given \o out, all)
<1> DEFINE m == Len(given)
           n == Len(out)
           more == given \o out
           x == IO!Drop(d, n) \o left
           y == IO!Drop(all, Len(more))
<1>1. m \in 0..Len(all) /\ n \in 0..Len(d) /\ Len(all) \in Nat /\ Len(d) \in Nat /\ Len(left) \in Nat
  BY DEF IO!Same
<1>2. /\ more \in Seq(Unit2) /\ Len(more) = m + n
      /\ \A i \in 1..m : more[i] = given[i]
      /\ \A i \in 1..n : more[m + i] = out[i]
  BY JoinIs
<1>3. /\ IO!Drop(all, m) \in Seq(Unit2) /\ Len(IO!Drop(all, m)) = Len(all) - m
      /\ \A i \in 1..(Len(all) - m) : IO!Drop(all, m)[i] = all[m + i]
  BY <1>1, DropIs
<1>3a. d \o left = IO!Drop(all, m)
  BY DEF Ahead
<1>4. /\ d \o left \in Seq(Unit2) /\ Len(d \o left) = Len(d) + Len(left)
      /\ \A i \in 1..Len(d) : (d \o left)[i] = d[i]
      /\ \A i \in 1..Len(left) : (d \o left)[Len(d) + i] = left[i]
  BY JoinIs
<1>5. /\ Len(all) = m + Len(d) + Len(left)
      /\ \A i \in 1..Len(d) : all[m + i] = d[i]
      /\ \A i \in 1..Len(left) : all[m + (Len(d) + i)] = left[i]
  <2>1. Len(all) - m = Len(d) + Len(left)
    BY <1>3, <1>3a, <1>4
  <2>2. \A i \in 1..Len(d) : i \in 1..(Len(all) - m)
    BY <1>1, <2>1
  <2>3. \A i \in 1..Len(left) : Len(d) + i \in 1..(Len(all) - m)
    BY <1>1, <2>1
  <2>4. \A i \in 1..(Len(all) - m) : all[m + i] = (d \o left)[i]
    BY <1>3, <1>3a
  <2>5. \A i \in 1..Len(d) : all[m + i] = d[i]
    BY <1>4, <2>2, <2>4
  <2>6. \A i \in 1..Len(left) : all[m + (Len(d) + i)] = left[i]
    BY <1>4, <2>3, <2>4
  <2>7. Len(all) = m + Len(d) + Len(left)
    BY <1>1, <2>1
  <2>8. QED
    BY <2>5, <2>6, <2>7
<1>6. /\ IO!Drop(d, n) \in Seq(Unit2) /\ Len(IO!Drop(d, n)) = Len(d) - n
      /\ \A i \in 1..(Len(d) - n) : IO!Drop(d, n)[i] = d[n + i]
  BY <1>1, DropIs
<1>7. /\ x \in Seq(Unit2) /\ Len(x) = Len(d) - n + Len(left)
      /\ \A i \in 1..(Len(d) - n) : x[i] = d[n + i]
      /\ \A i \in 1..Len(left) : x[Len(d) - n + i] = left[i]
  <2>1. /\ x \in Seq(Unit2) /\ Len(x) = Len(IO!Drop(d, n)) + Len(left)
        /\ \A i \in 1..Len(IO!Drop(d, n)) : x[i] = IO!Drop(d, n)[i]
        /\ \A i \in 1..Len(left) : x[Len(IO!Drop(d, n)) + i] = left[i]
    <3>1. PICK z \in Seq(Unit2) : z = IO!Drop(d, n)
      BY <1>6
    <3>2. /\ z \o left \in Seq(Unit2) /\ Len(z \o left) = Len(z) + Len(left)
          /\ \A i \in 1..Len(z) : (z \o left)[i] = z[i]
          /\ \A i \in 1..Len(left) : (z \o left)[Len(z) + i] = left[i]
      BY JoinIs
    <3>3. QED
      BY <3>1, <3>2
  <2>2. QED
    BY <1>6, <2>1
<1>8. /\ y \in Seq(Unit2) /\ Len(y) = Len(all) - (m + n)
      /\ \A i \in 1..(Len(all) - (m + n)) : y[i] = all[m + n + i]
  <2>1. Len(more) \in 0..Len(all) /\ Len(more) = m + n
    BY <1>1, <1>2, <1>5
  <2>2. QED
    BY <2>1, DropIs
<1> HIDE DEF x, y, more, m, n
<1>9. Len(x) = Len(y)
  BY <1>1, <1>5, <1>7, <1>8
<1>10. ASSUME NEW i \in 1..Len(x) PROVE x[i] = y[i]
  <2>1. y[i] = all[m + n + i] /\ Len(x) = Len(d) - n + Len(left)
    BY <1>7, <1>8, <1>9
  <2>2. CASE i <= Len(d) - n
    <3>1. i \in 1..(Len(d) - n) /\ n + i \in 1..Len(d) /\ m + (n + i) = m + n + i
      BY <1>1, <2>2
    <3>2. QED
      BY <1>5, <1>7, <2>1, <3>1
  <2>3. CASE i > Len(d) - n
    <3> DEFINE j == i - (Len(d) - n)
    <3>1. j \in 1..Len(left) /\ Len(d) - n + j = i /\ m + (Len(d) + j) = m + n + i
      BY <1>1, <2>1, <2>3
    <3> HIDE DEF j
    <3>2. QED
      BY <1>5, <1>7, <2>1, <3>1
  <2>4. QED
    BY <1>1, <2>1, <2>2, <2>3
<1>11. x = y
  BY <1>7, <1>8, <1>9, <1>10, SameSequence
<1>12. IO!Same(more, all)
  <2>1. Len(more) <= Len(all)
    BY <1>1, <1>2, <1>5
  <2>2. ASSUME NEW i \in 1..Len(more) PROVE more[i] = all[i] \/ more[i] = Unknown
    <3>1. CASE i <= m
      <4>1. i \in 1..m
        BY <1>1, <3>1
      <4>2. more[i] = given[i] /\ (given[i] = all[i] \/ given[i] = Unknown)
        BY <1>2, <4>1 DEF IO!Same, m, Unknown
      <4>3. QED
        BY <4>2
    <3>2. CASE i > m
      <4> DEFINE j == i - m
      <4>1. j \in 1..n /\ m + j = i /\ j \in 1..Len(d)
        BY <1>1, <1>2, <3>2
      <4> HIDE DEF j
      <4>2. more[i] = out[j] /\ all[i] = d[j]
        BY <1>2, <1>5, <4>1
      <4>3. out[j] = d[j] \/ out[j] = Unknown
        BY <4>1 DEF n
      <4>4. QED
        BY <4>2, <4>3
    <3>3. QED
      BY <1>1, <1>2, <3>1, <3>2
  <2>3. QED
    BY <2>1, <2>2 DEF IO!Same, Unknown
<1>13. QED
  BY <1>2, <1>11, <1>12 DEF x, y, more, n, Ahead

\* What is seen by a peek is ahead.
LEMMA SeenAhead ==
  ASSUME NEW d \in Seq(Unit2), NEW left \in Seq(Unit2), NEW out \in Seq(Unit2),
         Len(out) <= Len(d), \A i \in 1..Len(out) : out[i] = d[i] \/ out[i] = Unknown
  PROVE  IO!Same(out, d \o left)
<1>1. /\ Len(d \o left) = Len(d) + Len(left) /\ Len(left) \in Nat /\ Len(d) \in Nat
      /\ \A i \in 1..Len(d) : (d \o left)[i] = d[i] /\ Len(out) \in Nat
  BY JoinIs
<1>2. \A i \in 1..Len(out) : i \in 1..Len(d)
  BY <1>1
<1>3. \A i \in 1..Len(out) : out[i] = (d \o left)[i] \/ out[i] = Unknown
  BY <1>1, <1>2
<1>4. Len(out) <= Len(d \o left)
  BY <1>1
<1>5. QED
  BY <1>3, <1>4 DEF IO!Same, Unknown

\* A peek that saw nothing saw what is next.
LEMMA NothingSeen == ASSUME NEW q PROVE Len(q) \in Nat => IO!Same(<<>>, q)
BY DEF IO!Same

\* A call begins, goes on or ends.
LEMMA ReadsGo ==
  ASSUME CallsOk, ReadsOk, UNCHANGED console, NEW t \in Threads, NEW y,
         pc' = [pc EXCEPT ![t] = y],
         y.at \in {"lock", "input"} => y.what \in Reads /\ IO!Works(y.what) /\ y.threshold = 1
  PROVE  ReadsOk'
<1>1. \A u \in Threads : pc'[u] = IF u = t THEN y ELSE pc[u]
  BY DEF CallsOk
<1>2. \A r : IO!Works(r) => IO!Works(r)'
  BY DEF IO!Works
<1>3. ASSUME NEW u \in Threads, pc'[u].at \in {"lock", "input"}
      PROVE  pc'[u].what \in Reads /\ IO!Works(pc'[u].what) /\ pc'[u].threshold = 1
  <2>1. CASE u = t
    BY <1>1, <1>3, <2>1
  <2>2. CASE u # t
    BY <1>1, <1>3, <2>2 DEF ReadsOk
  <2>3. QED
    BY <2>1, <2>2
<1>4. QED
  BY <1>3 DEF ReadsOk, IO!Works

\* The input becomes what it may become.
LEMMA InputMoves ==
  ASSUME InInv, UNCHANGED <<console, input>>, ReadsOk', NEW q, NEW left, NEW given, NEW peeked,
         InputOk(q, left, given, peeked),
         stream'["in"] = q, rest' = left, gave' = given, seen' = peeked
  PROVE  InInv'
<1>1. BufferOk(q, left) => BufferOk(stream["in"], rest)'
  BY DEF BufferOk, InPlace, IO!Unit
<1>2. InputOk(q, left, given, peeked) => InputOk(stream["in"], rest, gave, seen)'
  BY <1>1 DEF InputOk
<1>3. QED
  BY <1>2 DEF InInv

\* A step that leaves the input alone keeps what is said of it.
LEMMA InputStays ==
  ASSUME InInv, UNCHANGED <<console, input, rest, gave, seen>>, ReadsOk',
         stream'["in"] = stream["in"]
  PROVE  InInv'
<1>1. InputOk(stream["in"], rest, gave, seen)
  BY DEF InInv
<1>2. QED
  BY <1>1, InputMoves

\* An output is flushed, and the input is as it was.
LEMMA FlushesElsewhere ==
  ASSUME OutputsOk, NEW s \in IO!Outputs, NEW q, NEW threshold, IO!FlushesTo(s, q, threshold)
  PROVE  stream'["in"] = stream["in"]
<1>1. stream = [x \in IO!Streams |-> stream[x]] /\ "in" \in IO!Streams /\ s # "in"
  BY DEF OutputsOk, IO!Streams, IO!Outputs
<1>2. PICK n \in IO!Flushable(s, q, threshold) : stream' = [stream EXCEPT ![s] = IO!Discard(s, q, n)]
  BY DEF IO!FlushesTo
<1>3. QED
  BY <1>1, <1>2

\* More of what comes in is read into the buffer, which holds nothing.
LEMMA PopulateKeeps ==
  ASSUME CallsAreKnown, Whole, OutInv, InInv, NEW t \in Threads, IO!Populate(t)
  PROVE  InInv'
<1> DEFINE q == stream["in"]
           e == IO!ReserveMore("in", q, INCREMENT)
           k == IO!Unit("in")
<1>1. PICK n \in 1..IO!Lesser(Len(rest), IO!Reserved("in", e) \div k) :
        /\ n < Len(rest) => rest[n + 1][2] = 1
        /\ stream' = [stream EXCEPT !["in"] = IO!ReadInto(e, SubSeq(rest, 1, n))]
        /\ rest' = IO!Drop(rest, n)
  BY DEF IO!Populate
<1>2. /\ pc[t].at = "input" /\ q.buffered /\ Len(q.data) < pc[t].threshold
      /\ UNCHANGED <<console, input, gave, seen, pc>>
  BY DEF IO!Populate, IO!Reading, IO!Short
<1>3. /\ ReadsOk /\ input \in Seq(Unit2) /\ q \in Buffers /\ InPlace("in", q) /\ rest \in Seq(Unit2)
      /\ WellFormed(rest, console["in"]) /\ gave \in Seq(Unit2) /\ seen \in Seq(Unit2)
      /\ IO!Same(gave, input) /\ Ahead(q.data, rest, gave, input) /\ IO!Same(seen, q.data \o rest)
  BY <1>2 DEF InInv, InputOk, BufferOk
<1>4. q.data = <<>>
  <2>1. pc[t].threshold = 1
    BY <1>2, <1>3 DEF ReadsOk
  <2>2. q.data \in Seq(Unit2)
    BY <1>3 DEF Buffers
  <2>3. QED
    BY <1>2, <2>1, <2>2
<1>5. /\ e \in Buffers /\ e.data = q.data /\ e.buffered = q.buffered
      /\ e.begin + k * Len(q.data) + INCREMENT <= e.cap
  <2>1. INCREMENT \in Nat
    BY DEF CallsAreKnown
  <2>2. QED
    BY <1>3, <2>1, ReserveIs
<1>6. k \in {1, 2} /\ INCREMENT \in Nat
  BY UnitIs DEF CallsAreKnown
<1>7. stream'["in"] = IO!ReadInto(e, SubSeq(rest, 1, n))
  <2>1. stream = [x \in IO!Streams |-> stream[x]] /\ "in" \in IO!Streams
    BY DEF OutInv, OutputsOk, IO!Streams
  <2>2. QED
    BY <1>1, <2>1
<1>8. IO!Reserved("in", e) = e.cap - e.begin - k * Len(e.data)
  BY DEF IO!Reserved, IO!Size
<1>8a. n \in 1..IO!Lesser(Len(rest), IO!Reserved("in", e) \div k)
  OBVIOUS
<1> HIDE DEF q, e, k
<1>9. Len(q.data) = 0 /\ Len(rest) \in Nat
  BY <1>3, <1>4
<1>10. e.begin \in Nat /\ e.cap \in Nat /\ IO!Reserved("in", e) = e.cap - e.begin
  BY <1>4, <1>5, <1>6, <1>8 DEF Buffers
<1>11. n \in 1..Len(rest) /\ e.begin + k * n <= e.cap
  <2>1. n \in 1..Len(rest) /\ n <= (e.cap - e.begin) \div k
    BY <1>6, <1>8a, <1>9, <1>10 DEF IO!Lesser
  <2>2. CASE k = 1
    BY <1>10, <2>1, <2>2
  <2>3. CASE k = 2
    BY <1>10, <2>1, <2>3
  <2>4. QED
    BY <1>6, <2>1, <2>2, <2>3
<1>12. PICK h \in Seq(Unit2) : h = SubSeq(rest, 1, n) /\ Len(h) = n
  <2>1. rest \in Seq(Unit2) /\ n \in 0..Len(rest)
    BY <1>3, <1>11
  <2>2. SubSeq(rest, 1, n) \in Seq(Unit2) /\ Len(SubSeq(rest, 1, n)) = n
    BY <2>1, DropIs, Zenon
  <2>3. QED
    BY <2>2
<1>13. PICK left \in Seq(Unit2) : left = IO!Drop(rest, n)
  <2>1. rest \in Seq(Unit2) /\ n \in 0..Len(rest)
    BY <1>3, <1>11
  <2>2. IO!Drop(rest, n) \in Seq(Unit2)
    BY <2>1, DropIs, Zenon
  <2>3. QED
    BY <2>2
<1>14. WellFormed(h, console["in"]) /\ WellFormed(left, console["in"])
  <2>1. n \in 0..Len(rest)
    BY <1>11
  <2>2. WellFormed(IO!Drop(rest, n), console["in"])
    BY <1>3, <2>1, SuffixWellFormed
  <2>3. WellFormed(SubSeq(rest, 1, n), console["in"])
    BY <1>1, <1>3, <2>1, PrefixWellFormed
  <2>4. QED
    BY <1>12, <1>13, <2>2, <2>3
<1>15. h \o left = q.data \o rest
  <2>1. rest \in Seq(Unit2) /\ n \in 0..Len(rest) /\ <<>> \in Seq(Unit2)
    BY <1>3, <1>11
  <2>2. (<<>> \o SubSeq(rest, 1, n)) \o IO!Drop(rest, n) = <<>> \o rest
    BY <2>1, SplitIs, Zenon
  <2>3. <<>> \o h = h
    OBVIOUS
  <2>4. QED
    BY <1>4, <1>12, <1>13, <2>2, <2>3
<1> DEFINE w == IO!ReadInto(e, h)
<1>16. /\ w \in Buffers /\ w.data = h /\ w.begin = e.begin /\ w.cap = e.cap
       /\ w.buffered = e.buffered
  <2>1. w = [e EXCEPT !.data = [i \in 1..(Len(e.data) + Len(h)) |->
               IF i <= Len(h) THEN h[i] ELSE IF i <= Len(e.data) THEN e.data[i] ELSE <<"?", 2>>]]
    BY DEF IO!ReadInto
  <2>2. Len(e.data) = 0 /\ Len(h) \in Nat
    BY <1>5, <1>9
  <2>3. w = [e EXCEPT !.data = [i \in 1..Len(h) |-> h[i]]]
    <3>1. Len(e.data) + Len(h) = Len(h) /\ \A i \in 1..Len(h) : i <= Len(h)
      BY <2>2
    <3>2. QED
      BY <2>1, <3>1
  <2>4. [i \in 1..Len(h) |-> h[i]] = h
    OBVIOUS
  <2>5. w = [e EXCEPT !.data = h]
    BY <2>3, <2>4
  <2>6. QED
    BY <1>5, <2>5 DEF Buffers
<1> HIDE DEF w
<1>17. InPlace("in", w)
  BY <1>11, <1>12, <1>16 DEF InPlace, k
<1>18. InputOk(w, left, gave, seen)
  <2>1. Ahead(w.data, left, gave, input)
    BY <1>3, <1>15, <1>16 DEF Ahead
  <2>2. IO!Same(seen, w.data \o left)
    BY <1>3, <1>15, <1>16
  <2>3. BufferOk(w, left)
    BY <1>14, <1>16, <1>17 DEF BufferOk
  <2>4. QED
    BY <1>3, <2>1, <2>2, <2>3 DEF InputOk
<1>19. ReadsOk'
  BY <1>2, <1>3 DEF ReadsOk, IO!Works
<1>20. stream'["in"] = w /\ rest' = left /\ gave' = gave /\ seen' = seen
  BY <1>1, <1>2, <1>7, <1>12, <1>13 DEF w
<1>21. QED
  BY <1>2, <1>18, <1>19, <1>20, InputMoves

\* A reader takes of what is in the buffer.
LEMMA ConsumeKeeps ==
  ASSUME CallsAreKnown, OutInv, InInv, NEW t \in Threads, IO!Consume(t)
  PROVE  InInv'
<1> DEFINE q == stream["in"]
           r == pc[t].what
           x == IO!Take(r, q.data)
           d == IO!Discard("in", q, x.used)
           w == [d EXCEPT !.buffered = ~x.ended]
<1>1. /\ pc[t].at = "input" /\ q.buffered /\ ~(Len(q.data) < pc[t].threshold)
      /\ stream' = [stream EXCEPT !["in"] = w]
      /\ gave' = IF IO!Peeks(r) THEN gave ELSE gave \o x.out
      /\ seen' = IF IO!Peeks(r) THEN x.out ELSE <<>>
      /\ IF x.again THEN pc' = [pc EXCEPT ![t].threshold = @ + 1]
                    ELSE pc' = [pc EXCEPT ![t] = IO!Idle]
      /\ UNCHANGED <<console, input, rest>>
  BY DEF IO!Consume, IO!Reading, IO!Short
<1>2. /\ ReadsOk /\ CallsOk /\ input \in Seq(Unit2) /\ q \in Buffers /\ InPlace("in", q)
      /\ rest \in Seq(Unit2) /\ WellFormed(rest, console["in"])
      /\ WellFormed(q.data, console["in"]) /\ gave \in Seq(Unit2)
      /\ IO!Same(gave, input) /\ Ahead(q.data, rest, gave, input)
  BY <1>1 DEF InInv, InputOk, BufferOk, OutInv
<1>3. r \in Reads /\ IO!Works(r) /\ pc[t].threshold = 1
  BY <1>1, <1>2 DEF ReadsOk
<1>4. PICK held \in Seq(Unit2) : held = q.data /\ held # <<>>
  <2>1. q.data \in Seq(Unit2)
    BY <1>2 DEF Buffers
  <2>2. q.data # <<>>
    BY <1>1, <1>3
  <2>3. QED
    BY <2>1, <2>2
<1>5. TakenFrom(x, held, IO!Peeks(r))
  <2>1. console["in"] \in BOOLEAN
    BY DEF OutInv, IO!Streams
  <2>2. WellFormed(held, console["in"])
    BY <1>2, <1>4
  <2>3. TakenFrom(IO!Take(r, held), held, IO!Peeks(r))
    BY <1>3, <1>4, <2>1, <2>2, TakeIs
  <2>4. QED
    BY <1>4, <2>3
<1>6. stream'["in"] = w
  <2>1. stream = [s \in IO!Streams |-> stream[s]] /\ "in" \in IO!Streams
    BY DEF OutInv, OutputsOk, IO!Streams
  <2>2. QED
    BY <1>1, <2>1
<1> DEFINE peeks == IO!Peeks(r)
<1>7. TakenFrom(x, held, peeks) /\ (gave' = IF peeks THEN gave ELSE gave \o x.out)
      /\ (seen' = IF peeks THEN x.out ELSE <<>>)
  BY <1>1, <1>5
<1> HIDE DEF q, x, peeks
<1>8. PICK out \in Seq(Unit2) :
        /\ out = x.out /\ Len(out) <= Len(held)
        /\ \A i \in 1..Len(out) : out[i] = held[i] \/ out[i] = Unknown
  BY <1>7 DEF TakenFrom
<1>9. x.used \in 0..Len(q.data) /\ x.ended \in BOOLEAN /\ x.again = FALSE
  BY <1>4, <1>7 DEF TakenFrom
<1>10. d \in Buffers /\ InPlace("in", d) /\ d.data = IO!Drop(q.data, x.used)
  BY <1>2, <1>9, DiscardIs
<1> HIDE DEF d
<1>11. w \in Buffers /\ w.data = d.data /\ InPlace("in", w)
  BY <1>9, <1>10 DEF Buffers, InPlace
<1> HIDE DEF w
<1>12. PICK left \in Seq(Unit2) : left = IO!Drop(held, x.used)
  BY <1>4, <1>9, DropIs
<1>13. w.data = left
  BY <1>4, <1>10, <1>11, <1>12
<1>14. WellFormed(left, console["in"])
  <2>1. WellFormed(held, console["in"]) /\ x.used \in 0..Len(held)
    BY <1>2, <1>4, <1>9
  <2>2. WellFormed(IO!Drop(held, x.used), console["in"])
    BY <2>1, SuffixWellFormed
  <2>3. QED
    BY <1>12, <2>2
<1>15. BufferOk(w, rest)
  BY <1>2, <1>11, <1>13, <1>14 DEF BufferOk
<1>16. Len(left \o rest) \in Nat /\ <<>> \in Seq(Unit2)
  <2>1. left \o rest \in Seq(Unit2)
    BY <1>2, JoinIs
  <2>2. QED
    BY <2>1
<1>17. ReadsOk'
  <2>1. pc' = [pc EXCEPT ![t] = IO!Idle]
    BY <1>1, <1>9 DEF x, q
  <2>2. IO!Idle.at \notin {"lock", "input"}
    BY SMTT(30) DEF IO!Idle
  <2>3. QED
    BY <1>1, <1>2, <2>1, <2>2, ReadsGo
<1>18. CASE peeks
  <2>1. x.used = 0
    BY <1>7, <1>18 DEF TakenFrom
  <2>2. left = held
    <3>1. IO!Drop(held, 0) = held
      BY DEF IO!Drop
    <3>2. QED
      BY <1>12, <2>1, <3>1
  <2>3. gave' = gave /\ seen' = out
    BY <1>7, <1>8, <1>18
  <2>4. IO!Same(out, left \o rest)
    BY <1>2, <1>8, <2>2, SeenAhead
  <2>5. InputOk(w, rest, gave, out)
    BY <1>2, <1>4, <1>13, <1>15, <2>2, <2>4 DEF InputOk
  <2>6. QED
    BY <1>1, <1>6, <1>17, <2>3, <2>5, InputMoves DEF q, x, d, w
<1>19. CASE ~peeks
  <2>1. x.used = Len(out)
    BY <1>7, <1>8, <1>19 DEF TakenFrom
  <2>2. PICK given \in Seq(Unit2) : given = gave \o out
    BY <1>2, JoinIs
  <2>3. gave' = given /\ seen' = <<>>
    BY <1>7, <1>8, <1>19, <2>2
  <2>4. /\ IO!Same(gave \o out, input)
        /\ Ahead(IO!Drop(held, Len(out)), rest, gave \o out, input)
    BY <1>2, <1>4, <1>8, GaveMore
  <2>5. IO!Same(given, input) /\ Ahead(left, rest, given, input)
    BY <1>12, <2>1, <2>2, <2>4
  <2>6. IO!Same(<<>>, left \o rest)
    BY <1>16, NothingSeen
  <2>7. InputOk(w, rest, given, <<>>)
    BY <1>13, <1>15, <1>16, <2>5, <2>6 DEF InputOk
  <2>8. QED
    BY <1>1, <1>6, <1>17, <2>3, <2>7, InputMoves DEF q, x, d, w
<1>20. QED
  BY <1>18, <1>19

\* Nothing is read.
LEMMA FailsKeep ==
  ASSUME CallsAreKnown, OutInv, InInv, NEW t \in Threads, IO!PopulateFails(t)
  PROVE  InInv'
<1> DEFINE q == stream["in"]
           e == IO!ReserveMore("in", q, INCREMENT)
<1>1. /\ \/ ~q.buffered /\ stream' = [stream EXCEPT !["in"] = IO!Empty(FALSE)]
         \/ stream' = [stream EXCEPT !["in"] = e]
         \/ stream' = stream
      /\ seen' = <<>> /\ pc' = [pc EXCEPT ![t] = IO!Idle] /\ UNCHANGED <<console, input, rest, gave>>
  BY DEF IO!PopulateFails
<1>2. /\ ReadsOk /\ CallsOk /\ input \in Seq(Unit2) /\ q \in Buffers /\ InPlace("in", q)
      /\ rest \in Seq(Unit2) /\ WellFormed(rest, console["in"])
      /\ WellFormed(q.data, console["in"]) /\ gave \in Seq(Unit2) /\ IO!Same(gave, input)
      /\ q.buffered => Ahead(q.data, rest, gave, input)
  BY DEF InInv, InputOk, BufferOk, OutInv
<1>3. stream = [s \in IO!Streams |-> stream[s]] /\ "in" \in IO!Streams
  BY DEF OutInv, OutputsOk, IO!Streams
<1>4. ReadsOk'
  <2>1. IO!Idle.at \notin {"lock", "input"}
    BY DEF IO!Idle
  <2>2. QED
    BY <1>1, <1>2, <2>1, ReadsGo
<1> HIDE DEF q
<1>5. ASSUME NEW w \in Buffers, InPlace("in", w), WellFormed(w.data, console["in"]),
             w.buffered => Ahead(w.data, rest, gave, input)
      PROVE  InputOk(w, rest, gave, <<>>)
  <2>1. PICK h \in Seq(Unit2) : h = w.data
    BY <1>5 DEF Buffers
  <2>2. Len(h \o rest) \in Nat
    BY <1>2, <2>1
  <2>3. IO!Same(<<>>, w.data \o rest)
    BY <2>1, <2>2, NothingSeen
  <2>4. <<>> \in Seq(Unit2)
    OBVIOUS
  <2>5. QED
    BY <1>2, <1>5, <2>3, <2>4 DEF InputOk, BufferOk
<1>6. PICK w : /\ stream'["in"] = w /\ w \in Buffers /\ InPlace("in", w)
               /\ WellFormed(w.data, console["in"])
               /\ w.buffered => Ahead(w.data, rest, gave, input)
  <2>1. CASE stream' = [stream EXCEPT !["in"] = IO!Empty(FALSE)]
    <3>1. /\ IO!Empty(FALSE) \in Buffers /\ InPlace("in", IO!Empty(FALSE))
          /\ IO!Empty(FALSE).data = <<>> /\ IO!Empty(FALSE).buffered = FALSE
      BY EmptyIs
    <3>2. WellFormed(<<>>, console["in"])
      BY DEF WellFormed
    <3>3. stream'["in"] = IO!Empty(FALSE)
      BY <1>3, <2>1
    <3>4. QED
      BY <3>1, <3>2, <3>3
  <2>2. CASE stream' = [stream EXCEPT !["in"] = e]
    <3>1. e \in Buffers /\ e.data = q.data /\ e.buffered = q.buffered
          /\ e.begin + IO!Unit("in") * Len(q.data) + INCREMENT <= e.cap /\ INCREMENT \in Nat
      <4>1. INCREMENT \in Nat
        BY DEF CallsAreKnown
      <4>2. QED
        BY <1>2, <4>1, ReserveIs
    <3>2. stream'["in"] = e
      BY <1>3, <2>2
    <3> HIDE DEF e
    <3>3. InPlace("in", e)
      <4>1. /\ e.begin \in Nat /\ e.cap \in Nat /\ IO!Unit("in") \in {1, 2}
            /\ Len(q.data) \in Nat
        BY <1>2, <3>1, UnitIs DEF Buffers
      <4>2. IO!Unit("in") * Len(q.data) \in Nat
        BY <4>1
      <4>3. QED
        BY <3>1, <4>1, <4>2 DEF InPlace
    <3>4. QED
      BY <1>2, <3>1, <3>2, <3>3
  <2>3. CASE stream' = stream
    BY <1>2, <2>3 DEF q
  <2>4. QED
    BY <1>1, <2>1, <2>2, <2>3
<1>7. InputOk(w, rest, gave, <<>>)
  BY <1>5, <1>6
<1>8. stream'["in"] = w /\ rest' = rest /\ gave' = gave /\ seen' = <<>> /\ UNCHANGED <<console, input>>
  BY <1>1, <1>6
<1>9. QED
  BY <1>4, <1>7, <1>8, InputMoves

\* What came in is given in order, whatever a careful program does next.
LEMMA InKeeps ==
  ASSUME CallsAreKnown, Careful, Whole, OutInv, InInv, IO!Next PROVE InInv'
<1>0. OutputsOk /\ CallsOk /\ ReadsOk /\ pc \in [Threads -> Calls \cup {IO!Idle}]
  BY DEF OutInv, InInv, CallsOk
<1>1. ASSUME NEW s \in IO!Outputs, NEW q, NEW threshold, IO!FlushesTo(s, q, threshold),
             UNCHANGED <<console, input, rest, gave, seen>>, ReadsOk'
      PROVE  InInv'
  BY <1>0, <1>1, FlushesElsewhere, InputStays
<1>2. ASSUME NEW s \in IO!Outputs, NEW w, IO!Write(s, w),
             UNCHANGED <<console, input, rest, gave, seen>>, ReadsOk'
      PROVE  InInv'
  BY <1>1, <1>2 DEF IO!Write
<1>3. UNCHANGED <<console, pc>> => ReadsOk'
  BY <1>0 DEF ReadsOk, IO!Works
<1>4. "out" \in IO!Outputs /\ "err" \in IO!Outputs
  BY DEF IO!Outputs
<1>5. ASSUME NEW t \in Threads, NEW at, NEW what, IO!FlushBefore(t, at, what),
             at \in {"lock", "input"} => what \in Reads /\ IO!Works(what)
      PROVE  InInv'
  <2>1. /\ IO!FlushesTo("out", stream["out"], 0) /\ UNCHANGED <<console, input, rest, gave, seen>>
        /\ pc' = [pc EXCEPT ![t] = [at |-> at, what |-> what, threshold |-> 1,
                                    told |-> Len(accepted["out"]),
                                    flushed |-> stream'["out"].data = <<>>]]
    BY <1>5 DEF IO!FlushBefore
  <2> DEFINE y == [at |-> at, what |-> what, threshold |-> 1,
                   told |-> Len(accepted["out"]), flushed |-> stream'["out"].data = <<>>]
  <2>2. y.at = at /\ y.what = what /\ y.threshold = 1
    OBVIOUS
  <2>3. pc' = [pc EXCEPT ![t] = y]
    BY <2>1
  <2> HIDE DEF y
  <2>4. ReadsOk'
    BY <1>0, <1>5, <2>1, <2>2, <2>3, ReadsGo
  <2>5. QED
    BY <1>1, <1>4, <2>1, <2>4
<1>6. ASSUME NEW t \in Threads, pc' = [pc EXCEPT ![t] = IO!Idle], UNCHANGED console
      PROVE  ReadsOk'
  <2>1. IO!Idle.at \notin {"lock", "input"}
    BY DEF IO!Idle
  <2>2. QED
    BY <1>0, <1>6, <2>1, ReadsGo
<1>7. ASSUME NEW t \in Threads, NEW w \in Writes, IO!WriteStandardOutput(t, w) PROVE InInv'
  <2>1. IO!Write("out", w) /\ UNCHANGED <<console, input, rest, gave, seen, pc>>
    BY <1>7 DEF IO!WriteStandardOutput
  <2>2. QED
    BY <1>2, <1>3, <1>4, <2>1
<1>8. ASSUME NEW t \in Threads, NEW w \in Writes, IO!BeginError(t, w) PROVE InInv'
  BY <1>5, <1>8 DEF IO!BeginError
<1>9. ASSUME NEW t \in Threads, NEW s \in IO!Outputs, IO!FlushStandard(t, s) PROVE InInv'
  <2>1. IO!FlushesTo(s, stream[s], 0) /\ UNCHANGED <<console, input, rest, gave, seen, pc>>
    BY <1>9 DEF IO!FlushStandard
  <2>2. QED
    BY <1>1, <1>3, <2>1
<1>10. ASSUME NEW t \in Threads, NEW flag \in BOOLEAN, IO!SetStandardOutputBuffered(t, flag)
       PROVE  InInv'
  <2>1. /\ \E e : stream' = [stream EXCEPT !["out"] = e]
        /\ UNCHANGED <<console, input, rest, gave, seen, pc>>
    BY <1>10 DEF IO!SetStandardOutputBuffered
  <2>2. stream = [x \in IO!Streams |-> stream[x]] /\ "in" \in IO!Streams
    BY <1>0 DEF OutputsOk, IO!Streams
  <2>3. stream'["in"] = stream["in"]
    BY <2>1, <2>2
  <2>4. QED
    BY <1>3, <2>1, <2>3, InputStays
<1>11. ASSUME NEW t \in Threads, NEW r \in Reads, IO!BeginRead(t, r) PROVE InInv'
  BY <1>5, <1>11 DEF IO!BeginRead
<1>12. ASSUME NEW t \in Threads, IO!WriteStandardError(t) PROVE InInv'
  <2>1. /\ IO!Write("err", pc[t].what) /\ UNCHANGED <<console, input, rest, gave, seen>>
        /\ pc' = [pc EXCEPT ![t] = IO!Idle]
    BY <1>12 DEF IO!WriteStandardError
  <2>2. QED
    BY <1>2, <1>4, <1>6, <2>1
<1>13. ASSUME NEW t \in Threads, IO!LockInput(t) PROVE InInv'
  <2>1. /\ pc[t].at = "lock" /\ pc' = [pc EXCEPT ![t].at = "input"]
        /\ UNCHANGED <<console, stream, input, rest, gave, seen>>
    BY <1>13 DEF IO!LockInput
  <2> DEFINE y == [pc[t] EXCEPT !.at = "input"]
  <2>2. pc[t] \in Calls
    BY <1>0, <2>1, CallIs
  <2>3. y.what = pc[t].what /\ y.threshold = pc[t].threshold
    BY <2>2 DEF Calls
  <2>4. pc' = [pc EXCEPT ![t] = y]
    BY <2>1
  <2>5. y.what \in Reads /\ IO!Works(y.what) /\ y.threshold = 1
    BY <1>0, <2>1, <2>3 DEF ReadsOk
  <2> HIDE DEF y
  <2>6. ReadsOk'
    BY <1>0, <2>1, <2>4, <2>5, ReadsGo
  <2>7. QED
    BY <2>1, <2>6, InputStays
<1>14. ASSUME NEW t \in Threads, IO!PopulateFails(t) PROVE InInv'
  BY <1>14, FailsKeep
<1>15. ASSUME NEW t \in Threads, IO!Populate(t) PROVE InInv'
  BY <1>15, PopulateKeeps
<1>16. ASSUME NEW t \in Threads, IO!Consume(t) PROVE InInv'
  BY <1>16, ConsumeKeeps
<1>17. ASSUME IO!StandardStreamsUninit PROVE InInv'
  <2>1. /\ stream' = [s \in IO!Streams |-> IO!Empty(FALSE)]
        /\ pc' = [t \in Threads |-> IO!Idle] /\ seen' = <<>>
        /\ UNCHANGED <<console, input, rest, gave>>
    BY <1>17 DEF IO!StandardStreamsUninit
  <2>2. stream'["in"] = IO!Empty(FALSE)
    BY <2>1 DEF IO!Streams
  <2>3. /\ IO!Empty(FALSE) \in Buffers /\ InPlace("in", IO!Empty(FALSE))
        /\ IO!Empty(FALSE).data = <<>> /\ IO!Empty(FALSE).buffered = FALSE
    BY EmptyIs
  <2>4. ReadsOk'
    <3>1. IO!Idle.at \notin {"lock", "input"}
      BY DEF IO!Idle
    <3>2. QED
      BY <2>1, <3>1 DEF ReadsOk
  <2>5. WellFormed(<<>>, console["in"]) /\ <<>> \in Seq(Unit2)
    BY DEF WellFormed
  <2>6. InputOk(IO!Empty(FALSE), rest, gave, <<>>)
    BY <2>3, <2>5 DEF InInv, InputOk, BufferOk
  <2>7. QED
    BY <2>1, <2>2, <2>4, <2>6, InputMoves
<1>18. QED
  BY <1>7, <1>8, <1>9, <1>10, <1>11, <1>12, <1>13, <1>14, <1>15, <1>16, <1>17 DEF IO!Next

\* At first all is still to come.
LEMMA InBegins ==
  ASSUME CallsAreKnown, OutInv, IO!Init PROVE InInv
<1>1. PICK cs \in Inputs : input = IO!EncodeAll(cs, console["in"])
  BY DEF IO!Init
<1>2. console["in"] \in BOOLEAN /\ "in" \in IO!Streams
  BY DEF OutInv, IO!Streams
<1>3. cs \in Seq(IO!CodePoints \ {"?"})
  BY DEF CallsAreKnown
<1>4. input \in Seq(Unit2) /\ WellFormed(input, console["in"])
  BY <1>1, <1>2, <1>3, InputWellFormed
<1>5. stream["in"] = IO!Empty(TRUE) /\ rest = input /\ gave = <<>> /\ seen = <<>>
  BY <1>2 DEF IO!Init
<1>6. /\ IO!Empty(TRUE) \in Buffers /\ InPlace("in", IO!Empty(TRUE))
      /\ IO!Empty(TRUE).data = <<>>
  BY EmptyIs
<1>7. WellFormed(<<>>, console["in"]) /\ <<>> \in Seq(Unit2) /\ Len(input) \in Nat
  BY <1>4 DEF WellFormed
<1>8. <<>> \o input = input /\ IO!Drop(input, Len(<<>>)) = input
  BY <1>4 DEF IO!Drop
<1>9. Ahead(<<>>, input, <<>>, input)
  BY <1>8 DEF Ahead
<1>10. IO!Same(<<>>, input)
  BY <1>7, NothingSeen
<1>11. InputOk(IO!Empty(TRUE), input, <<>>, <<>>)
  BY <1>4, <1>6, <1>7, <1>8, <1>9, <1>10 DEF InputOk, BufferOk
<1>12. ReadsOk
  BY DEF IO!Init, ReadsOk, IO!Idle
<1>13. QED
  BY <1>4, <1>5, <1>11, <1>12 DEF InInv

\* What is said of the input stays when nothing happens.
LEMMA InStays == ASSUME InInv, UNCHANGED IO!vars PROVE InInv'
<1>1. UNCHANGED <<console, input, rest, gave, seen, pc, stream>>
  BY DEF IO!vars
<1>2. ReadsOk'
  BY <1>1 DEF InInv, ReadsOk, IO!Works
<1>3. QED
  BY <1>1, <1>2, InputStays

\* What the invariants say of the streams.
LEMMA OutShows == ASSUME OutInv PROVE IO!PromptShown /\ IO!OutputInOrder
<1>1. IO!PromptShown
  BY DEF OutInv, CallsOk, IO!PromptShown
<1>2. IO!OutputInOrder
  BY DEF OutInv, OutputsOk, OutputOk, IO!OutputInOrder
<1>3. QED
  BY <1>1, <1>2

\* With the input in order everything is that StreamsSound says.
LEMMA InShows == ASSUME OutInv, InInv PROVE IO!StreamsSound
<1>1. ASSUME NEW s, NEW q, q \in Buffers, InPlace(s, q) PROVE IO!Reserved(s, q) >= 0
  <2>1. q.data \in Seq(Unit2) /\ q.begin \in Nat /\ q.cap \in Nat /\ IO!Unit(s) \in {1, 2}
    BY <1>1, UnitIs DEF Buffers
  <2>2. IO!Unit(s) * Len(q.data) \in Nat
    BY <2>1
  <2>3. QED
    BY <1>1, <2>1, <2>2 DEF InPlace, IO!Reserved, IO!Size
<1>2. IO!InStorage
  <2>1. \A s \in IO!Streams : stream[s] \in Buffers /\ InPlace(s, stream[s])
    BY DEF OutInv, OutputsOk, OutputOk, InInv, InputOk, BufferOk, IO!Streams
  <2>2. QED
    BY <1>1, <2>1 DEF IO!InStorage
<1>3. IO!InputInOrder
  <2>1. /\ IO!Same(gave, input)
        /\ stream["in"].buffered => /\ Ahead(stream["in"].data, rest, gave, input)
                                    /\ IO!Same(seen, stream["in"].data \o rest)
    BY DEF InInv, InputOk
  <2>2. QED
    BY <2>1 DEF IO!InputInOrder, Ahead
<1>4. QED
  BY <1>2, <1>3, OutShows DEF IO!StreamsSound

\* PromptShown: what was put out before a call that reads, or writes an error, is shown
\* before it goes on, unless the device refused it, and an output shows what was written
\* to it in order, whatever calls the program makes.
THEOREM PromptsAreShown == IO!Spec => [](IO!PromptShown /\ IO!OutputInOrder)
<1>1. CallsAreKnown
  BY StreamsAssumption
<1>2. IO!Init => OutInv
  BY OutBegins
<1>3. OutInv /\ [IO!Next]_(IO!vars) => OutInv'
  BY <1>1, OutKeeps, OutStays
<1>4. OutInv => IO!PromptShown /\ IO!OutputInOrder
  BY OutShows
<1>5. QED
  BY <1>2, <1>3, <1>4, PTL DEF IO!Spec

\* StreamsSound: readers are given all that came in, once and in order, and what was written
\* is shown once and in order, out of data that lies in the storage of the buffers.
THEOREM StreamsAreSound == ASSUME Careful, Whole PROVE IO!Spec => []IO!StreamsSound
<1>1. CallsAreKnown
  BY StreamsAssumption
<1>2. IO!Init => OutInv /\ InInv
  BY <1>1, OutBegins, InBegins
<1>3. OutInv /\ InInv /\ [IO!Next]_(IO!vars) => (OutInv /\ InInv)'
  BY <1>1, OutKeeps, OutStays, InKeeps, InStays
<1>4. OutInv /\ InInv => IO!StreamsSound
  BY InShows
<1>5. QED
  BY <1>2, <1>3, <1>4, PTL DEF IO!Spec

---------------------------------------------------------------
(* The four of them                                                         *)

\* Whichever program was chosen keeps its invariant.
MCInv ==
  /\ program \in {"exit", "thread", "pointers", "streams"}
  /\ program = "exit"     => ExitInv
  /\ program = "thread"   => ThreadInv
  /\ program = "pointers" => PointersInv
  /\ program = "streams"  => OutInv
  /\ program # "pointers" => life = Off

\* Each starts in its own initial states.
LEMMA MCInitially == MCInit => MCInv
<1>1. ASSUME Init, program = "exit", OffPointers PROVE MCInv
  BY <1>1, ExitInitially DEF MCInv, OffPointers
<1>2. ASSUME T!Init, program = "thread", OffPointers PROVE MCInv
  BY <1>2, ThreadInitially DEF MCInv, OffPointers
<1>3. ASSUME P!Init, program = "pointers" PROVE MCInv
  BY <1>3, PointersInitially DEF MCInv
<1>4. ASSUME IO!Init, program = "streams", OffPointers PROVE MCInv
  BY <1>4, OutBegins DEF MCInv, OffPointers
<1>5. QED
  BY <1>1, <1>2, <1>3, <1>4 DEF MCInit

\* A step of the streams.
LEMMA StreamsStep ==
  ASSUME program = "streams", [MCNext]_everything PROVE [IO!Next]_(IO!vars) /\ life' = life
<1>1. CASE MCNext
  BY <1>1 DEF MCNext, ofPointers
<1>2. CASE UNCHANGED everything
  BY <1>2 DEF everything, ofStreams, ofPointers, vars, IO!vars
<1>3. QED
  BY <1>1, <1>2

\* Each takes its own steps, and leaves the others idle.
LEMMA MCPreserved ==
  ASSUME MCInv, [MCNext]_everything PROVE MCInv'
<1>1. program' = program
  BY DEF MCNext, everything
<1>2. ASSUME program = "exit" PROVE [Next]_vars /\ life' = life
  BY <1>2 DEF MCNext, everything, ofPointers
<1>3. ASSUME program = "thread" PROVE [T!Next]_(T!vars) /\ life' = life
  BY <1>3 DEF MCNext, everything, ofPointers, ofThread, vars, T!vars
<1>4. ASSUME program = "pointers" PROVE [P!Next]_(P!vars)
  BY <1>4 DEF MCNext, everything, ofPointers, vars, P!vars, P!object, P!allocator, P!handles
<1>5. ASSUME program = "streams" PROVE [IO!Next]_(IO!vars) /\ life' = life
  BY <1>5, StreamsStep
<1>6. CASE program = "exit"
  <2>1. ExitInv'
    BY <1>2, <1>6, ExitPreserved DEF MCInv
  <2>2. QED
    BY <1>1, <1>2, <1>6, <2>1 DEF MCInv, Off
<1>7. CASE program = "thread"
  <2>1. ThreadInv'
    BY <1>3, <1>7, ThreadPreserved DEF MCInv
  <2>2. QED
    BY <1>1, <1>3, <1>7, <2>1 DEF MCInv, Off
<1>8. CASE program = "pointers"
  <2>1. PointersInv'
    BY <1>4, <1>8, PointersPreserved DEF MCInv
  <2>2. QED
    BY <1>1, <1>8, <2>1 DEF MCInv
<1>9. CASE program = "streams"
  <2>1. OutInv'
    BY <1>5, <1>9, OutKeeps, OutStays, StreamsAssumption DEF MCInv
  <2>2. QED
    BY <1>1, <1>5, <1>9, <2>1 DEF MCInv, Off
<1>10. QED
  BY <1>6, <1>7, <1>8, <1>9 DEF MCInv

\* The inductive invariant of the composition.
THEOREM LifetimesInductive == MCSpec => []MCInv
<1>1. MCInv /\ [MCNext]_everything => MCInv'
  BY MCPreserved
<1>2. QED
  BY MCInitially, <1>1, PTL DEF MCSpec

\* Blocks of callbacks and thread-local objects are allocated, linked and freed in
\* step, whatever fails in between.
THEOREM NothingIsForgotten == MCSpec => []AccountedFor
<1>1. MCInv => AccountedFor
  BY DEF MCInv, AccountedFor, ExitInv, ThreadInv
<1>2. QED
  BY <1>1, LifetimesInductive, PTL

\* What was registered or constructed is called or destroyed once.
THEOREM AllGoOnce == MCSpec => []AllOnce
<1>1. MCInv => AllOnce
  BY ExitEachOnce, ThreadEachOnce DEF MCInv, AllOnce
<1>2. QED
  BY <1>1, LifetimesInductive, PTL

\* And in the reverse order of its coming.
THEOREM LastGoesFirst == MCSpec => []LastFirst
<1>1. MCInv => LastFirst
  BY ExitReverseOrder, ThreadReverseOrder DEF MCInv, LastFirst
<1>2. QED
  BY <1>1, LifetimesInductive, PTL

\* Storage outlives what was constructed with its help, if destructors and callbacks
\* look up no keys.
THEOREM HelpersOutlive == ASSUME ~LookUps PROVE MCSpec => []NeededOutlive
<1>1. MCInv => NeededOutlive
  BY ThreadNeededOutlive DEF MCInv, NeededOutlive
<1>2. QED
  BY <1>1, LifetimesInductive, PTL

\* A key finds the storage that was constructed for it, and no other.
THEOREM KeysFindTheirOwn == MCSpec => []OwnStorage
<1>1. MCInv => OwnStorage
  BY ThreadOwnStorage DEF MCInv, OwnStorage
<1>2. QED
  BY <1>1, LifetimesInductive, PTL

\* Once the last strong reference was dropped no weak one brings the object back.
THEOREM NobodyRevives == MCSpec => NoRevival
<1>1. MCInv /\ [MCNext]_everything
        => [life = "dying" => ref' = 0]_(P!vars)
  <2> SUFFICES ASSUME MCInv, [MCNext]_everything
               PROVE  [life = "dying" => ref' = 0]_(P!vars)
    OBVIOUS
  <2>1. CASE program = "pointers"
    <3>1. [P!Next]_(P!vars)
      BY <2>1 DEF MCNext, everything, ofPointers, vars, P!vars, P!object, P!allocator, P!handles
    <3>2. QED
      BY <2>1, <3>1, NoneRevives DEF MCInv
  <2>2. CASE program # "pointers"
    BY <2>2 DEF MCInv, Off
  <2>3. QED
    BY <2>1, <2>2
<1>2. QED
  BY <1>1, LifetimesInductive, PTL DEF MCSpec, NoRevival, P!NoRevival

\* The counts of an object and its view are those of the references to them, and
\* neither dangles nor leaks, when there are at most two blocks.
THEOREM SharedObjectsAreSound ==
  ASSUME Careful, TwoBlocks PROVE MCSpec => []PointersSound
<1>1. MCInit => (program = "pointers" => TwoInv)
  BY TwoInitially DEF MCInit
<1>2. ASSUME MCInv, program = "pointers" => TwoInv,
             [MCNext]_everything
      PROVE  (program = "pointers" => TwoInv)'
  <2>1. SUFFICES ASSUME program' = "pointers" PROVE TwoInv'
    OBVIOUS
  <2>2. program = "pointers"
    BY <1>2, <2>1 DEF MCNext, everything
  <2>3. [P!Next]_(P!vars)
    BY <1>2, <2>2 DEF MCNext, everything, ofPointers, vars, P!vars, P!object, P!allocator, P!handles
  <2>4. QED
    BY <1>2, <2>2, <2>3, TwoPreserved DEF MCInv
<1>3. MCInv /\ (program = "pointers" => TwoInv) => PointersSound
  BY TwoSound DEF MCInv, PointersSound
<1>4. QED
  BY <1>1, <1>2, <1>3, LifetimesInductive, PTL DEF MCSpec

\* What was put out before a thread asks for input, or writes an error, is shown before
\* the call goes on.
THEOREM PromptsComeFirst == MCSpec => []PromptShown
<1>1. MCInv => PromptShown
  BY OutShows DEF MCInv, PromptShown
<1>2. QED
  BY <1>1, LifetimesInductive, PTL

\* Nothing is lost, repeated or put out of order or out of the storage on the way through
\* the standard streams, when whole code points come in and the program leaves out the
\* calls that do not work.
THEOREM StreamsKeepOrder == ASSUME Careful, Whole PROVE MCSpec => []StreamsSound
<1>1. MCInv /\ MCInit => (program = "streams" => InInv)
  BY InBegins, StreamsAssumption DEF MCInit, MCInv
<1>2. ASSUME MCInv, program = "streams" => InInv, [MCNext]_everything
      PROVE  (program = "streams" => InInv)'
  <2>1. SUFFICES ASSUME program' = "streams" PROVE InInv'
    OBVIOUS
  <2>2. program = "streams"
    BY <1>2, <2>1 DEF MCNext, everything
  <2>3. [IO!Next]_(IO!vars)
    BY <1>2, <2>2, StreamsStep
  <2>4. QED
    BY <1>2, <2>2, <2>3, InKeeps, InStays, StreamsAssumption DEF MCInv
<1>3. MCInv /\ (program = "streams" => InInv) => StreamsSound
  BY InShows DEF MCInv, StreamsSound
<1>4. QED
  BY <1>1, <1>2, <1>3, LifetimesInductive, PTL DEF MCSpec

=============================================================================
