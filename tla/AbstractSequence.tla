-------------------------- MODULE AbstractSequence --------------------------
(***************************************************************************)
(* What every container promises: a sequence of elements that each call    *)
(* changes as its name says.  A call that throws changes nothing, unless   *)
(* it was to give all elements away or to replace them all: then they may  *)
(* be gone.                                                                *)
(***************************************************************************)
EXTENDS Integers, Sequences, SequencesExt

VARIABLES items,  \* the elements, in order
          call    \* the last call: what it did, where, with what, and whether it returned

Init == items = <<>> /\ call = [op |-> "new", at |-> 0, to |-> 0, vals |-> <<>>, done |-> TRUE]

\* What a call makes of the elements that were there before.
Effect(c, before) ==
  CASE c.op = "insert"  -> SubSeq(before, 1, c.at) \o c.vals \o SubSeq(before, c.at + 1, Len(before))
    [] c.op \in {"erase", "take"} -> SubSeq(before, 1, c.at) \o SubSeq(before, c.to + 1, Len(before))
    [] c.op = "replace" -> SubSeq(before, 1, c.at) \o c.vals \o SubSeq(before, c.to + 1, Len(before))
    [] c.op = "rotate"  -> SubSeq(before, c.at + 1, Len(before)) \o SubSeq(before, 1, c.at)
    [] c.op = "assign"  -> c.vals
    [] c.op = "extract" -> <<>>
    [] c.op = "reverse" -> Reverse(before)
    [] c.op \in {"keep", "look"} -> before

\* A call that hands elements out hands out those that were there.
Returned(c, before) == c.op \in {"take", "look"} => c.vals = SubSeq(before, c.at + 1, c.to)

Next == \E before \in {items}, after \in {items'} :
  /\ call' # call \/ after # before
  /\ IF call'.done
     THEN after = Effect(call', before) /\ Returned(call', before)
     ELSE \/ after = before
          \/ call'.op \in {"assign", "extract"} /\ after = <<>>

Spec == Init /\ [][Next]_<<items, call>>
=============================================================================
