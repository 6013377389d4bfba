------------------------------ MODULE ArraySpec ------------------------------
(***************************************************************************)
(* What array.h promises its callers, stated without memory: an array is a *)
(* finite sequence of items.  Every operation of array.c either edits that *)
(* sequence or leaves it alone (array_reserve, array_shrink and the two    *)
(* read operations).  An item that a caller adds without giving a value    *)
(* ("the location in the array remains uninitialized") may hold anything.  *)
(***************************************************************************)
EXTENDS Integers, Sequences

CONSTANTS Values,    \* the items callers store
          Undef,     \* the content of memory nobody has written
          MaxItems   \* the most items a caller ever asks an array to hold

VARIABLES seq,       \* the items, in order
          alive,     \* between array_init and array_dispose
          call       \* the insertion a caller has asked for, and its arguments

vars == <<seq, alive, call>>

Cells == Values \cup {Undef}

\* The contents that n items nobody has written yet may have.
Fill(n) == [1..n -> Cells]

\* The items in first+1..last are replaced by the sequence new.
Splice(first, last, new) ==
  /\ alive
  /\ seq' = SubSeq(seq, 1, first) \o (new \o SubSeq(seq, last + 1, Len(seq)))
  /\ UNCHANGED alive

\* A caller asks for num items to be inserted before item index+1; vals is empty
\* when it leaves them to be written later.
Ask(index, num, vals) ==
  /\ alive /\ ~call.active
  /\ call' = [active |-> TRUE, index |-> index, num |-> num, vals |-> vals]
  /\ UNCHANGED <<seq, alive>>

\* The insertion takes effect at once when it returns.
Insert(new) ==
  /\ call.active /\ ~call'.active
  /\ Len(new) = call.num
  /\ call.vals # <<>> => new = call.vals
  /\ Splice(call.index, call.index, new)

\* Erasing items, also the last ones when the array is cut off.
Erase(first, last) ==
  /\ ~call.active /\ UNCHANGED call
  /\ Splice(first, last, <<>>)

\* Replacing items in place.
Assign(index, new) ==
  /\ ~call.active /\ UNCHANGED call
  /\ Splice(index, index + Len(new), new)

\* Growing by items nobody has written.
Extend(new) ==
  /\ ~call.active /\ UNCHANGED call
  /\ Splice(Len(seq), Len(seq), new)

Dispose ==
  /\ alive /\ ~call.active /\ UNCHANGED call
  /\ seq' = <<>> /\ alive' = FALSE

Create ==
  /\ ~alive /\ UNCHANGED call
  /\ seq' = <<>> /\ alive' = TRUE

Init == seq = <<>> /\ alive = TRUE /\ ~call.active

Next ==
  \/ \E index \in 0..Len(seq), num \in 0..MaxItems :
       \E vals \in {<<>>} \cup [1..num -> Values] : Ask(index, num, vals)
  \/ \E n \in 0..MaxItems : \E new \in Fill(n) : Insert(new)
  \/ \E first \in 0..Len(seq), last \in 0..Len(seq) :
       first <= last /\ Erase(first, last)
  \/ \E index \in 0..Len(seq), n \in 0..Len(seq) :
       \E new \in Fill(n) : index + n <= Len(seq) /\ Assign(index, new)
  \/ \E n \in 0..MaxItems : \E new \in Fill(n) : Extend(new)
  \/ Dispose
  \/ Create

Spec == Init /\ [][Next]_vars
==============================================================================
