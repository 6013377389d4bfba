------------------------------- MODULE LowArray -------------------------------
(***************************************************************************)
(* The dynamic array of array.c, on which every other part of the compiler *)
(* keeps its lists.  The memory block behind "items" is modelled with its  *)
(* true extent, which is what malloc was asked for and not what "capacity" *)
(* says; unsigned arithmetic wraps at UIntMod; and the doubling loop of    *)
(* array_grow is run step by step, so that the model hangs where the loop  *)
(* would.                                                                  *)
(*                                                                         *)
(* A NULL "items" is a block of extent 0: the code treats the two alike    *)
(* (realloc of NULL and malloc, free of nothing).  malloc does not fail.   *)
(***************************************************************************)
EXTENDS Integers, Sequences

CONSTANTS Values,    \* the items callers store
          Undef,     \* the content of memory nobody has written
          UIntMod,   \* 2^w, one more than the largest "unsigned"
          ItemSize,  \* item_size, in bytes
          MaxItems   \* the most items a caller ever asks an array to hold

ASSUME ConstantsAssumption ==
  /\ UIntMod \in Nat \ {0, 1}
  /\ ItemSize \in Nat \ {0}
  /\ MaxItems \in Nat
  /\ MaxItems < UIntMod
  /\ Undef \notin Values

VARIABLES size,      \* self->size
          capacity,  \* self->capacity
          items,     \* the cells of the block, a function on 0..extent-1
          extent,    \* how many items the block really has room for
          alive,     \* between array_init and array_dispose
          call,      \* the insertion in progress
          cap,       \* the local "cap" of array_grow during an insertion
          fault      \* an access outside the block has happened

vars == <<size, capacity, items, extent, alive, call, cap, fault>>

Cells == Values \cup {Undef}
UInt == 0..(UIntMod - 1)
Wrap(n) == n % UIntMod
Block(n) == [0..(n - 1) -> Cells]
NoBlock == [k \in 0..(-1) |-> Undef]
NoCall == [active |-> FALSE, index |-> 0, num |-> 0, vals |-> <<>>]

(***************************************************************************)
(* Memory.                                                                 *)
(***************************************************************************)
\* How many whole items fit in the block malloc returns for a capacity: the
\* byte count is itself an unsigned product.
ExtentFor(c) == Wrap(c * ItemSize) \div ItemSize

\* realloc keeps the common prefix; the rest of the new block is unwritten.
Realloc(c) ==
  [k \in 0..(ExtentFor(c) - 1) |-> IF k < extent THEN items[k] ELSE Undef]

array_reallocate(c) ==
  /\ items' = Realloc(c)
  /\ extent' = ExtentFor(c)
  /\ capacity' = c

\* n items from position lo on lie inside a block; a memcpy or memmove of
\* nothing touches nothing.
InBlock(lo, n, ext) == n = 0 \/ lo + n <= ext

\* Mutant: one item of the tail is left behind.
MoveTailOneShort(blk, from, to) ==
  [k \in DOMAIN blk |->
     IF to <= k /\ k < to + (size - from) - 1 THEN blk[k - to + from] ELSE blk[k]]

\* memmove of the items from "from" on to position "to".
array_move_tail(blk, from, to) ==
  [k \in DOMAIN blk |->
     IF to <= k /\ k < to + (size - from) THEN blk[k - to + from] ELSE blk[k]]

\* memcpy of the given items to position lo.
Copy(blk, lo, vals) ==
  [k \in DOMAIN blk |->
     IF lo <= k /\ k < lo + Len(vals) THEN vals[k - lo + 1] ELSE blk[k]]

(***************************************************************************)
(* Operations.  The asserts of the code are guards: callers keep them.     *)
(***************************************************************************)
Ready == alive /\ ~call.active /\ ~fault
Idle == UNCHANGED <<call, cap, fault>>
KeepBlock == UNCHANGED <<capacity, items, extent>>

array_init ==
  /\ ~alive
  /\ size' = 0 /\ capacity' = 0 /\ extent' = 0 /\ items' = NoBlock
  /\ alive' = TRUE
  /\ Idle

\* Frees the block but leaves size and capacity as they were.
array_dispose ==
  /\ Ready
  /\ extent' = 0 /\ items' = NoBlock
  /\ alive' = FALSE
  /\ UNCHANGED <<size, capacity>> /\ Idle

array_reserve(c) ==
  /\ Ready
  /\ capacity < c
  /\ array_reallocate(c)
  /\ UNCHANGED <<size, alive>> /\ Idle

\* Mutant: the size grows and the block does not.
ResizeWithoutRealloc(n) ==
  /\ Ready
  /\ size' = n
  /\ KeepBlock /\ UNCHANGED alive /\ Idle

array_resize(n) ==
  /\ Ready
  /\ IF capacity < n THEN array_reallocate(n) ELSE KeepBlock
  /\ size' = n
  /\ UNCHANGED alive /\ Idle

array_shrink ==
  /\ Ready
  /\ size # capacity
  /\ array_reallocate(size)
  /\ UNCHANGED <<size, alive>> /\ Idle

\* The value behind the pointer array_get returns.
array_get(index) == items[index]

\* array_set is the case of one item.
array_set_many(index, vals) ==
  /\ Ready
  /\ index + Len(vals) <= size
  /\ IF InBlock(index, Len(vals), extent)
       THEN items' = Copy(items, index, vals) /\ UNCHANGED fault
       ELSE UNCHANGED items /\ fault' = TRUE
  /\ UNCHANGED <<size, capacity, extent, alive, call, cap>>

\* Mutant: the doubling starts from a capacity of 0.
InsertFromZero(index, num, vals) ==
  /\ Ready
  /\ index <= size
  /\ call' = [active |-> TRUE, index |-> index, num |-> num, vals |-> vals]
  /\ cap' = capacity
  /\ UNCHANGED <<size, alive, fault>> /\ KeepBlock

\* array_insert (one item) and array_insert_many, up to the loop of array_grow.
\* vals is the empty sequence when the caller passes no items.
array_insert_many(index, num, vals) ==
  /\ Ready
  /\ index <= size
  /\ call' = [active |-> TRUE, index |-> index, num |-> num, vals |-> vals]
  /\ cap' = IF capacity = 0 THEN 1 ELSE capacity
  /\ UNCHANGED <<size, alive, fault>> /\ KeepBlock

array_add_many(num, vals) == array_insert_many(size, num, vals)

\* The locals of array_grow: "req" and the test whether the block must grow.
Req == Wrap(size + call.num)
MustGrow == capacity < Req

\* Mutant: the array grows to what is asked for and no further.
GrowToFit ==
  /\ call.active /\ ~fault
  /\ MustGrow /\ cap < Req
  /\ cap' = Req
  /\ UNCHANGED <<size, alive, call, fault>> /\ KeepBlock

\* One round of the loop in array_grow.
GrowLoop ==
  /\ call.active /\ ~fault
  /\ MustGrow /\ cap < Req
  /\ cap' = Wrap(cap * 2)
  /\ UNCHANGED <<size, alive, call, fault>> /\ KeepBlock

\* The memory after array_grow.
GrownBlock == IF MustGrow THEN Realloc(cap) ELSE items
GrownExtent == IF MustGrow THEN ExtentFor(cap) ELSE extent

\* What insertion does once there is room: open a gap, then fill it.
Inserted(blk) ==
  LET gap == IF call.index < size
               THEN array_move_tail(blk, call.index, call.index + call.num)
               ELSE blk
  IN  Copy(gap, call.index, call.vals)

\* The rest of the insertion, from the end of array_grow to the return.
FinishInsert ==
  /\ call.active /\ ~fault
  /\ MustGrow => cap >= Req
  /\ capacity' = IF MustGrow THEN cap ELSE capacity
  /\ extent' = GrownExtent
  /\ IF /\ InBlock(call.index + call.num, size - call.index, GrownExtent)
        /\ InBlock(call.index, Len(call.vals), GrownExtent)
       THEN items' = Inserted(GrownBlock) /\ UNCHANGED fault
       ELSE items' = GrownBlock /\ fault' = TRUE
  /\ size' = Req
  /\ call' = NoCall /\ cap' = 0
  /\ UNCHANGED alive

\* array_erase is the range of one item.  Without a tail nothing is moved; the
\* memmove reads the tail and writes below it.
array_erase_range(first, last) ==
  /\ Ready
  /\ first <= last /\ last <= size
  /\ IF InBlock(last, size - last, extent)
       THEN items' = array_move_tail(items, last, first) /\ UNCHANGED fault
       ELSE UNCHANGED items /\ fault' = TRUE
  /\ size' = size - (last - first)
  /\ UNCHANGED <<capacity, extent, alive, call, cap>>

\* array_remove is the case of one item; array_clear removes them all.
array_remove_many(num) ==
  /\ Ready
  /\ num <= size
  /\ size' = size - num
  /\ KeepBlock /\ UNCHANGED alive /\ Idle

array_clear ==
  /\ Ready
  /\ size' = 0
  /\ KeepBlock /\ UNCHANGED alive /\ Idle

Init ==
  /\ size = 0 /\ capacity = 0 /\ extent = 0 /\ items = NoBlock
  /\ alive = TRUE /\ call = NoCall /\ cap = 0 /\ fault = FALSE

\* The arguments of an insertion: num items, given or left unwritten.
Given(num) == {<<>>} \cup [1..num -> Values]

Next ==
  \/ array_init
  \/ array_dispose
  \/ \E c \in 0..MaxItems : array_reserve(c)
  \/ \E n \in 0..MaxItems : array_resize(n)
  \/ array_shrink
  \/ \E index \in 0..size, num \in 0..MaxItems :
       \E vals \in [1..num -> Values] : array_set_many(index, vals)
  \/ \E index \in 0..size, num \in 0..(MaxItems - size) :
       \E vals \in Given(num) : array_insert_many(index, num, vals)
  \/ \E num \in 0..(MaxItems - size) :
       \E vals \in Given(num) : array_add_many(num, vals)
  \/ GrowLoop
  \/ FinishInsert
  \/ \E first \in 0..size, last \in 0..size : array_erase_range(first, last)
  \/ \E num \in 0..MaxItems : array_remove_many(num)
  \/ array_clear

Spec == Init /\ [][Next]_vars

\* A call, once made, runs: the program is sequential.
FairSpec == Spec /\ WF_vars(GrowLoop) /\ WF_vars(FinishInsert)

(***************************************************************************)
(* Properties.                                                             *)
(***************************************************************************)
\* Types; all sizes stay within "unsigned" (array_remove_many never goes below 0).
TypeInvariant ==
  /\ size \in UInt /\ capacity \in UInt /\ extent \in UInt /\ cap \in UInt
  /\ items \in Block(extent)
  /\ alive \in BOOLEAN /\ fault \in BOOLEAN
  /\ call \in [active : BOOLEAN, index : UInt, num : UInt, vals : Seq(Values)]

\* No operation reads or writes outside the memory block, in any order of calls
\* that keeps the asserts of array.c (the memcpy and memmove of array_set_many,
\* array_insert_many and array_erase_range).
NoFault == ~fault

\* The block has room for every item the array holds and for every item that
\* "capacity" claims, as array_reserve, array_resize and array_get rely on.
BlockHoldsCapacity == alive => size <= capacity /\ capacity <= extent

\* When an insertion makes the block grow, the capacity at least doubles, so that
\* adding items one by one copies each of them a bounded number of times, and stays
\* below twice what is needed (the loop of array_grow).
GrowthIsGeometric ==
  [][call.active /\ capacity' # capacity
       => capacity' >= 2 * capacity /\ capacity' < 2 * size']_vars

\* Every insertion returns: the loop of array_grow ends.
InsertReturns == call.active ~> ~call.active

\* The items a caller reads with array_get, in order.
Contents == IF alive THEN [i \in 1..size |-> array_get(i - 1)] ELSE <<>>

Abstract == INSTANCE ArraySpec WITH seq <- Contents

\* The array implements the sequence of ArraySpec: no order of grows, moves and
\* shrinks loses, duplicates or reorders an item (array_get reads the sequence),
\* and an insertion puts exactly the given items in the gap.
ImplementsArraySpec == Abstract!Spec

\* The requests a caller may make without any unsigned overflow in array.c.
NoOverflow == 2 * MaxItems * ItemSize <= UIntMod
==============================================================================
