--------------------------- MODULE LowArrayProofs ---------------------------
(***************************************************************************)
(* Proofs about LowArray for every set of values, every width of unsigned  *)
(* and every item size, as long as no product in array.c overflows.        *)
(***************************************************************************)
EXTENDS LowArray, SequenceTheorems, TLAPS

\* An insertion in progress: its arguments fit, and the loop of array_grow has
\* not gone beyond twice what is required.
CallInvariant ==
  call.active =>
    /\ alive
    /\ call.index <= size
    /\ size + call.num <= MaxItems
    /\ call.vals = <<>> \/ Len(call.vals) = call.num
    /\ cap >= 1 /\ cap >= capacity
    /\ capacity > 0 =>
         (capacity < size + call.num => cap >= 2 * capacity \/ cap = capacity)
    /\ capacity < size + call.num => cap < 2 * (size + call.num)

\* The inductive strengthening of NoFault and BlockHoldsCapacity.
ArrayInvariant ==
  /\ TypeInvariant
  /\ NoFault
  /\ size <= MaxItems
  /\ capacity <= MaxItems \/ capacity < 2 * MaxItems
  /\ alive => size <= capacity /\ extent = capacity
  /\ ~alive => extent = 0
  /\ CallInvariant

-----------------------------------------------------------------------------
\* A function on 1..n is a sequence of length n.
LEMMA FunctionIsSeq ==
  ASSUME NEW S, NEW n \in Nat, NEW s \in [1..n -> S]
  PROVE  s \in Seq(S) /\ Len(s) = n
<1>1. s \in Seq(S)
  BY SeqDef
<1>2. Len(s) \in Nat /\ 1..Len(s) = 1..n
  BY <1>1, LenProperties
<1> QED
  BY <1>1, <1>2

LEMMA WrapSmall ==
  ASSUME NEW n \in Nat, n < UIntMod
  PROVE  Wrap(n) = n
BY ConstantsAssumption DEF Wrap

LEMMA DivCancels ==
  ASSUME NEW c \in Nat, NEW k \in Nat \ {0}
  PROVE  (c * k) \div k = c
OBVIOUS

\* With no overflow, malloc is asked for exactly the bytes of c items.
LEMMA ExtentIsCapacity ==
  ASSUME NoOverflow, NEW c \in Nat, c <= MaxItems \/ c < 2 * MaxItems
  PROVE  ExtentFor(c) = c /\ c < UIntMod
<1>1. c * ItemSize < UIntMod /\ c * ItemSize \in Nat
  BY ConstantsAssumption DEF NoOverflow
<1>2. c < UIntMod
  BY <1>1, ConstantsAssumption
<1> QED
  BY <1>1, <1>2, WrapSmall, DivCancels, ConstantsAssumption DEF ExtentFor

-----------------------------------------------------------------------------
LEMMA InitEstablishes == Init => ArrayInvariant
<1>1. NoBlock \in Block(0)
  BY DEF NoBlock, Block, Cells
<1>2. <<>> \in Seq(Values) /\ 0 \in UInt
  BY ConstantsAssumption DEF UInt
<1>3. NoCall \in [active : BOOLEAN, index : UInt, num : UInt, vals : Seq(Values)]
  BY <1>2 DEF NoCall
<1>4. ~NoCall.active
  BY DEF NoCall
<1>5. ASSUME Init PROVE ArrayInvariant
  <2>1. size = 0 /\ capacity = 0 /\ extent = 0 /\ cap = 0 /\ items = NoBlock
        /\ call = NoCall
    BY <1>5 DEF Init
  <2>2. alive /\ ~fault /\ alive \in BOOLEAN /\ fault \in BOOLEAN
    BY <1>5 DEF Init
  <2>3. TypeInvariant
    BY <1>1, <1>2, <1>3, <2>1, <2>2 DEF TypeInvariant
  <2> QED
    BY <1>4, <2>1, <2>2, <2>3, ConstantsAssumption
       DEF ArrayInvariant, NoFault, CallInvariant
<1> QED
  BY <1>5

\* Reallocating to an admissible capacity gives a block of exactly that many
\* cells.
LEMMA ReallocateType ==
  ASSUME NoOverflow, TypeInvariant,
         NEW c \in Nat, c <= MaxItems \/ c < 2 * MaxItems
  PROVE  Realloc(c) \in Block(c) /\ ExtentFor(c) = c /\ c \in UInt
<1>1. ExtentFor(c) = c /\ c < UIntMod
  BY ExtentIsCapacity
<1>2. c \in UInt
  BY <1>1, ConstantsAssumption DEF UInt
<1>3. ASSUME NEW k \in 0..(c - 1)
      PROVE  (IF k < extent THEN items[k] ELSE Undef) \in Cells
  BY DEF TypeInvariant, Block, Cells, UInt
<1> QED
  BY <1>1, <1>2, <1>3 DEF Realloc, Block

\* memmove and memcpy keep the shape of a block.
LEMMA MoveTailType ==
  ASSUME NEW n \in Nat, NEW blk \in Block(n), size \in Nat,
         NEW from \in Nat, from <= size,
         NEW to \in Nat, from < to => to + (size - from) <= n,
         size <= n \/ from < to
  PROVE  array_move_tail(blk, from, to) \in Block(n)
<1>1. ASSUME NEW k \in 0..(n - 1), to <= k, k < to + (size - from)
      PROVE  k - to + from \in 0..(n - 1)
  BY <1>1
<1> QED
  BY <1>1 DEF array_move_tail, Block

LEMMA CopyType ==
  ASSUME NEW n \in Nat, NEW blk \in Block(n),
         NEW lo \in Nat, NEW vals \in Seq(Values)
  PROVE  Copy(blk, lo, vals) \in Block(n)
<1>1. ASSUME NEW k \in 0..(n - 1), lo <= k, k < lo + Len(vals)
      PROVE  vals[k - lo + 1] \in Cells
  <2>1. k - lo + 1 \in 1..Len(vals)
    BY <1>1
  <2> QED
    BY <2>1 DEF Cells
<1> QED
  BY <1>1 DEF Copy, Block

-----------------------------------------------------------------------------
\* What the invariant says about the numbers, in the form the steps use.
LEMMA Facts ==
  ASSUME ArrayInvariant
  PROVE  /\ size \in Nat /\ capacity \in Nat /\ extent \in Nat /\ cap \in Nat
         /\ call.index \in Nat /\ call.num \in Nat /\ call.vals \in Seq(Values)
         /\ items \in Block(extent)
         /\ MaxItems \in Nat /\ UIntMod \in Nat
         /\ size < UIntMod /\ capacity < UIntMod
BY ConstantsAssumption DEF ArrayInvariant, TypeInvariant, UInt

LEMMA ReallocatingSteps ==
  ASSUME NoOverflow, ArrayInvariant, Ready, Idle, UNCHANGED alive,
         NEW c \in 0..MaxItems, NEW n \in 0..c, size' = n,
         array_reallocate(c)
  PROVE  ArrayInvariant'
<1>1. /\ capacity' = c /\ extent' = c /\ c \in UInt
      /\ items' \in Block(c)
  BY ReallocateType, ConstantsAssumption DEF array_reallocate, ArrayInvariant
<1>2. n \in UInt
  BY <1>1, ConstantsAssumption DEF UInt
<1>3. TypeInvariant'
  BY <1>1, <1>2 DEF ArrayInvariant, TypeInvariant, Idle
<1>4. ~call'.active
  BY DEF Idle, Ready
<1> QED
  BY <1>1, <1>3, <1>4, ConstantsAssumption
     DEF ArrayInvariant, NoFault, CallInvariant, Idle, Ready

LEMMA ShrinkingSteps ==
  ASSUME ArrayInvariant, Ready, Idle, UNCHANGED <<alive, capacity, extent>>,
         items' \in Block(extent), size' \in 0..capacity, size' <= MaxItems
  PROVE  ArrayInvariant'
<1>1. size' \in UInt
  BY Facts DEF UInt
<1>2. TypeInvariant'
  BY <1>1 DEF ArrayInvariant, TypeInvariant, Idle
<1>3. ~call'.active
  BY DEF Idle, Ready
<1> QED
  BY <1>2, <1>3, Facts DEF ArrayInvariant, NoFault, CallInvariant, Idle, Ready

LEMMA InitStep == ASSUME ArrayInvariant, array_init PROVE ArrayInvariant'
<1>1. NoBlock \in Block(0) /\ 0 \in UInt
  BY ConstantsAssumption DEF NoBlock, Block, Cells, UInt
<1>2. alive' /\ alive' \in BOOLEAN /\ ~call.active
  BY DEF array_init, ArrayInvariant, CallInvariant
<1>3. TypeInvariant'
  BY <1>1, <1>2 DEF array_init, ArrayInvariant, TypeInvariant, Idle
<1> QED
  BY <1>2, <1>3, ConstantsAssumption
     DEF array_init, ArrayInvariant, NoFault, CallInvariant, Idle

LEMMA DisposeStep == ASSUME ArrayInvariant, array_dispose PROVE ArrayInvariant'
<1>1. NoBlock \in Block(0) /\ 0 \in UInt
  BY ConstantsAssumption DEF NoBlock, Block, Cells, UInt
<1>2. ~alive' /\ alive' \in BOOLEAN /\ ~call.active
  BY DEF array_dispose, Ready
<1>3. TypeInvariant'
  BY <1>1, <1>2 DEF array_dispose, ArrayInvariant, TypeInvariant, Idle
<1> QED
  BY <1>2, <1>3
     DEF array_dispose, ArrayInvariant, NoFault, CallInvariant, Idle

LEMMA SetStep ==
  ASSUME ArrayInvariant, NEW index \in Nat, NEW vals \in Seq(Values),
         array_set_many(index, vals)
  PROVE  ArrayInvariant'
<1>1. Ready /\ index + Len(vals) <= extent
  BY Facts DEF array_set_many, ArrayInvariant, Ready
<1>2. InBlock(index, Len(vals), extent)
  BY <1>1 DEF InBlock
<1>3. items' = Copy(items, index, vals) /\ UNCHANGED fault
  BY <1>2 DEF array_set_many
<1>4. items' \in Block(extent)
  BY <1>3, Facts, CopyType
<1> QED
  BY <1>1, <1>3, <1>4, Facts, ShrinkingSteps
     DEF array_set_many, Idle, ArrayInvariant, Ready

LEMMA EraseStep ==
  ASSUME ArrayInvariant, NEW first \in Nat, NEW last \in Nat,
         array_erase_range(first, last)
  PROVE  ArrayInvariant'
<1>1. Ready /\ first <= last /\ last <= size /\ size <= extent /\ size <= capacity
  BY DEF array_erase_range, ArrayInvariant, Ready
<1>2. array_move_tail(items, last, first) \in Block(extent)
  BY <1>1, Facts, MoveTailType
<1>3. InBlock(last, size - last, extent)
  BY <1>1, Facts DEF InBlock
<1>4. items' \in Block(extent) /\ UNCHANGED fault
  BY <1>2, <1>3 DEF array_erase_range
<1>5. size' \in 0..capacity /\ size' <= size /\ size <= MaxItems
  <2>1. size' = size - (last - first)
    BY DEF array_erase_range
  <2>2. size \in Nat /\ capacity \in Nat /\ size <= MaxItems
    BY Facts DEF ArrayInvariant
  <2> QED
    BY <1>1, <2>1, <2>2
<1>6. Idle /\ UNCHANGED <<alive, capacity, extent>> /\ size' <= MaxItems
  BY <1>4, <1>5, Facts DEF array_erase_range, Idle
<1> QED
  BY <1>1, <1>4, <1>5, <1>6, ShrinkingSteps

LEMMA BeginInsertStep ==
  ASSUME ArrayInvariant, NEW index \in 0..size, NEW num \in 0..(MaxItems - size),
         NEW vals \in Given(num), array_insert_many(index, num, vals)
  PROVE  ArrayInvariant'
<1>1. vals \in Seq(Values) /\ (vals = <<>> \/ Len(vals) = num)
  <2>1. CASE vals = <<>>
    BY <2>1
  <2>2. CASE vals \in [1..num -> Values]
    BY <2>2, FunctionIsSeq, Facts
  <2> QED
    BY <2>1, <2>2 DEF Given
<1>2. index \in UInt /\ num \in UInt
  BY Facts, ConstantsAssumption DEF UInt
<1>3. /\ call' = [active |-> TRUE, index |-> index, num |-> num, vals |-> vals]
      /\ call' \in [active : BOOLEAN, index : UInt, num : UInt, vals : Seq(Values)]
      /\ call'.index = index /\ call'.num = num /\ call'.vals = vals
  BY <1>1, <1>2 DEF array_insert_many
<1>4. cap' = IF capacity = 0 THEN 1 ELSE capacity
  BY DEF array_insert_many
<1>5. cap' \in UInt
  <2>1. UIntMod \in Nat /\ 1 < UIntMod
    BY ConstantsAssumption
  <2>2. capacity \in UInt
    BY DEF ArrayInvariant, TypeInvariant
  <2> QED
    BY <1>4, <2>1, <2>2 DEF UInt
<1>6. TypeInvariant'
  BY <1>3, <1>5 DEF array_insert_many, KeepBlock, ArrayInvariant, TypeInvariant
<1>7. alive /\ alive' /\ size <= capacity /\ size' = size /\ capacity' = capacity
  BY DEF array_insert_many, KeepBlock, Ready, ArrayInvariant
<1>8. CallInvariant'
  BY <1>1, <1>3, <1>4, <1>7, Facts, SMTT(30) DEF CallInvariant
<1> QED
  BY <1>6, <1>8, <1>7 DEF array_insert_many, KeepBlock, ArrayInvariant, NoFault

\* During an insertion that keeps within the bound, the sum of array_grow does
\* not wrap.
LEMMA ReqExact ==
  ASSUME ArrayInvariant, call.active
  PROVE  Req = size + call.num /\ Req \in Nat /\ Req <= MaxItems
BY Facts, WrapSmall, ConstantsAssumption DEF Req, ArrayInvariant, CallInvariant

LEMMA GrowLoopStep ==
  ASSUME NoOverflow, ArrayInvariant, GrowLoop
  PROVE  ArrayInvariant'
<1>1. call.active /\ capacity < Req /\ cap < Req
  BY DEF GrowLoop, MustGrow
<1>2. Req = size + call.num /\ Req \in Nat /\ Req <= MaxItems
  BY <1>1, ReqExact
<1>3. cap * 2 \in Nat /\ cap * 2 < 2 * MaxItems
  BY <1>1, <1>2, Facts, SMTT(30)
<1>4. cap * 2 < UIntMod
  BY <1>3, Facts, ExtentIsCapacity
<1>5. cap' = cap * 2
  BY <1>3, <1>4, WrapSmall DEF GrowLoop
<1>6. cap' \in UInt
  BY <1>3, <1>4, <1>5, Facts DEF UInt
<1>7. TypeInvariant'
  BY <1>6 DEF GrowLoop, KeepBlock, ArrayInvariant, TypeInvariant
<1>8. CallInvariant'
  <2>1. /\ alive /\ call.index <= size
        /\ call.vals = <<>> \/ Len(call.vals) = call.num
        /\ cap >= 1 /\ cap >= capacity
    BY <1>1 DEF ArrayInvariant, CallInvariant
  <2>2. UNCHANGED <<alive, call, size, capacity>>
    BY DEF GrowLoop, KeepBlock
  <2>3. cap' >= 1 /\ cap' >= capacity /\ cap' >= 2 * capacity /\ cap' < 2 * Req
    <3>1. cap \in Nat /\ capacity \in Nat
      BY Facts
    <3> QED
      BY <1>1, <1>2, <1>5, <2>1, <3>1
  <2> QED
    BY <1>2, <2>1, <2>2, <2>3 DEF CallInvariant
<1> QED
  BY <1>7, <1>8 DEF GrowLoop, KeepBlock, ArrayInvariant, NoFault

\* The memory after array_grow has room for the items to come.
LEMMA GrownRoom ==
  ASSUME NoOverflow, ArrayInvariant, FinishInsert
  PROVE  /\ GrownExtent \in Nat /\ GrownBlock \in Block(GrownExtent)
         /\ Req <= GrownExtent
         /\ capacity' = GrownExtent /\ extent' = GrownExtent
         /\ GrownExtent \in UInt
         /\ GrownExtent <= MaxItems \/ GrownExtent < 2 * MaxItems
<1>1. call.active /\ alive
  BY DEF FinishInsert, ArrayInvariant, CallInvariant
<1>2. Req = size + call.num /\ Req \in Nat /\ Req <= MaxItems
  BY <1>1, ReqExact
<1>3. CASE MustGrow
  <2>1. Req <= cap /\ cap < 2 * MaxItems
    BY <1>1, <1>2, <1>3, Facts, SMTT(30)
       DEF FinishInsert, MustGrow, ArrayInvariant, CallInvariant
  <2>2. Realloc(cap) \in Block(cap) /\ ExtentFor(cap) = cap /\ cap \in UInt
    BY <2>1, Facts, ReallocateType DEF ArrayInvariant
  <2> QED
    BY <1>2, <1>3, <2>1, <2>2, Facts DEF FinishInsert, GrownExtent, GrownBlock
<1>4. CASE ~MustGrow
  BY <1>1, <1>2, <1>4, Facts
     DEF FinishInsert, GrownExtent, GrownBlock, MustGrow, ArrayInvariant,
         TypeInvariant
<1> QED
  BY <1>3, <1>4

LEMMA InsertedType ==
  ASSUME ArrayInvariant, call.active, NEW n \in Nat, NEW blk \in Block(n),
         size + call.num <= n
  PROVE  Inserted(blk) \in Block(n)
<1>1. call.index <= size
  BY DEF ArrayInvariant, CallInvariant
<1>2. CASE call.index < size
  <2>1. array_move_tail(blk, call.index, call.index + call.num) \in Block(n)
    BY <1>1, Facts, MoveTailType, SMTT(30)
  <2> QED
    BY <1>2, <2>1, Facts, CopyType DEF Inserted
<1>3. CASE ~(call.index < size)
  BY <1>3, Facts, CopyType DEF Inserted
<1> QED
  BY <1>2, <1>3

LEMMA FinishInsertStep ==
  ASSUME NoOverflow, ArrayInvariant, FinishInsert
  PROVE  /\ ArrayInvariant'
         /\ items' = Inserted(GrownBlock) /\ size' = size + call.num
<1>1. call.active /\ alive /\ call.index <= size
      /\ (call.vals = <<>> \/ Len(call.vals) = call.num)
  BY DEF FinishInsert, ArrayInvariant, CallInvariant
<1>2. Req = size + call.num /\ Req \in Nat /\ Req <= MaxItems
  BY <1>1, ReqExact
<1>3. /\ InBlock(call.index + call.num, size - call.index, GrownExtent)
      /\ InBlock(call.index, Len(call.vals), GrownExtent)
  <2>1. Len(call.vals) = 0 \/ Len(call.vals) = call.num
    BY <1>1
  <2>2. size + call.num <= GrownExtent /\ GrownExtent \in Nat
    BY <1>2, GrownRoom
  <2> QED
    <3>1. size \in Nat /\ call.index \in Nat /\ call.num \in Nat
      BY Facts
    <3> QED
      BY <1>1, <2>1, <2>2, <3>1 DEF InBlock
<1>4. items' = Inserted(GrownBlock) /\ UNCHANGED fault
  BY <1>3 DEF FinishInsert
<1>5. items' \in Block(extent')
  BY <1>1, <1>2, <1>4, GrownRoom, InsertedType
<1>6. size' = size + call.num /\ size' \in UInt
  BY <1>2, ConstantsAssumption DEF FinishInsert, UInt
<1>7. NoCall \in [active : BOOLEAN, index : UInt, num : UInt, vals : Seq(Values)]
      /\ 0 \in UInt /\ ~NoCall.active
  BY ConstantsAssumption DEF UInt, NoCall
<1>8. TypeInvariant'
  BY <1>4, <1>5, <1>6, <1>7, GrownRoom
     DEF FinishInsert, ArrayInvariant, TypeInvariant
<1>9. alive' /\ ~fault' /\ ~call'.active
  BY <1>1, <1>4, <1>7 DEF FinishInsert, ArrayInvariant, NoFault
<1> QED
  BY <1>2, <1>4, <1>6, <1>8, <1>9, GrownRoom, Facts
     DEF ArrayInvariant, NoFault, CallInvariant

-----------------------------------------------------------------------------
LEMMA NextPreserves ==
  ASSUME NoOverflow, ArrayInvariant, [Next]_vars
  PROVE  ArrayInvariant'
<1>1. CASE array_init
  BY <1>1, InitStep
<1>2. CASE array_dispose
  BY <1>2, DisposeStep
<1>3. ASSUME NEW c \in 0..MaxItems, array_reserve(c)
      PROVE  ArrayInvariant'
  <2>1. size \in 0..c
    BY <1>3, Facts DEF array_reserve, Ready, ArrayInvariant
  <2> QED
    BY <1>3, <2>1, ReallocatingSteps DEF array_reserve
<1>4. ASSUME NEW n \in 0..MaxItems, array_resize(n)
      PROVE  ArrayInvariant'
  <2>1. CASE capacity < n
    BY <1>4, <2>1, ReallocatingSteps DEF array_resize
  <2>2. CASE ~(capacity < n)
    BY <1>4, <2>2, ShrinkingSteps, Facts DEF array_resize, KeepBlock
  <2> QED
    BY <2>1, <2>2
<1>5. CASE array_shrink
  <2>1. size \in 0..MaxItems /\ size \in 0..size
    BY Facts DEF ArrayInvariant
  <2> QED
    BY <1>5, <2>1, ReallocatingSteps DEF array_shrink
<1>6. ASSUME NEW index \in 0..size, NEW num \in 0..MaxItems,
             NEW vals \in [1..num -> Values], array_set_many(index, vals)
      PROVE  ArrayInvariant'
  <2>1. vals \in Seq(Values) /\ index \in Nat
    BY Facts, FunctionIsSeq
  <2> QED
    BY <1>6, <2>1, SetStep
<1>7. ASSUME NEW index \in 0..size, NEW num \in 0..(MaxItems - size),
             NEW vals \in Given(num), array_insert_many(index, num, vals)
      PROVE  ArrayInvariant'
  BY <1>7, BeginInsertStep
<1>8. ASSUME NEW num \in 0..(MaxItems - size),
             NEW vals \in Given(num), array_add_many(num, vals)
      PROVE  ArrayInvariant'
  <2>1. size \in 0..size
    BY Facts
  <2> QED
    BY <1>8, <2>1, BeginInsertStep DEF array_add_many
<1>9. CASE GrowLoop
  BY <1>9, GrowLoopStep
<1>10. CASE FinishInsert
  BY <1>10, FinishInsertStep
<1>11. ASSUME NEW first \in 0..size, NEW last \in 0..size,
              array_erase_range(first, last)
       PROVE  ArrayInvariant'
  BY <1>11, EraseStep, Facts
<1>12. ASSUME NEW num \in 0..MaxItems, array_remove_many(num)
       PROVE  ArrayInvariant'
  <2>1. size' \in 0..capacity /\ size' <= MaxItems
    BY <1>12, Facts DEF array_remove_many, Ready, ArrayInvariant
  <2> QED
    BY <1>12, <2>1, ShrinkingSteps, Facts DEF array_remove_many, KeepBlock
<1>13. CASE array_clear
  BY <1>13, ShrinkingSteps, Facts DEF array_clear, KeepBlock
<1>14. CASE UNCHANGED vars
  BY <1>14 DEF vars, ArrayInvariant, TypeInvariant, NoFault, CallInvariant
<1> QED
  BY <1>1, <1>2, <1>3, <1>4, <1>5, <1>6, <1>7, <1>8, <1>9, <1>10, <1>11, <1>12,
     <1>13, <1>14 DEF Next

LEMMA ArrayInvariantHolds ==
  ASSUME NoOverflow
  PROVE  Spec => []ArrayInvariant
<1>1. Init => ArrayInvariant
  BY InitEstablishes
<1>2. ArrayInvariant /\ [Next]_vars => ArrayInvariant'
  BY NextPreserves
<1> QED
  BY <1>1, <1>2, PTL DEF Spec

\* The fields of array_t keep their ranges (array.h:5-15), for every order of calls
\* that keeps the asserts of array.c and every size that does not overflow.
THEOREM ArrayIsTyped ==
  ASSUME NoOverflow
  PROVE  Spec => []TypeInvariant
<1>1. ArrayInvariant => TypeInvariant
  BY DEF ArrayInvariant
<1> QED
  BY <1>1, ArrayInvariantHolds, PTL

\* The memory region has room for as many items as capacity says (array.h:8-9), and
\* size items are among them, under the same conditions.
THEOREM ArrayBlockHoldsCapacity ==
  ASSUME NoOverflow
  PROVE  Spec => []BlockHoldsCapacity
<1>1. ArrayInvariant => BlockHoldsCapacity
  BY Facts DEF ArrayInvariant, BlockHoldsCapacity
<1> QED
  BY <1>1, ArrayInvariantHolds, PTL

\* No call of array.c touches memory outside its block, under the same conditions.
THEOREM ArrayIsMemorySafe ==
  ASSUME NoOverflow
  PROVE  Spec => []NoFault
<1>1. ArrayInvariant => NoFault
  BY DEF ArrayInvariant
<1> QED
  BY <1>1, ArrayInvariantHolds, PTL

\* An insertion that has to grow the block at least doubles it and never asks for
\* twice what it needs.
THEOREM GrowthBounds ==
  ASSUME NoOverflow
  PROVE  Spec => GrowthIsGeometric
<1> DEFINE A == call.active /\ capacity' # capacity
                  => capacity' >= 2 * capacity /\ capacity' < 2 * size'
<1>1. ASSUME ArrayInvariant, [Next]_vars PROVE [A]_vars
  <2>1. CASE FinishInsert
    <3>1. ASSUME call.active, capacity' # capacity
          PROVE  capacity' >= 2 * capacity /\ capacity' < 2 * size'
      <4>1. Req = size + call.num /\ size' = size + call.num
        BY <1>1, <2>1, <3>1, ReqExact DEF FinishInsert
      <4>2. capacity' = cap /\ capacity < Req /\ cap >= Req
        BY <2>1, <3>1 DEF FinishInsert, MustGrow
      <4>3. size \in Nat /\ call.num \in Nat /\ capacity \in Nat /\ cap \in Nat
        BY <1>1, Facts
      <4>4. /\ capacity > 0 => cap >= 2 * capacity \/ cap = capacity
            /\ cap < 2 * (size + call.num)
        BY <1>1, <3>1, <4>1, <4>2 DEF ArrayInvariant, CallInvariant
      <4> QED
        BY <4>1, <4>2, <4>3, <4>4
    <3> QED
      BY <3>1
  <2>2. CASE ~FinishInsert
    <3>1. ~call.active \/ UNCHANGED capacity
      BY <1>1, <2>2
         DEF Next, array_init, array_dispose, array_reserve, array_resize,
             array_shrink, array_set_many, array_insert_many, array_add_many,
             GrowLoop, array_erase_range, array_remove_many, array_clear, Ready,
             KeepBlock, ArrayInvariant, CallInvariant, vars
    <3> QED
      BY <3>1
  <2> QED
    BY <2>1, <2>2
<1>2. Spec => []ArrayInvariant
  BY InitEstablishes, NextPreserves, PTL DEF Spec
<1>3. ArrayInvariant /\ [Next]_vars => [A]_vars
  BY <1>1
<1> QED
  BY <1>2, <1>3, PTL DEF Spec, GrowthIsGeometric

-----------------------------------------------------------------------------
(***************************************************************************)
(* The array implements ArraySpec.                                         *)
(***************************************************************************)
Spliced(s, a, b, new) == SubSeq(s, 1, a) \o (new \o SubSeq(s, b + 1, Len(s)))

\* What a splice of a sequence is, item by item.
LEMMA SpliceItems ==
  ASSUME NEW s \in Seq(Cells), NEW new \in Seq(Cells),
         NEW a \in 0..Len(s), NEW b \in 0..Len(s), a <= b
  PROVE  LET t == Spliced(s, a, b, new)
         IN  /\ t \in Seq(Cells)
             /\ Len(t) = a + Len(new) + (Len(s) - b)
             /\ \A i \in 1..Len(t) :
                  t[i] = IF i <= a THEN s[i]
                         ELSE IF i <= a + Len(new) THEN new[i - a]
                         ELSE s[i - a - Len(new) + b]
<1> DEFINE p == SubSeq(s, 1, a)
           q == SubSeq(s, b + 1, Len(s))
           r == new \o q
<1>1. Len(s) \in Nat /\ Len(new) \in Nat /\ \A i \in 1..Len(s) : s[i] \in Cells
  BY LenProperties, ElementOfSeq
<1>2. p \in Seq(Cells) /\ Len(p) = a /\ \A i \in 1..a : p[i] = s[i]
  BY <1>1, SubSeqProperties
<1>3. q \in Seq(Cells) /\ Len(q) = Len(s) - b
      /\ \A i \in 1..(Len(s) - b) : q[i] = s[i + b]
  BY <1>1, SubSeqProperties
<1>4. r \in Seq(Cells) /\ Len(r) = Len(new) + (Len(s) - b)
      /\ \A i \in 1..Len(r) :
           r[i] = IF i <= Len(new) THEN new[i] ELSE s[i - Len(new) + b]
  <2>1. r \in Seq(Cells) /\ Len(r) = Len(new) + Len(q)
        /\ \A i \in 1..(Len(new) + Len(q)) :
             r[i] = IF i <= Len(new) THEN new[i] ELSE q[i - Len(new)]
    BY <1>3, ConcatProperties
  <2> HIDE DEF r, q
  <2>2. Len(r) = Len(new) + (Len(s) - b)
    BY <1>3, <2>1
  <2>3. ASSUME NEW i \in 1..Len(r), i > Len(new)
        PROVE  r[i] = s[i - Len(new) + b]
    <3>1. i - Len(new) \in 1..(Len(s) - b)
      BY <1>1, <2>2, <2>3
    <3>2. r[i] = q[i - Len(new)]
      BY <1>1, <1>3, <2>1, <2>2, <2>3
    <3> QED
      BY <1>3, <3>1, <3>2
  <2>4. ASSUME NEW i \in 1..Len(r), i <= Len(new)
        PROVE  r[i] = new[i]
    BY <1>3, <2>1, <2>2, <2>4
  <2>5. ASSUME NEW i \in 1..Len(r)
        PROVE  r[i] = IF i <= Len(new) THEN new[i] ELSE s[i - Len(new) + b]
    <3>1. i \in Int
      OBVIOUS
    <3>2. CASE i <= Len(new)
      BY <2>4, <3>2
    <3>3. CASE i > Len(new)
      BY <1>1, <2>3, <3>1, <3>3
    <3> QED
      BY <1>1, <3>1, <3>2, <3>3
  <2> QED
    BY <2>1, <2>2, <2>5
<1> DEFINE t == Spliced(s, a, b, new)
<1>0. t = p \o r
  BY DEF Spliced
<1> HIDE DEF t
<1> HIDE DEF p, r
<1>5. p \o r \in Seq(Cells) /\ Len(p \o r) = Len(p) + Len(r)
      /\ \A i \in 1..(Len(p) + Len(r)) :
           (p \o r)[i] = IF i <= Len(p) THEN p[i] ELSE r[i - Len(p)]
  BY <1>2, <1>4, ConcatProperties
<1>7. ASSUME NEW i \in 1..Len(t)
      PROVE  t[i] = IF i <= a THEN s[i]
                    ELSE IF i <= a + Len(new) THEN new[i - a]
                    ELSE s[i - a - Len(new) + b]
  <2>1. CASE i <= a
    BY <1>1, <1>2, <1>4, <1>5, <1>0, <2>1
  <2>2. CASE i > a
    <3>1. i - a \in 1..Len(r) /\ t[i] = r[i - a]
      BY <1>1, <1>2, <1>4, <1>5, <1>0, <2>2
    <3>2. r[i - a] = IF i - a <= Len(new) THEN new[i - a]
                     ELSE s[(i - a) - Len(new) + b]
      BY <1>4, <3>1
    <3> QED
      BY <1>1, <2>2, <3>1, <3>2
  <2> QED
    BY <1>1, <2>1, <2>2
<1>8. t \in Seq(Cells) /\ Len(t) = a + Len(new) + (Len(s) - b)
  BY <1>1, <1>2, <1>4, <1>5, <1>0
<1> QED
  BY <1>7, <1>8 DEF t

Read(blk, n) == [i \in 1..n |-> blk[i - 1]]

\* The items read through array_get form a sequence.
LEMMA ReadItems ==
  ASSUME NEW e \in Nat, NEW blk \in Block(e), NEW n \in Nat, n <= e
  PROVE  /\ Read(blk, n) \in Seq(Cells) /\ Len(Read(blk, n)) = n
         /\ \A i \in 1..n : Read(blk, n)[i] = blk[i - 1]
<1>1. Read(blk, n) \in [1..n -> Cells]
  BY DEF Block, Read
<1>2. Read(blk, n) \in Seq(Cells) /\ Len(Read(blk, n)) = n
  BY <1>1, FunctionIsSeq
<1> QED
  BY <1>2 DEF Read

LEMMA ContentsItems ==
  ASSUME ArrayInvariant, alive
  PROVE  /\ Contents \in Seq(Cells) /\ Len(Contents) = size
         /\ \A i \in 1..size : Contents[i] = items[i - 1]
<1>1. Contents = Read(items, size)
  BY DEF Read, Contents, array_get
<1>2. size <= extent
  BY DEF ArrayInvariant
<1>3. size \in Nat /\ extent \in Nat /\ items \in Block(extent)
  BY Facts
<1> QED
  BY <1>1, <1>2, <1>3, ReadItems

\* A step that edits the block as a splice edits a sequence is a splice.
LEMMA SpliceStep ==
  ASSUME ArrayInvariant, ArrayInvariant', alive, UNCHANGED alive,
         NEW a \in 0..size, NEW b \in 0..size, a <= b, NEW new \in Seq(Cells),
         size' = a + Len(new) + (size - b),
         \A k \in 0..(size' - 1) :
           items'[k] = IF k < a THEN items[k]
                       ELSE IF k < a + Len(new) THEN new[k - a + 1]
                       ELSE items[k - a - Len(new) + b]
  PROVE  Abstract!Splice(a, b, new)
<1> DEFINE s == Contents
           t == Spliced(s, a, b, new)
           u == Contents'
<1>1. s \in Seq(Cells) /\ Len(s) = size /\ \A i \in 1..size : s[i] = items[i - 1]
  BY ContentsItems
<1>2. u = Read(items', size')
  BY DEF Read, Contents, array_get
<1>3. size' \in Nat /\ extent' \in Nat /\ size' <= extent' /\ items' \in Block(extent')
  BY ConstantsAssumption DEF ArrayInvariant, TypeInvariant, UInt
<1>4. u \in Seq(Cells) /\ Len(u) = size' /\ \A i \in 1..size' : u[i] = items'[i - 1]
  BY <1>2, <1>3, ReadItems
<1>5. /\ t \in Seq(Cells)
      /\ Len(t) = a + Len(new) + (Len(s) - b)
      /\ \A i \in 1..Len(t) : t[i] = IF i <= a THEN s[i]
                                   ELSE IF i <= a + Len(new) THEN new[i - a]
                                   ELSE s[i - a - Len(new) + b]
  <2>1. a \in 0..Len(s) /\ b \in 0..Len(s)
    BY <1>1
  <2> HIDE DEF s
  <2> QED
    BY <1>1, <2>1, SpliceItems
<1>6. Len(new) \in Nat /\ size \in Nat /\ Len(t) = size' /\ a \in Nat /\ b \in Nat
  BY <1>1, <1>5, Facts, LenProperties
<1> HIDE DEF s, t, u
<1>7. ASSUME NEW i \in 1..size'
      PROVE  u[i] = t[i]
  <2>1. u[i] = items'[i - 1] /\ i - 1 \in 0..(size' - 1)
    BY <1>3, <1>4
  <2>2. u[i] = IF i - 1 < a THEN items[i - 1]
               ELSE IF i - 1 < a + Len(new) THEN new[(i - 1) - a + 1]
               ELSE items[(i - 1) - a - Len(new) + b]
    BY <2>1
  <2>3. t[i] = IF i <= a THEN s[i]
               ELSE IF i <= a + Len(new) THEN new[i - a]
               ELSE s[i - a - Len(new) + b]
    BY <1>5, <1>6
  <2>4. CASE i <= a
    BY <1>1, <1>6, <2>2, <2>3, <2>4
  <2>5. CASE i > a /\ i <= a + Len(new)
    BY <1>6, <2>2, <2>3, <2>5
  <2>6. CASE i > a + Len(new)
    <3>1. i - a - Len(new) + b \in 1..size
      BY <1>6, <2>6
    <3>2. s[i - a - Len(new) + b] = items[(i - a - Len(new) + b) - 1]
      BY <1>1, <3>1
    <3> QED
      BY <1>6, <2>2, <2>3, <2>6, <3>2
  <2> QED
    BY <1>6, <2>4, <2>5, <2>6
<1>8. u = t
  BY <1>4, <1>5, <1>6, <1>7, SeqEqual
<1> QED
  BY <1>8 DEF Abstract!Splice, Spliced, s, t, u

\* A step that keeps the items below size, and the caller's view of the call, is
\* invisible in ArraySpec.
LEMMA InvisibleStep ==
  ASSUME ArrayInvariant, ArrayInvariant', alive, UNCHANGED <<alive, call, size>>,
         \A k \in 0..(size - 1) : items'[k] = items[k]
  PROVE  UNCHANGED Abstract!vars
<1>1. size \in Nat
  BY Facts
<1>2. [i \in 1..size |-> items'[i - 1]] = [i \in 1..size |-> items[i - 1]]
  BY <1>1
<1>3. Contents' = Contents
  BY <1>2 DEF Contents, array_get
<1> QED
  BY <1>3 DEF Abstract!vars

LEMMA ReallocKeeps ==
  ASSUME ArrayInvariant, alive, NoOverflow, NEW c \in Nat, array_reallocate(c),
         c <= MaxItems \/ c < 2 * MaxItems
  PROVE  \A k \in 0..(size - 1) : k < c => items'[k] = items[k]
<1>1. ExtentFor(c) = c
  BY ExtentIsCapacity
<1>2. size <= extent /\ size \in Nat /\ extent \in Nat
  BY Facts DEF ArrayInvariant
<1> QED
  BY <1>1, <1>2 DEF array_reallocate, Realloc

\* array_clear, array_remove_many and array_resize to fewer items cut the array off.
LEMMA CutStep ==
  ASSUME ArrayInvariant, ArrayInvariant', Ready, Idle, UNCHANGED alive,
         NEW n \in 0..size, size' = n,
         \A k \in 0..(n - 1) : items'[k] = items[k]
  PROVE  Abstract!Next
<1>1. /\ alive /\ ~call.active /\ UNCHANGED call /\ size \in Nat
      /\ Len(Contents) = size /\ n \in 0..size /\ size \in 0..size
  BY Facts, ContentsItems DEF Ready, Idle
<1>2. <<>> \in Seq(Cells) /\ Len(<<>>) = 0
  OBVIOUS
<1>3. /\ n <= size /\ size' = n + Len(<<>>) + (size - size)
      /\ \A k \in 0..(size' - 1) :
           items'[k] = IF k < n THEN items[k]
                       ELSE IF k < n + Len(<<>>) THEN <<>>[k - n + 1]
                       ELSE items[k - n - Len(<<>>) + size]
  BY <1>1, <1>2
<1> DEFINE none == <<>>
<1> HIDE DEF none
<1>5. /\ none \in Seq(Cells) /\ size' = n + Len(none) + (size - size)
      /\ \A k \in 0..(size' - 1) :
           items'[k] = IF k < n THEN items[k]
                       ELSE IF k < n + Len(none) THEN none[k - n + 1]
                       ELSE items[k - n - Len(none) + size]
  BY <1>2, <1>3 DEF none
<1>6. Abstract!Splice(n, size, none)
  BY <1>1, <1>3, <1>5, SpliceStep
<1>4. Abstract!Erase(n, size)
  BY <1>1, <1>6 DEF Abstract!Erase, none
<1> QED
  BY <1>1, <1>4 DEF Abstract!Next

LEMMA ShiftedIndex ==
  ASSUME NEW s \in Nat, NEW n \in Nat, NEW e \in Nat, n <= e, NEW m \in 1..(n - s)
  PROVE  s + m - 1 \in 0..(e - 1)
OBVIOUS

LEMMA ResizeMaps ==
  ASSUME NoOverflow, ArrayInvariant, ArrayInvariant',
         NEW n \in 0..MaxItems, array_resize(n)
  PROVE  Abstract!Next
<1>1. /\ Ready /\ Idle /\ UNCHANGED alive /\ size' = n /\ alive /\ ~call.active
      /\ UNCHANGED call /\ size \in Nat /\ size <= capacity
  BY Facts DEF array_resize, Ready, Idle, ArrayInvariant
<1>2. \A k \in 0..(size - 1) : k < n => items'[k] = items[k]
  <2>1. CASE capacity < n
    BY <1>1, <2>1, ReallocKeeps DEF array_resize
  <2>2. CASE ~(capacity < n)
    BY <2>2 DEF array_resize, KeepBlock
  <2> QED
    BY <2>1, <2>2
<1>3. CASE n <= size
  BY <1>1, <1>2, <1>3, CutStep
<1>4. CASE n > size
  <2> DEFINE fill == [j \in 1..(n - size) |-> items'[size + j - 1]]
  <2>1. /\ items' \in Block(extent') /\ n <= extent' /\ extent' \in Nat
    BY <1>1, ConstantsAssumption DEF ArrayInvariant, TypeInvariant, UInt
  <2>2. fill \in [1..(n - size) -> Cells]
    <3>1. ASSUME NEW m \in 1..(n - size) PROVE items'[size + m - 1] \in Cells
      <4>1. size \in Nat /\ n \in Nat /\ extent' \in Nat /\ n <= extent'
        BY <1>1, <2>1, ConstantsAssumption
      <4>2. size + m - 1 \in 0..(extent' - 1)
        BY <4>1, ShiftedIndex
      <4> QED
        BY <2>1, <4>2 DEF Block
    <3> QED
      BY <3>1
  <2>3. fill \in Seq(Cells) /\ Len(fill) = n - size /\ n - size \in 0..MaxItems
    <3>1. n - size \in Nat /\ n - size \in 0..MaxItems
      BY <1>1, <1>4, ConstantsAssumption
    <3> HIDE DEF fill
    <3> QED
      BY <2>2, <3>1, FunctionIsSeq
  <2>4. ASSUME NEW k \in 0..(n - 1), ~(k < size)
        PROVE  k < size + Len(fill) /\ items'[k] = fill[k - size + 1]
    <3>1. k - size + 1 \in 1..(n - size)
      BY <1>1, <2>4
    <3> QED
      BY <1>1, <2>3, <3>1
  <2> HIDE DEF fill
  <2>5. \A k \in 0..(size' - 1) :
           items'[k] = IF k < size THEN items[k]
                       ELSE IF k < size + Len(fill) THEN fill[k - size + 1]
                       ELSE items[k - size - Len(fill) + size]
    BY <1>1, <1>2, <1>4, <2>4
  <2>6. size \in 0..size /\ size <= size /\ size' = size + Len(fill) + (size - size)
    BY <1>1, <2>3
  <2>7. Abstract!Splice(size, size, fill)
    BY <1>1, <2>3, <2>5, <2>6, SpliceStep
  <2>8. Abstract!Extend(fill)
    BY <1>1, <2>7, ContentsItems DEF Abstract!Extend
  <2>9. fill \in Abstract!Fill(n - size)
    BY <2>2 DEF Abstract!Fill, Abstract!Cells, Cells, fill
  <2> QED
    BY <2>3, <2>8, <2>9 DEF Abstract!Next
<1> QED
  BY <1>1, <1>3, <1>4

LEMMA SetMaps ==
  ASSUME NoOverflow, ArrayInvariant, ArrayInvariant',
         NEW index \in 0..size, NEW num \in 0..MaxItems,
         NEW vals \in [1..num -> Values], array_set_many(index, vals)
  PROVE  Abstract!Next
<1>1. /\ vals \in Seq(Values) /\ Len(vals) = num /\ num \in Nat
  BY FunctionIsSeq, ConstantsAssumption
<1>2. /\ alive /\ ~call.active /\ UNCHANGED <<call, alive, size>> /\ size \in Nat
      /\ size <= extent /\ extent \in Nat /\ index + num <= size /\ index \in Nat
      /\ items \in Block(extent)
  BY <1>1, Facts DEF array_set_many, Ready, ArrayInvariant
<1>3. items' = Copy(items, index, vals)
  BY <1>1, <1>2 DEF array_set_many, InBlock
<1>4. vals \in Seq(Cells)
  BY <1>1, SeqMonotonic DEF Cells
<1>5. ASSUME NEW k \in 0..(size' - 1)
      PROVE  items'[k] = IF k < index THEN items[k]
                         ELSE IF k < index + Len(vals) THEN vals[k - index + 1]
                         ELSE items[k - index - Len(vals) + (index + Len(vals))]
  <2>1. k \in DOMAIN items
    BY <1>2 DEF Block
  <2>2. k - index - Len(vals) + (index + Len(vals)) = k
    BY <1>1, <1>2
  <2> QED
    BY <1>1, <1>2, <1>3, <2>1, <2>2 DEF Copy
<1>6. /\ index + Len(vals) \in 0..size /\ index <= index + Len(vals)
      /\ size' = index + Len(vals) + (size - (index + Len(vals)))
  BY <1>1, <1>2
<1>7. Abstract!Splice(index, index + Len(vals), vals)
  BY <1>2, <1>4, <1>5, <1>6, SpliceStep
<1>8. Abstract!Assign(index, vals)
  BY <1>2, <1>7 DEF Abstract!Assign
<1>9. vals \in Abstract!Fill(num)
  BY DEF Abstract!Fill, Abstract!Cells
<1>10. Len(Contents) = size /\ num \in 0..size
  BY <1>1, <1>2, ContentsItems
<1> QED
  BY <1>1, <1>2, <1>8, <1>9, <1>10 DEF Abstract!Next

LEMMA EraseMaps ==
  ASSUME ArrayInvariant, ArrayInvariant',
         NEW first \in 0..size, NEW last \in 0..size,
         array_erase_range(first, last)
  PROVE  Abstract!Next
<1>1. /\ alive /\ ~call.active /\ UNCHANGED <<call, alive>> /\ size \in Nat
      /\ first <= last /\ size' = size - (last - first)
      /\ first \in Nat /\ last \in Nat /\ last <= size
      /\ size <= extent /\ extent \in Nat /\ items \in Block(extent)
  BY Facts DEF array_erase_range, Ready, ArrayInvariant
<1> DEFINE none == <<>>
<1>2. none \in Seq(Cells) /\ Len(none) = 0
  OBVIOUS
<1> HIDE DEF none
<1>3. ASSUME NEW k \in 0..(size' - 1)
      PROVE  items'[k] = IF k < first THEN items[k]
                         ELSE IF k < first + Len(none) THEN none[k - first + 1]
                         ELSE items[k - first - Len(none) + last]
  <2>1. k \in DOMAIN items /\ k \in Nat
    BY <1>1 DEF Block
  <2>2. k - first - Len(none) + last = k - first + last
    BY <1>1, <1>2, <2>1
  <2>3. InBlock(last, size - last, extent)
    BY <1>1 DEF InBlock
  <2>4. items' = array_move_tail(items, last, first)
    BY <2>3 DEF array_erase_range
  <2> QED
    BY <1>1, <1>2, <2>1, <2>2, <2>4 DEF array_move_tail
<1>4. size' = first + Len(none) + (size - last)
  BY <1>1, <1>2
<1>5. Abstract!Splice(first, last, none)
  BY <1>1, <1>2, <1>3, <1>4, SpliceStep
<1>6. Abstract!Erase(first, last)
  BY <1>1, <1>5 DEF Abstract!Erase, none
<1> QED
  BY <1>1, <1>6, ContentsItems DEF Abstract!Next

\* What an insertion leaves in the block, item by item.
LEMMA InsertedItems ==
  ASSUME ArrayInvariant, call.active, NEW e \in Nat, NEW blk \in Block(e),
         size + call.num <= e, NEW k \in 0..(size + call.num - 1)
  PROVE  /\ k < call.index => Inserted(blk)[k] = blk[k]
         /\ k >= call.index + call.num => Inserted(blk)[k] = blk[k - call.num]
         /\ call.index <= k /\ k < call.index + call.num /\ call.vals # <<>>
              => Inserted(blk)[k] = call.vals[k - call.index + 1]
<1> DEFINE i == call.index
           n == call.num
           v == call.vals
           gap == IF i < size THEN array_move_tail(blk, i, i + n) ELSE blk
<1>1. /\ i \in Nat /\ n \in Nat /\ size \in Nat /\ i <= size /\ k \in Nat
      /\ Len(v) \in Nat /\ (v = <<>> \/ Len(v) = n)
  BY Facts, LenProperties DEF ArrayInvariant, CallInvariant
<1>2. k \in DOMAIN blk /\ DOMAIN gap = DOMAIN blk
  BY <1>1 DEF Block, array_move_tail
<1>3. v = <<>> => Len(v) = 0
  OBVIOUS
<1>4. Inserted(blk) = Copy(gap, i, v)
  BY DEF Inserted
<1>5. Inserted(blk)[k] =
        IF i <= k /\ k < i + Len(v) THEN v[k - i + 1] ELSE gap[k]
  BY <1>2, <1>4 DEF Copy
<1>6. gap[k] = IF i < size /\ i + n <= k /\ k < i + n + (size - i)
               THEN blk[k - (i + n) + i] ELSE blk[k]
  BY <1>2 DEF array_move_tail
<1> HIDE DEF i, n, v, gap
<1>7. k < i => Inserted(blk)[k] = blk[k]
  BY <1>1, <1>5, <1>6
<1>8. ASSUME k >= i + n PROVE Inserted(blk)[k] = blk[k - n]
  <2>1. k < size + n
    BY <1>1 DEF n
  <2>2. ~(k < i + Len(v)) /\ i < size /\ k < i + n + (size - i)
    BY <1>1, <1>3, <1>8, <2>1
  <2>3. k - (i + n) + i = k - n
    BY <1>1
  <2> QED
    BY <1>5, <1>6, <1>8, <2>2, <2>3
<1>9. i <= k /\ k < i + n /\ v # <<>> => Inserted(blk)[k] = v[k - i + 1]
  BY <1>1, <1>5
<1> QED
  BY <1>7, <1>8, <1>9 DEF i, n, v

LEMMA GrownKeeps ==
  ASSUME NoOverflow, ArrayInvariant, FinishInsert
  PROVE  \A k \in 0..(size - 1) : GrownBlock[k] = items[k]
<1>1. CASE MustGrow
  <2>1. size <= extent /\ size \in Nat /\ extent \in Nat
    BY Facts DEF FinishInsert, ArrayInvariant, CallInvariant
  <2>2. GrownExtent \in Nat /\ GrownExtent = ExtentFor(cap) /\ size <= GrownExtent
    <3>1. Req = size + call.num /\ call.num \in Nat
      BY Facts, ReqExact DEF FinishInsert
    <3> QED
      BY <1>1, <2>1, <3>1, GrownRoom DEF GrownExtent
  <2> QED
    BY <1>1, <2>1, <2>2 DEF GrownBlock, Realloc
<1>2. CASE ~MustGrow
  BY <1>2 DEF GrownBlock
<1> QED
  BY <1>1, <1>2

LEMMA FinishInsertMaps ==
  ASSUME NoOverflow, ArrayInvariant, FinishInsert
  PROVE  Abstract!Next
<1> DEFINE i == call.index
           n == call.num
           v == call.vals
           new == [j \in 1..n |-> items'[i + j - 1]]
<1>1. /\ call.active /\ alive /\ UNCHANGED alive
      /\ i \in Nat /\ n \in Nat /\ size \in Nat /\ i <= size /\ n <= MaxItems
      /\ MaxItems \in Nat
      /\ v \in Seq(Values) /\ (v = <<>> \/ Len(v) = n)
  BY Facts DEF FinishInsert, ArrayInvariant, CallInvariant
<1>2. ArrayInvariant' /\ items' = Inserted(GrownBlock) /\ size' = size + n
  BY FinishInsertStep
<1>3. GrownExtent \in Nat /\ GrownBlock \in Block(GrownExtent) /\ size + n <= GrownExtent
  BY <1>1, GrownRoom, ReqExact
<1>4. \A k \in 0..(size + n - 1) :
         /\ k < i => items'[k] = GrownBlock[k]
         /\ k >= i + n => items'[k] = GrownBlock[k - n]
         /\ i <= k /\ k < i + n /\ v # <<>> => items'[k] = v[k - i + 1]
  BY <1>1, <1>2, <1>3, InsertedItems
<1>5. extent' = GrownExtent /\ items' \in Block(extent')
  BY <1>2, GrownRoom DEF ArrayInvariant, TypeInvariant
<1>6. new \in [1..n -> Cells]
  <2>1. ASSUME NEW m \in 1..n PROVE items'[i + m - 1] \in Cells
    <3>1. i + m - 1 \in 0..(GrownExtent - 1)
      BY <1>1, <1>3
    <3> QED
      BY <1>5, <3>1 DEF Block
  <2> QED
    BY <2>1
<1>7. \A m \in 1..n : new[m] = items'[i + m - 1]
  OBVIOUS
<1> HIDE DEF new, i, n, v
<1>8. new \in Seq(Cells) /\ Len(new) = n
  BY <1>1, <1>6, FunctionIsSeq
<1>9. ASSUME NEW k \in 0..(size' - 1)
      PROVE  items'[k] = IF k < i THEN items[k]
                         ELSE IF k < i + Len(new) THEN new[k - i + 1]
                         ELSE items[k - i - Len(new) + i]
  <2>1. k \in Nat /\ k \in 0..(size + n - 1)
    BY <1>1, <1>2
  <2>2. CASE k < i
    <3>1. k \in 0..(size - 1)
      BY <1>1, <2>1, <2>2
    <3> QED
      BY <1>4, <2>1, <2>2, <3>1, GrownKeeps
  <2>3. CASE i <= k /\ k < i + n
    <3>1. k - i + 1 \in 1..n /\ i + (k - i + 1) - 1 = k
      BY <1>1, <2>1, <2>3
    <3>2. new[k - i + 1] = items'[k]
      BY <1>7, <3>1
    <3> QED
      BY <1>1, <1>8, <2>1, <2>3, <3>2
  <2>4. CASE k >= i + n
    <3>1. k - n \in 0..(size - 1) /\ k - i - n + i = k - n
      BY <1>1, <2>1, <2>4
    <3>2. items'[k] = items[k - n]
      BY <1>4, <2>1, <2>4, <3>1, GrownKeeps
    <3> QED
      BY <1>1, <1>8, <2>1, <2>4, <3>1, <3>2
  <2> QED
    BY <1>1, <2>1, <2>2, <2>3, <2>4
<1>10. i \in 0..size /\ i <= i /\ size' = i + Len(new) + (size - i)
  BY <1>1, <1>2, <1>8
<1>11. Abstract!Splice(i, i, new)
  BY <1>1, <1>2, <1>8, <1>9, <1>10, SpliceStep
<1>12. v # <<>> => new = v
  <2>1. ASSUME v # <<>> PROVE new = v
    <3>1. Len(v) = n /\ v \in Seq(Cells)
      BY <1>1, <2>1, SeqMonotonic DEF Cells
    <3>2. ASSUME NEW m \in 1..Len(new) PROVE new[m] = v[m]
      <4>1. m \in 1..n /\ i + m - 1 \in 0..(size + n - 1)
            /\ i <= i + m - 1 /\ i + m - 1 < i + n /\ (i + m - 1) - i + 1 = m
        BY <1>1, <1>8
      <4> QED
        BY <1>4, <1>7, <2>1, <4>1
    <3> QED
      BY <1>8, <3>1, <3>2, SeqEqual
  <2> QED
    BY <2>1
<1>13. ~call'.active
  BY DEF FinishInsert, NoCall
<1>14. Abstract!Insert(new)
  BY <1>1, <1>8, <1>11, <1>12, <1>13 DEF Abstract!Insert, i, n, v
<1>15. new \in Abstract!Fill(n) /\ n \in 0..MaxItems
  BY <1>1, <1>6 DEF Abstract!Fill, Abstract!Cells, Cells
<1> QED
  BY <1>14, <1>15 DEF Abstract!Next

LEMMA InsertMaps ==
  ASSUME ArrayInvariant, NEW index \in 0..size, NEW num \in 0..(MaxItems - size),
         NEW vals \in Given(num), array_insert_many(index, num, vals)
  PROVE  Abstract!Next
<1>1. /\ alive /\ ~call.active /\ Len(Contents) = size /\ num \in 0..MaxItems
      /\ call' = [active |-> TRUE, index |-> index, num |-> num, vals |-> vals]
      /\ UNCHANGED <<size, alive, items>>
  BY Facts, ContentsItems DEF array_insert_many, Ready, KeepBlock
<1>2. UNCHANGED Contents
  BY <1>1 DEF Contents, array_get
<1>3. Abstract!Ask(index, num, vals)
  BY <1>1, <1>2 DEF Abstract!Ask
<1> QED
  BY <1>1, <1>3 DEF Abstract!Next, Given

LEMMA NextMaps ==
  ASSUME NoOverflow, ArrayInvariant, ArrayInvariant', [Next]_vars
  PROVE  [Abstract!Next]_(Abstract!vars)
<1>1. CASE array_init
  <2>1. /\ ~alive /\ UNCHANGED call /\ alive' = TRUE /\ size' = 0
    BY <1>1 DEF array_init, Idle
  <2>2. Contents' = <<>>
    BY <2>1 DEF Contents
  <2>3. Abstract!Create
    BY <2>1, <2>2 DEF Abstract!Create
  <2> QED
    BY <2>3 DEF Abstract!Next
<1>2. CASE array_dispose
  <2>1. /\ alive /\ ~call.active /\ UNCHANGED call /\ alive' = FALSE
    BY <1>2 DEF array_dispose, Idle, Ready
  <2>2. Contents' = <<>>
    BY <2>1 DEF Contents
  <2>3. Abstract!Dispose
    BY <2>1, <2>2 DEF Abstract!Dispose
  <2> QED
    BY <2>3 DEF Abstract!Next
<1>3. ASSUME NEW c \in 0..MaxItems, array_reserve(c)
      PROVE  UNCHANGED Abstract!vars
  <2>1. /\ alive /\ UNCHANGED <<alive, call, size>> /\ size \in Nat /\ c \in Nat
        /\ size <= c /\ array_reallocate(c)
    BY <1>3, Facts DEF array_reserve, Ready, Idle, ArrayInvariant
  <2>2. \A k \in 0..(size - 1) : k < c => items'[k] = items[k]
    BY <2>1, ReallocKeeps
  <2> QED
    BY <2>1, <2>2, InvisibleStep
<1>4. ASSUME NEW n \in 0..MaxItems, array_resize(n)
      PROVE  Abstract!Next
  BY <1>4, ResizeMaps
<1>5. ASSUME array_shrink
      PROVE  UNCHANGED Abstract!vars
  <2>1. /\ alive /\ UNCHANGED <<alive, call, size>> /\ size \in Nat
        /\ size <= MaxItems /\ array_reallocate(size)
    BY <1>5, Facts DEF array_shrink, Ready, Idle, ArrayInvariant
  <2>2. \A k \in 0..(size - 1) : k < size => items'[k] = items[k]
    BY <2>1, ReallocKeeps
  <2> QED
    BY <2>1, <2>2, InvisibleStep
<1>6. ASSUME NEW index \in 0..size, NEW num \in 0..MaxItems,
             NEW vals \in [1..num -> Values], array_set_many(index, vals)
      PROVE  Abstract!Next
  BY <1>6, SetMaps
<1>7. ASSUME NEW index \in 0..size, NEW num \in 0..(MaxItems - size),
             NEW vals \in Given(num), array_insert_many(index, num, vals)
      PROVE  Abstract!Next
  BY <1>7, InsertMaps
<1>8. ASSUME NEW num \in 0..(MaxItems - size),
             NEW vals \in Given(num), array_add_many(num, vals)
      PROVE  Abstract!Next
  <2>1. size \in 0..size
    BY Facts
  <2> QED
    BY <1>8, <2>1, InsertMaps DEF array_add_many
<1>9. ASSUME GrowLoop
      PROVE  UNCHANGED Abstract!vars
  BY <1>9, InvisibleStep DEF GrowLoop, KeepBlock, ArrayInvariant, CallInvariant
<1>10. CASE FinishInsert
  BY <1>10, FinishInsertMaps
<1>11. ASSUME NEW first \in 0..size, NEW last \in 0..size,
              array_erase_range(first, last)
       PROVE  Abstract!Next
  BY <1>11, EraseMaps
<1>12. ASSUME NEW num \in 0..MaxItems, array_remove_many(num)
       PROVE  Abstract!Next
  <2>1. size - num \in 0..size
    BY <1>12, Facts DEF array_remove_many
  <2> QED
    BY <1>12, <2>1, CutStep DEF array_remove_many, KeepBlock
<1>13. ASSUME array_clear
       PROVE  Abstract!Next
  <2>1. 0 \in 0..size
    BY Facts
  <2> QED
    BY <1>13, <2>1, CutStep DEF array_clear, KeepBlock
<1>14. ASSUME UNCHANGED vars
       PROVE  UNCHANGED Abstract!vars
  BY <1>14 DEF vars, Abstract!vars, Contents, array_get
<1> QED
  BY <1>1, <1>2, <1>3, <1>4, <1>5, <1>6, <1>7, <1>8, <1>9, <1>10, <1>11, <1>12,
     <1>13, <1>14 DEF Next

\* array.c implements the sequence of ArraySpec: what callers read through array_get
\* changes only by the insertion, removal or replacement they asked for, and an
\* insertion puts exactly the given items in the gap it opens.
THEOREM ArrayImplementsSpec ==
  ASSUME NoOverflow
  PROVE  Spec => ImplementsArraySpec
<1>1. Init => Abstract!Init
  <2>1. ASSUME Init PROVE Abstract!Init
    <3>1. size = 0 /\ alive = TRUE /\ call = NoCall
      BY <2>1 DEF Init
    <3>2. Contents = <<>>
      BY <3>1 DEF Contents
    <3> QED
      BY <3>1, <3>2 DEF Abstract!Init, NoCall
  <2> QED
    BY <2>1
<1>2. Spec => []ArrayInvariant
  BY InitEstablishes, NextPreserves, PTL DEF Spec
<1>3. ArrayInvariant /\ ArrayInvariant' /\ [Next]_vars
        => [Abstract!Next]_(Abstract!vars)
  BY NextMaps
<1> QED
  BY <1>1, <1>2, <1>3, PTL DEF Spec, ImplementsArraySpec, Abstract!Spec
=============================================================================
