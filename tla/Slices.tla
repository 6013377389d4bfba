-------------------------------- MODULE Slices --------------------------------
(***************************************************************************)
(* What the code that the compiler generates for slices does when it runs: *)
(* make, slicing, indexing with its bounds check, and dispose, as built in *)
(* codegen_builtin_expr.c, codegen_index_slice_expr.c and                  *)
(* codegen_index_access_expr.c.                                            *)
(*                                                                         *)
(* The struct of a slice (codegen_type.c) is { ptr, len, cap, base }: base *)
(* is the number of a memory block, which every pointer into the block     *)
(* shares, and ptr is given by its offset "off" from there.  All numbers   *)
(* are two's complement with Mod values, as i64 is with 2^64.  Of the      *)
(* elements, only whether they have ever been written is kept.             *)
(*                                                                         *)
(* The language checks an index against the capacity and nothing else, so  *)
(* a program can misuse slices.  "misused" records how it has done so:     *)
(* "range" (a slice begun outside its target), "shared" (a dispose with    *)
(* other slices on the block), "array" (a dispose of an array's slice) and *)
(* "count" (a make of a negative number of elements).                      *)
(*                                                                         *)
(* The number of bytes of a block is taken to fit a signed number: malloc  *)
(* then finds room for every count that is not negative, up to MaxSize,    *)
(* and refuses a negative one, which is a huge unsigned number to it.      *)
(***************************************************************************)
EXTENDS Integers, Sequences

CONSTANTS Names,      \* the slice variables of the program
          Mod,        \* 2^w for integers of w bits
          MaxSize,    \* the largest slice the program makes
          Counts,     \* the counts it gives to make
          Starts,     \* the numbers the program begins slices at
          Ends,       \* and those it ends them at
          MaxBlocks,  \* bound on the memory blocks
          Undef       \* the content of memory nobody has written

Ints == (0 - Mod \div 2)..(Mod \div 2 - 1)

ASSUME ConstantsAssumption ==
  /\ Mod \in Nat \ {0} /\ Mod % 2 = 0
  /\ MaxSize \in Nat /\ MaxSize < Mod \div 2
  /\ MaxBlocks \in Nat \ {0}
  /\ Counts \subseteq Ints /\ \A n \in Counts : n <= MaxSize
  /\ 0 \in Starts /\ Starts \subseteq Ints /\ 0 \in Ends /\ Ends \subseteq Ints
  /\ Undef \notin Int

VARIABLES heap,       \* the memory blocks; the first is an array on the stack
          store,      \* the slices in the variables
          making,     \* the make under way, or NoMake
          status,     \* "running" or "trapped"
          faults,     \* what has gone wrong with memory
          misused

vars == <<heap, store, making, status, faults, misused>>

Signed(n) == ((n + Mod \div 2) % Mod) - Mod \div 2
Unsigned(n) == n % Mod

Null == 0
NullSlice == [base |-> Null, off |-> 0, len |-> 0, cap |-> 0]
NoMake == [name |-> "none", block |-> Null, size |-> 0, cntr |-> -1]

Block(n, onStack, content) ==
  [cells |-> [k \in 0..(n - 1) |-> content], live |-> TRUE, onStack |-> onStack]
\* The number of the elements that d numbers from 0 on.
Extent(d) == IF d = {} THEN 0 ELSE (CHOOSE k \in d : \A j \in d : j <= k) + 1
Elements(b) == IF b = Null THEN {} ELSE DOMAIN heap[b].cells
Size(b) == Extent(Elements(b))

\* An array and slice variables without initial values are all zeros.
Init ==
  /\ heap = << Block(MaxSize, TRUE, 0) >>
  /\ store = [v \in Names |-> NullSlice]
  /\ making = NoMake
  /\ status = "running"
  /\ faults = {} /\ misused = {}

\* What a program does after an access that went wrong is undefined; the store
\* behind the end of a new array is taken to hit nothing.
Running == status = "running" /\ making = NoMake /\ faults \subseteq {"past the end"}

Misuse(kind, done) == misused' = IF done THEN misused \cup {kind} ELSE misused

(***************************************************************************)
(* make                                                                    *)
(***************************************************************************)
\* The memory, NULL for a negative count, and the counter of the loop that sets it
\* to zero.  Nothing checks the count.
make(v, n) ==
  /\ Running
  /\ IF n < 0 THEN UNCHANGED heap
              ELSE Len(heap) < MaxBlocks /\ heap' = Append(heap, Block(n, FALSE, Undef))
  /\ making' = [name |-> v, block |-> IF n < 0 THEN Null ELSE Len(heap) + 1,
                size |-> n, cntr |-> n]
  /\ Misuse("count", n < 0)
  /\ UNCHANGED <<store, status, faults>>

\* Mutant: the loop ends before it has come to the first element.
ZeroLoopShort == 0 < making.cntr
\* Mutant: the comparison is unsigned.
ZeroLoopUnsigned == Unsigned(0) <= Unsigned(making.cntr)

\* The condition of the loop.
ZeroLoop == 0 <= making.cntr

\* One round; the first one stores behind the last element.
codegen_array_new ==
  /\ making # NoMake
  /\ ZeroLoop
  /\ IF making.cntr \in Elements(making.block)
     THEN heap' = [heap EXCEPT ![making.block].cells[making.cntr] = 0]
          /\ UNCHANGED faults
     ELSE faults' = faults \cup {"past the end"} /\ UNCHANGED heap
  /\ making' = [making EXCEPT !.cntr = Signed(@ - 1)]
  /\ UNCHANGED <<store, status, misused>>

\* The struct: the length stays zero, and the count is the capacity.
make_end ==
  /\ making # NoMake
  /\ ~ZeroLoop
  /\ store' = [store EXCEPT ![making.name] =
                 [base |-> making.block, off |-> 0, len |-> 0, cap |-> making.size]]
  /\ making' = NoMake
  /\ UNCHANGED <<heap, status, faults, misused>>

(***************************************************************************)
(* Slicing.                                                                *)
(***************************************************************************)
InRange(start, cap) == start \in 0..cap

\* Mutant: the capacity is handed on.
SlicedSameCap(s, start, end) ==
  [s EXCEPT !.off = Signed(@ + start),
            !.len = IF Signed(end - start) > 0 THEN Signed(end - start) ELSE 0]

\* The slice of a slice: an end that is not given is zero.
Sliced(s, start, end) ==
  [s EXCEPT !.off = Signed(@ + start),
            !.len = IF Signed(end - start) > 0 THEN Signed(end - start) ELSE 0,
            !.cap = Signed(@ - start)]

\* The forms s[start:end], s[:end] and s[start:].
Given(kind, start, end) == (kind = "prefix" => start = 0) /\ (kind = "postfix" => end = 0)

slice_slice(v, w, kind, start, end) ==
  /\ Running
  /\ Given(kind, start, end)
  /\ store' = [store EXCEPT ![v] = Sliced(store[w], start, end)]
  /\ Misuse("range", ~InRange(start, store[w].cap))
  /\ UNCHANGED <<heap, making, status, faults>>

\* The slice of the array: an end that is not given is the array's length, and
\* a negative length stays.
slice_array(v, start, end) ==
  /\ Running
  /\ store' = [store EXCEPT ![v] = [base |-> 1, off |-> start, len |-> Signed(end - start),
                                    cap |-> Signed(MaxSize - start)]]
  /\ Misuse("range", ~InRange(start, MaxSize))
  /\ UNCHANGED <<heap, making, status, faults>>

(***************************************************************************)
(* Using slices.                                                           *)
(***************************************************************************)
\* A slice is a value: an assignment, an argument or a result copies it.
assign(v, w) ==
  /\ Running
  /\ store' = [store EXCEPT ![v] = store[w]]
  /\ UNCHANGED <<heap, making, status, faults, misused>>

\* The check that build_assert makes, with a trap behind it.
InBounds(s, i) == Unsigned(i) < Unsigned(s.cap)

\* What an access finds at the address.
Access(s, at) ==
  IF s.base = Null \/ at \notin 0..(Size(s.base) - 1) THEN {"outside"}
  ELSE IF ~heap[s.base].live THEN {"freed"}
  ELSE IF heap[s.base].cells[at] = Undef THEN {"unwritten"}
  ELSE {}

\* Reading s[i], which also tells whether a write would go wrong.
index_access(v, i) ==
  /\ Running
  /\ IF InBounds(store[v], i)
     THEN faults' = faults \cup Access(store[v], Signed(store[v].off + i)) /\ UNCHANGED status
     ELSE status' = "trapped" /\ UNCHANGED faults
  /\ UNCHANGED <<heap, store, making, misused>>

\* What free does with a block.
Freed(b) == IF b = Null \/ heap[b].onStack THEN heap ELSE [heap EXCEPT ![b].live = FALSE]
BadFree(b) == b # Null /\ (heap[b].onStack \/ ~heap[b].live)
Others(v) == \E w \in Names \ {v} : store[w].base = store[v].base /\ store[v].base # Null

DisposeMisuse(v) ==
  misused' = misused \cup (IF Others(v) THEN {"shared"} ELSE {})
                     \cup (IF store[v].base = 1 THEN {"array"} ELSE {})

\* Mutant: the variable keeps its slice.
dispose_keep(v) ==
  /\ Running
  /\ heap' = Freed(store[v].base)
  /\ faults' = faults \cup (IF BadFree(store[v].base) THEN {"bad free"} ELSE {})
  /\ DisposeMisuse(v)
  /\ UNCHANGED <<store, making, status>>

\* dispose sets the variable to zero and frees the base.
dispose(v) ==
  /\ Running
  /\ store' = [store EXCEPT ![v] = NullSlice]
  /\ heap' = Freed(store[v].base)
  /\ faults' = faults \cup (IF BadFree(store[v].base) THEN {"bad free"} ELSE {})
  /\ DisposeMisuse(v)
  /\ UNCHANGED <<making, status>>

Over == ~Running /\ making = NoMake /\ UNCHANGED vars

Next ==
  \/ \E v \in Names, n \in Counts : make(v, n)
  \/ codegen_array_new \/ make_end
  \/ \E v, w \in Names, kind \in {"range", "prefix", "postfix"}, start \in Starts, end \in Ends :
       slice_slice(v, w, kind, start, end)
  \/ \E v \in Names, start \in Starts, end \in Ends \cup {MaxSize} : slice_array(v, start, end)
  \/ \E v, w \in Names : assign(v, w)
  \/ \E v \in Names, i \in Ints : index_access(v, i)
  \/ \E v \in Names : dispose(v)
  \/ Over

Spec == Init /\ [][Next]_vars

\* A make that has begun goes on: the generated code is sequential.
FairSpec == Spec /\ WF_vars(codegen_array_new) /\ WF_vars(make_end)

(***************************************************************************)
(* Properties.                                                             *)
(***************************************************************************)
\* Whatever is sliced out of what, also out of range and back, the capacity of a
\* slice always reaches exactly to the end of its block: no sequence of slicings
\* gives a slice more or less than the rest (codegen_index_slice_expr.c:79, 164; the
\* comment there, line 34, has end - start, which would stop at the end of the slice).
\* Only a slice without a block, out of a make of a negative count, has more.
CapacityEndsAtBlock ==
  \A v \in Names :
    \/ Unsigned(store[v].off + store[v].cap) = Size(store[v].base)
    \/ store[v].base = Null /\ "count" \in misused

\* A program that makes no negative number of elements and begins its slices within
\* their targets never gets past the check of an index outside the block, and one
\* that disposes of the only slice of a block it made never touches freed memory,
\* also when it goes on to use or dispose of the variable
\* (codegen_index_access_expr.c:69, codegen_builtin_expr.c:161-171,
\* test/slice_dispose_fail.low).
SafeUnlessMisused ==
  /\ "outside" \in faults => "range" \in misused \/ "count" \in misused
  /\ "freed" \in faults => "shared" \in misused
  /\ "bad free" \in faults => "shared" \in misused \/ "array" \in misused

\* Every element of a slice that make returns is zero, so no program reads memory
\* that nobody has written (codegen_builtin_expr.c:16-39).
NothingUnwritten ==
  /\ "unwritten" \notin faults
  /\ \A b \in DOMAIN heap : b # making.block =>
       \A k \in DOMAIN heap[b].cells : heap[b].cells[k] # Undef

\* The loop of make ends (codegen_builtin_expr.c:29).
MakeReturns == (making # NoMake) ~> (making = NoMake)

\* "zero initialised array on heap ... similar to calloc(type,size)"
\* (codegen_builtin_expr.c:6-7): setting the new array to zero stays inside it.
MakeStaysInBlock == "past the end" \notin faults
==============================================================================
