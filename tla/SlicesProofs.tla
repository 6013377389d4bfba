---------------------------- MODULE SlicesProofs ----------------------------
(***************************************************************************)
(* Proofs about Slices for every set of variables, every width of the      *)
(* integers, every size of the blocks and every set of slice bounds.       *)
(***************************************************************************)
EXTENDS Slices, SequenceTheorems, TLAPS

\* Zeroed and unwritten memory of n elements.
Cells(n) == [0..(n - 1) -> {0, Undef}]

BlockType ==
  [cells : UNION {Cells(n) : n \in 0..MaxSize}, live : BOOLEAN, onStack : BOOLEAN]
SliceType == [base : Nat, off : Ints, len : Ints, cap : Ints]
MakeType == [name : Names, block : Nat, size : Ints, cntr : Ints]

\* The first block is the array, and no other is on the stack.
HeapInvariant ==
  /\ heap \in Seq(BlockType)
  /\ heap # <<>>
  /\ DOMAIN heap[1].cells = 0..(MaxSize - 1)
  /\ heap[1].live
  /\ \A b \in DOMAIN heap : heap[b].onStack <=> b = 1

\* A make under way fills the last block, which no slice shows yet, from its end:
\* behind the counter everything is zero.
Filling ==
  /\ making.size \in 0..MaxSize /\ making.cntr \in -1..MaxSize
  /\ making.block = Len(heap) /\ making.block > 1
  /\ DOMAIN heap[making.block].cells = 0..(making.size - 1)
  /\ \A k \in 0..(making.size - 1) :
       k > making.cntr => heap[making.block].cells[k] = 0
  /\ heap[making.block].live
  /\ \A v \in Names : store[v].base # making.block

\* A make of a negative count has no block, and its loop is over.
Refused == making.block = Null /\ making.cntr = making.size /\ "count" \in misused

MakeInvariant ==
  making # NoMake =>
    /\ making \in MakeType
    /\ making.size < 0 => Refused
    /\ making.size >= 0 => Filling

\* The slice may come from a make of a negative count.
Groundless(s, kinds) == s.base = Null /\ "count" \in kinds

\* What holds of a slice in a program that has misused slices as in "kinds": its
\* capacity reaches to the end of its block; as long as no slice was begun outside
\* its target, offset and capacity are what they seem; as long as no block was
\* shared when it was freed, its block is not freed.
Fits(s, kinds) ==
  /\ s \in SliceType
  /\ s.base \in 0..Len(heap)
  /\ Groundless(s, kinds) \/ Unsigned(s.off + s.cap) = Size(s.base)
  /\ "range" \notin kinds /\ ~Groundless(s, kinds) =>
       s.off \in 0..Size(s.base) /\ s.cap = Size(s.base) - s.off
  /\ "shared" \notin kinds => (s.base # Null => heap[s.base].live)

StoreInvariant ==
  /\ store \in [Names -> SliceType]
  /\ \A v \in Names : Fits(store[v], misused)

\* The inductive strengthening of the three invariants.
SlicesInvariant ==
  /\ HeapInvariant
  /\ MakeInvariant
  /\ StoreInvariant
  /\ SafeUnlessMisused
  /\ NothingUnwritten

-----------------------------------------------------------------------------
Half == Mod \div 2

LEMMA HalfOfMod == Half \in Nat \ {0} /\ Mod = 2 * Half /\ Ints = (0 - Half)..(Half - 1)
BY ConstantsAssumption DEF Half, Ints

-----------------------------------------------------------------------------
(***************************************************************************)
(* Two's complement: adding multiples of Mod changes no representation.    *)
(***************************************************************************)
LEMMA Division ==
  ASSUME NEW n \in Int
  PROVE  /\ n \div Mod \in Int
         /\ n % Mod \in 0..(Mod - 1)
         /\ n = Mod * (n \div Mod) + (n % Mod)
BY ConstantsAssumption

LEMMA RemainderUnique ==
  ASSUME NEW p \in Int, NEW q \in Int,
         NEW r \in 0..(Mod - 1), NEW s \in 0..(Mod - 1),
         Mod * p + r = Mod * q + s
  PROVE  r = s
<1>1. Mod \in Nat \ {0}
  BY ConstantsAssumption
<1>2. Mod * (p - q) = s - r
  BY <1>1
<1>3. CASE p - q >= 1
  <2>1. Mod * (p - q) >= Mod
    BY <1>1, <1>3
  <2> QED
    BY <1>1, <1>2, <2>1
<1>4. CASE p - q <= -1
  <2>1. Mod * (p - q) <= -Mod
    BY <1>1, <1>4
  <2> QED
    BY <1>1, <1>2, <2>1
<1>5. CASE p - q = 0
  BY <1>1, <1>2, <1>5
<1> QED
  BY <1>3, <1>4, <1>5

LEMMA UnsignedShift ==
  ASSUME NEW n \in Int, NEW q \in Int
  PROVE  Unsigned(n + Mod * q) = Unsigned(n)
<1>1. Mod \in Nat \ {0}
  BY ConstantsAssumption
<1> DEFINE m == n + Mod * q
<1>2. m \in Int
  BY <1>1
<1>3. /\ m \div Mod \in Int /\ m % Mod \in 0..(Mod - 1)
      /\ m = Mod * (m \div Mod) + (m % Mod)
  BY <1>2, Division
<1>4. /\ n \div Mod \in Int /\ n % Mod \in 0..(Mod - 1)
      /\ n = Mod * (n \div Mod) + (n % Mod)
  BY Division
<1>5. m = Mod * ((n \div Mod) + q) + (n % Mod)
  BY <1>1, <1>4
<1> HIDE DEF m
<1>6. (n \div Mod) + q \in Int
  BY <1>4
<1>7. m % Mod = n % Mod
  <2> DEFINE a == m \div Mod
             b == (n \div Mod) + q
             r == m % Mod
             s == n % Mod
  <2>1. a \in Int /\ b \in Int /\ r \in 0..(Mod - 1) /\ s \in 0..(Mod - 1)
        /\ Mod * a + r = Mod * b + s
    BY <1>3, <1>4, <1>5, <1>6
  <2> HIDE DEF a, b, r, s
  <2>2. r = s
    BY <2>1, RemainderUnique
  <2> QED
    BY <2>2 DEF r, s
<1> QED
  BY <1>7 DEF Unsigned, m

LEMMA UnsignedSmall ==
  ASSUME NEW n \in 0..(Mod - 1)
  PROVE  Unsigned(n) = n
BY ConstantsAssumption DEF Unsigned

LEMMA SignedShift ==
  ASSUME NEW n \in Int
  PROVE  Signed(n) \in Ints /\ \E q \in Int : Signed(n) = n + Mod * q
<1>1. n + Half \in Int /\ Mod \in Nat
  BY HalfOfMod
<1>2. /\ (n + Half) \div Mod \in Int /\ (n + Half) % Mod \in 0..(Mod - 1)
      /\ n + Half = Mod * ((n + Half) \div Mod) + ((n + Half) % Mod)
  BY <1>1, Division
<1>3. Signed(n) = ((n + Half) % Mod) - Half
  BY DEF Signed, Half
<1>4. Signed(n) \in Ints
  BY <1>2, <1>3, HalfOfMod
<1>5. Signed(n) = n + Mod * (0 - (n + Half) \div Mod)
  BY <1>1, <1>2, <1>3, HalfOfMod, SMTT(30)
<1>6. 0 - (n + Half) \div Mod \in Int
  BY <1>2
<1> QED
  BY <1>4, <1>5, <1>6

LEMMA SignedSmall ==
  ASSUME NEW n \in Ints
  PROVE  Signed(n) = n
<1>1. n \in Int /\ n + Half \in 0..(Mod - 1)
  BY HalfOfMod
<1>2. (n + Half) % Mod = n + Half
  BY <1>1, UnsignedSmall DEF Unsigned
<1> QED
  BY <1>1, <1>2, HalfOfMod DEF Signed, Half

-----------------------------------------------------------------------------
(***************************************************************************)
(* The size of a block.                                                    *)
(***************************************************************************)
LEMMA ExtentOf ==
  ASSUME NEW n \in Nat
  PROVE  Extent(0..(n - 1)) = n
<1>1. CASE n = 0
  BY <1>1 DEF Extent
<1>2. CASE n # 0
  <2>1. n - 1 \in 0..(n - 1) /\ \A j \in 0..(n - 1) : j <= n - 1
    BY <1>2
  <2>2. ASSUME NEW k \in 0..(n - 1), \A j \in 0..(n - 1) : j <= k
        PROVE  k = n - 1
    BY <2>1, <2>2
  <2>3. (CHOOSE k \in 0..(n - 1) : \A j \in 0..(n - 1) : j <= k) = n - 1
    BY <2>1, <2>2
  <2> QED
    BY <1>2, <2>1, <2>3 DEF Extent
<1> QED
  BY <1>1, <1>2

LEMMA BlockSize ==
  ASSUME HeapInvariant, NEW b \in 0..Len(heap)
  PROVE  /\ Size(b) \in 0..MaxSize
         /\ b # Null => b \in DOMAIN heap /\ DOMAIN heap[b].cells = 0..(Size(b) - 1)
<1>1. CASE b = Null
  BY <1>1, ConstantsAssumption DEF Size, Elements, Extent, Null
<1>2. CASE b # Null
  <2>1. b \in DOMAIN heap /\ heap[b] \in BlockType
    BY <1>2, LenProperties, ElementOfSeq DEF HeapInvariant, Null
  <2>2. PICK n \in 0..MaxSize : heap[b].cells \in Cells(n)
    BY <2>1 DEF BlockType
  <2>3. DOMAIN heap[b].cells = 0..(n - 1)
    BY <2>2 DEF Cells
  <2>4. Size(b) = n
    BY <1>2, <2>2, <2>3, ExtentOf DEF Size, Elements
  <2> QED
    BY <2>1, <2>2, <2>3, <2>4
<1> QED
  BY <1>1, <1>2

\* No step changes the size of a block.
LEMMA SizeKept ==
  ASSUME NEW b \in 0..Len(heap), HeapInvariant,
         \A c \in DOMAIN heap : DOMAIN heap'[c].cells = DOMAIN heap[c].cells
  PROVE  Size(b)' = Size(b)
<1>1. b # Null => b \in DOMAIN heap
  BY BlockSize
<1> QED
  BY <1>1 DEF Size, Elements

\* Later misuse only weakens what is known of a slice.
LEMMA FitsWeaker ==
  ASSUME NEW s, NEW k, NEW l, Fits(s, k), k \subseteq l
  PROVE  Fits(s, l)
BY DEF Fits, Groundless

LEMMA FitsKept ==
  ASSUME NEW s, NEW k, Fits(s, k), HeapInvariant, Len(heap') \in Nat,
         Len(heap) <= Len(heap'), Len(heap) \in Nat,
         \A c \in DOMAIN heap : DOMAIN heap'[c].cells = DOMAIN heap[c].cells,
         "shared" \notin k => (s.base # Null => heap'[s.base].live)
  PROVE  /\ s \in SliceType
         /\ s.base \in 0..Len(heap')
         /\ Groundless(s, k) \/ Unsigned(s.off + s.cap) = Size(s.base)'
         /\ "range" \notin k /\ ~Groundless(s, k) =>
              s.off \in 0..Size(s.base)' /\ s.cap = Size(s.base)' - s.off
         /\ "shared" \notin k => (s.base # Null => heap'[s.base].live)
<1>1. s.base \in 0..Len(heap)
  BY DEF Fits
<1>2. Size(s.base)' = Size(s.base)
  BY <1>1, SizeKept
<1> QED
  BY <1>1, <1>2 DEF Fits

-----------------------------------------------------------------------------
(***************************************************************************)
(* Initial states, and steps that leave the memory and the make alone.     *)
(***************************************************************************)
LEMMA NullFits ==
  ASSUME HeapInvariant, NEW kinds
  PROVE  Fits(NullSlice, kinds)
<1>1. NullSlice \in SliceType /\ 0 \in Ints
  BY HalfOfMod DEF NullSlice, SliceType, Null
<1>2. Size(Null) = 0
  BY DEF Size, Elements, Extent
<1>3. Unsigned(0) = 0
  BY ConstantsAssumption, UnsignedSmall
<1>4. Len(heap) \in Nat
  BY LenProperties DEF HeapInvariant
<1> QED
  BY <1>1, <1>2, <1>3, <1>4 DEF Fits, NullSlice, Null

LEMMA InitEstablishes == Init => SlicesInvariant
<1> SUFFICES ASSUME Init PROVE SlicesInvariant
  OBVIOUS
<1> DEFINE a == Block(MaxSize, TRUE, 0)
<1>1. heap = <<a>> /\ store = [v \in Names |-> NullSlice] /\ making = NoMake
      /\ faults = {} /\ misused = {}
  BY DEF Init
<1>2. a.cells = [k \in 0..(MaxSize - 1) |-> 0] /\ a.live = TRUE /\ a.onStack = TRUE
      /\ a = [cells |-> a.cells, live |-> TRUE, onStack |-> TRUE]
  BY DEF Block
<1> HIDE DEF a
<1>3. a.cells \in Cells(MaxSize) /\ MaxSize \in 0..MaxSize
  BY <1>2, ConstantsAssumption DEF Cells
<1>4. a \in BlockType
  BY <1>2, <1>3 DEF BlockType
<1>5. heap \in Seq(BlockType) /\ DOMAIN heap = {1} /\ heap[1] = a /\ heap # <<>>
  BY <1>1, <1>4
<1>6. HeapInvariant
  BY <1>2, <1>5 DEF HeapInvariant
<1>7. StoreInvariant
  <2>1. NullSlice \in SliceType
    BY <1>6, NullFits DEF Fits
  <2> QED
    BY <1>1, <1>6, <2>1, NullFits DEF StoreInvariant
<1>8. SafeUnlessMisused
  BY <1>1 DEF SafeUnlessMisused
<1>9. NothingUnwritten
  BY <1>1, <1>2, <1>5, ConstantsAssumption DEF NothingUnwritten
<1> QED
  BY <1>1, <1>6, <1>7, <1>8, <1>9 DEF SlicesInvariant, MakeInvariant

\* A step that only sets one variable to a slice that fits keeps the invariant.
LEMMA AssignKeeps ==
  ASSUME SlicesInvariant, making = NoMake, NEW v \in Names, NEW s,
         store' = [store EXCEPT ![v] = s], misused \subseteq misused',
         Fits(s, misused'), UNCHANGED <<heap, making, status, faults>>
  PROVE  SlicesInvariant'
<1>1. HeapInvariant'
  BY DEF SlicesInvariant, HeapInvariant
<1>2. MakeInvariant'
  BY DEF MakeInvariant
<1>3. \A w \in Names : store'[w] = IF w = v THEN s ELSE store[w]
  BY DEF SlicesInvariant, StoreInvariant
<1>4. store' \in [Names -> SliceType]
  BY DEF SlicesInvariant, StoreInvariant, Fits
<1>5. \A w \in Names : Fits(store'[w], misused')
  BY <1>3, FitsWeaker DEF SlicesInvariant, StoreInvariant
<1>6. StoreInvariant'
  BY <1>4, <1>5 DEF StoreInvariant, Fits, Groundless, Size, Elements
<1>7. SafeUnlessMisused'
  BY DEF SlicesInvariant, SafeUnlessMisused
<1>8. NothingUnwritten'
  BY DEF SlicesInvariant, NothingUnwritten
<1> QED
  BY <1>1, <1>2, <1>6, <1>7, <1>8 DEF SlicesInvariant

LEMMA StutterKeeps ==
  ASSUME SlicesInvariant, UNCHANGED vars
  PROVE  SlicesInvariant'
<1>1. HeapInvariant' /\ MakeInvariant' /\ SafeUnlessMisused' /\ NothingUnwritten'
  BY DEF SlicesInvariant, HeapInvariant, MakeInvariant, Filling, Refused,
         SafeUnlessMisused, NothingUnwritten, vars
<1>2. StoreInvariant'
  BY DEF SlicesInvariant, StoreInvariant, Fits, Groundless, Size, Elements, vars
<1> QED
  BY <1>1, <1>2 DEF SlicesInvariant

-----------------------------------------------------------------------------
(***************************************************************************)
(* Slicing and assignment.                                                 *)
(***************************************************************************)
LEMMA AddingSigned ==
  ASSUME NEW x \in Int, NEW y \in Int
  PROVE  Unsigned(Signed(x) + Signed(y)) = Unsigned(x + y)
<1>1. PICK p \in Int : Signed(x) = x + Mod * p
  BY SignedShift
<1>2. PICK q \in Int : Signed(y) = y + Mod * q
  BY SignedShift
<1>3. Mod \in Nat /\ p + q \in Int /\ x + y \in Int
  BY ConstantsAssumption
<1>4. Signed(x) + Signed(y) = (x + y) + Mod * (p + q)
  BY <1>1, <1>2, <1>3
<1> QED
  BY <1>3, <1>4, UnsignedShift

\* A slice of a slice ends where that one ends.
LEMMA SlicedFits ==
  ASSUME HeapInvariant, NEW s, NEW kinds, NEW start \in Ints, NEW end \in Ints,
         Fits(s, kinds)
  PROVE  Fits(Sliced(s, start, end),
              IF InRange(start, s.cap) THEN kinds ELSE kinds \cup {"range"})
<1> DEFINE t == Sliced(s, start, end)
           m == IF InRange(start, s.cap) THEN kinds ELSE kinds \cup {"range"}
<1>1. s \in SliceType /\ s.base \in 0..Len(heap) /\ s.off \in Ints /\ s.cap \in Ints
      /\ s.base \in Nat
  BY DEF Fits, SliceType
<1>2. s.off \in Int /\ s.cap \in Int /\ start \in Int /\ end \in Int /\ 0 \in Ints
  BY <1>1, HalfOfMod
<1>3. /\ Signed(s.off + start) \in Ints /\ Signed(s.cap - start) \in Ints
      /\ Signed(end - start) \in Ints
  <2>1. s.off + start \in Int /\ s.cap - start \in Int /\ end - start \in Int
    BY <1>2
  <2> QED
    BY <2>1, SignedShift
<1>4. /\ t.base = s.base /\ t.off = Signed(s.off + start)
      /\ t.cap = Signed(s.cap - start) /\ t \in SliceType
  BY <1>1, <1>2, <1>3 DEF Sliced, SliceType
<1> HIDE DEF t
<1>5. ~Groundless(t, m) => /\ ~Groundless(s, kinds)
                           /\ Unsigned(t.off + t.cap) = Size(t.base)
  <2>0. SUFFICES ASSUME ~Groundless(t, m)
                 PROVE  ~Groundless(s, kinds) /\ Unsigned(t.off + t.cap) = Size(t.base)
    OBVIOUS
  <2>1. s.off + start \in Int /\ s.cap - start \in Int
        /\ (s.off + start) + (s.cap - start) = s.off + s.cap
    BY <1>1, <1>2
  <2>2. ~Groundless(s, kinds)
    BY <1>4, <2>0 DEF Groundless
  <2> QED
    BY <1>4, <2>1, <2>2, AddingSigned, ZenonT(40) DEF Fits
<1>6. ASSUME "range" \notin m, ~Groundless(t, m)
      PROVE  t.off \in 0..Size(t.base) /\ t.cap = Size(t.base) - t.off
  <2>1. "range" \notin kinds /\ start \in 0..s.cap /\ ~Groundless(s, kinds)
    BY <1>5, <1>6 DEF InRange
  <2>2. /\ s.off \in 0..Size(s.base) /\ s.cap = Size(s.base) - s.off
        /\ Size(s.base) \in 0..MaxSize
    BY <1>1, <2>1, BlockSize DEF Fits
  <2>3. s.off + start \in Ints /\ s.cap - start \in Ints
    BY <2>1, <2>2, HalfOfMod, ConstantsAssumption DEF Half
  <2>4. t.off = s.off + start /\ t.cap = s.cap - start
    BY <1>4, <2>3, SignedSmall
  <2> QED
    BY <1>4, <2>1, <2>2, <2>4
<1>7. "shared" \notin m => (t.base # Null => heap[t.base].live)
  BY <1>4 DEF Fits
<1> QED
  BY <1>1, <1>4, <1>5, <1>6, <1>7 DEF Fits, t

LEMMA SliceSliceKeeps ==
  ASSUME SlicesInvariant, NEW v \in Names, NEW w \in Names, NEW kind,
         NEW start \in Starts, NEW end \in Ends, slice_slice(v, w, kind, start, end)
  PROVE  SlicesInvariant'
<1>1. start \in Ints /\ end \in Ints
  BY ConstantsAssumption
<1>2. Fits(store[w], misused) /\ HeapInvariant
  BY DEF SlicesInvariant, StoreInvariant
<1>3. misused' = IF InRange(start, store[w].cap) THEN misused ELSE misused \cup {"range"}
  BY DEF slice_slice, Misuse
<1>4. Fits(Sliced(store[w], start, end), misused')
  BY <1>1, <1>2, <1>3, SlicedFits
<1> QED
  BY <1>3, <1>4, AssignKeeps DEF slice_slice, Running

LEMMA SliceArrayKeeps ==
  ASSUME SlicesInvariant, NEW v \in Names,
         NEW start \in Starts, NEW end \in Ends \cup {MaxSize}, slice_array(v, start, end)
  PROVE  SlicesInvariant'
<1> DEFINE t == [base |-> 1, off |-> start, len |-> Signed(end - start),
                 cap |-> Signed(MaxSize - start)]
<1>1. HeapInvariant
  BY DEF SlicesInvariant
<1>2. start \in Ints /\ end \in Int /\ start \in Int /\ MaxSize \in Int
  BY ConstantsAssumption, HalfOfMod
<1>3. /\ Signed(end - start) \in Ints
      /\ Signed(MaxSize - start) \in Ints
  BY <1>2, SignedShift
<1>4. /\ t.base = 1 /\ t.off = start /\ t.cap = Signed(MaxSize - start)
      /\ t \in SliceType
  BY <1>2, <1>3 DEF SliceType
<1>5. misused' = IF InRange(start, MaxSize) THEN misused ELSE misused \cup {"range"}
  BY DEF slice_array, Misuse
<1>6. 1 \in 0..Len(heap) /\ 1 # Null /\ heap[1].live
  <2>1. Len(heap) \in Nat /\ Len(heap) # 0
    BY <1>1, EmptySeq, LenProperties DEF HeapInvariant
  <2> QED
    BY <1>1, <2>1 DEF HeapInvariant, Null
<1>7. Size(1) = MaxSize
  BY <1>1, <1>6, ExtentOf, ConstantsAssumption DEF Size, Elements, HeapInvariant
<1> HIDE DEF t
<1>8. Unsigned(t.off + t.cap) = Size(t.base)
  <2>1. PICK q \in Int : Signed(MaxSize - start) = (MaxSize - start) + Mod * q
    BY <1>2, SignedShift
  <2>2. t.off + t.cap = MaxSize + Mod * q
    BY <1>2, <1>4, <2>1, ConstantsAssumption
  <2>3. MaxSize \in 0..(Mod - 1)
    BY HalfOfMod, ConstantsAssumption DEF Half
  <2> QED
    BY <1>2, <1>4, <1>7, <2>2, <2>3, UnsignedShift, UnsignedSmall
<1>9. ASSUME "range" \notin misused'
      PROVE  t.off \in 0..Size(t.base) /\ t.cap = Size(t.base) - t.off
  <2>1. start \in 0..MaxSize
    BY <1>5, <1>9 DEF InRange
  <2>2. MaxSize - start \in Ints
    BY <2>1, HalfOfMod, ConstantsAssumption DEF Half
  <2>3. t.cap = MaxSize - start
    BY <1>4, <2>2, SignedSmall
  <2> QED
    BY <1>4, <1>7, <2>1, <2>3
<1>10. Fits(t, misused')
  BY <1>4, <1>6, <1>8, <1>9 DEF Fits
<1> QED
  BY <1>5, <1>10, AssignKeeps DEF slice_array, Running, t

LEMMA AssignmentKeeps ==
  ASSUME SlicesInvariant, NEW v \in Names, NEW w \in Names, assign(v, w)
  PROVE  SlicesInvariant'
<1>1. Fits(store[w], misused)
  BY DEF SlicesInvariant, StoreInvariant
<1>2. misused' = misused
  BY DEF assign
<1> QED
  BY <1>1, <1>2, AssignKeeps DEF assign, Running

-----------------------------------------------------------------------------
(***************************************************************************)
(* An access.                                                              *)
(***************************************************************************)
\* The bounds check of a slice that is what it seems lets only offsets inside
\* the block through.
LEMMA CheckHolds ==
  ASSUME HeapInvariant, NEW s, NEW kinds, Fits(s, kinds), "range" \notin kinds,
         "count" \notin kinds, NEW i \in Ints, InBounds(s, i)
  PROVE  Signed(s.off + i) \in 0..(Size(s.base) - 1)
<1>1. /\ s.off \in 0..Size(s.base) /\ s.cap = Size(s.base) - s.off
      /\ Size(s.base) \in 0..MaxSize
  BY BlockSize DEF Fits, Groundless
<1>2. i \in Int /\ Half \in Nat /\ Mod = 2 * Half /\ MaxSize \in Nat /\ MaxSize < Half
      /\ i >= 0 - Half /\ i < Half
  BY HalfOfMod, ConstantsAssumption DEF Half
<1>3. Unsigned(s.cap) = s.cap /\ s.cap \in 0..MaxSize
  BY <1>1, <1>2, UnsignedSmall
<1>4. i \in 0..(s.cap - 1)
  <2>1. CASE i >= 0
    <3>1. Unsigned(i) = i
      BY <1>2, <2>1, UnsignedSmall
    <3> QED
      BY <1>2, <1>3, <2>1, <3>1 DEF InBounds
  <2>2. CASE i < 0
    <3>1. Unsigned(i + Mod * 1) = Unsigned(i)
      BY <1>2, UnsignedShift
    <3>2. i + Mod * 1 = i + Mod /\ i + Mod \in 0..(Mod - 1)
      BY <1>2, <2>2
    <3>3. Unsigned(i) = i + Mod
      BY <3>1, <3>2, UnsignedSmall
    <3> QED
      BY <1>2, <1>3, <3>3 DEF InBounds
  <2> QED
    BY <1>2, <2>1, <2>2
<1>5. s.off + i \in 0..(Size(s.base) - 1) /\ s.off + i \in Ints
  BY <1>1, <1>2, <1>4, HalfOfMod
<1> QED
  BY <1>5, SignedSmall

LEMMA IndexAccessKeeps ==
  ASSUME SlicesInvariant, NEW v \in Names, NEW i \in Ints, index_access(v, i)
  PROVE  SlicesInvariant'
<1> DEFINE s == store[v]
           at == Signed(s.off + i)
<1>1. Fits(s, misused) /\ HeapInvariant
  BY DEF SlicesInvariant, StoreInvariant
<1>2. making = NoMake /\ making.block = Null
  BY DEF index_access, Running, NoMake
<1>3. HeapInvariant' /\ MakeInvariant'
  BY <1>2 DEF SlicesInvariant, HeapInvariant, MakeInvariant, index_access
<1>4. StoreInvariant'
  BY DEF SlicesInvariant, StoreInvariant, Fits, Groundless, Size, Elements, index_access
<1>5. CASE ~InBounds(s, i)
  <2>1. faults' = faults /\ UNCHANGED <<heap, making, misused>>
    BY <1>5 DEF index_access
  <2>2. SafeUnlessMisused' /\ NothingUnwritten'
    BY <2>1 DEF SlicesInvariant, SafeUnlessMisused, NothingUnwritten
  <2> QED
    BY <1>3, <1>4, <2>2 DEF SlicesInvariant
<1>6. CASE InBounds(s, i)
  <2>1. faults' = faults \cup Access(s, at) /\ UNCHANGED <<heap, making, misused>>
    BY <1>6 DEF index_access
  <2>2. s.base \in 0..Len(heap)
    BY <1>1 DEF Fits
  <2>3. "outside" \in Access(s, at) => "range" \in misused \/ "count" \in misused
    <3>1. SUFFICES ASSUME "range" \notin misused, "count" \notin misused
                   PROVE  "outside" \notin Access(s, at)
      OBVIOUS
    <3>2. at \in 0..(Size(s.base) - 1)
      BY <1>1, <1>6, <3>1, CheckHolds
    <3>3. s.base # Null
      BY <3>2 DEF Size, Elements, Extent
    <3> QED
      BY <3>2, <3>3 DEF Access
  <2>4. "freed" \in Access(s, at) => "shared" \in misused
    <3>1. SUFFICES ASSUME "shared" \notin misused PROVE "freed" \notin Access(s, at)
      OBVIOUS
    <3>2. s.base # Null => heap[s.base].live
      BY <1>1, <3>1 DEF Fits
    <3> QED
      BY <3>2 DEF Access
  <2>5. "bad free" \notin Access(s, at)
    BY DEF Access
  <2>6. "unwritten" \notin Access(s, at)
    <3>1. SUFFICES ASSUME s.base # Null, at \in 0..(Size(s.base) - 1)
                   PROVE  heap[s.base].cells[at] # Undef
      BY DEF Access
    <3>2. s.base \in DOMAIN heap /\ at \in DOMAIN heap[s.base].cells
      BY <1>1, <2>2, <3>1, BlockSize
    <3> QED
      BY <1>2, <3>1, <3>2 DEF SlicesInvariant, NothingUnwritten
  <2> HIDE DEF s, at
  <2>7. SafeUnlessMisused'
    BY <2>1, <2>3, <2>4, <2>5 DEF SlicesInvariant, SafeUnlessMisused
  <2>8. NothingUnwritten'
    BY <2>1, <2>6 DEF SlicesInvariant, NothingUnwritten
  <2> QED
    BY <1>3, <1>4, <2>7, <2>8 DEF SlicesInvariant
<1> QED
  BY <1>5, <1>6

-----------------------------------------------------------------------------
(***************************************************************************)
(* make.                                                                   *)
(***************************************************************************)
LEMMA HeapFacts ==
  ASSUME HeapInvariant
  PROVE  /\ Len(heap) \in Nat /\ Len(heap) >= 1 /\ DOMAIN heap = 1..Len(heap)
         /\ \A b \in DOMAIN heap : heap[b] \in BlockType
<1>1. Len(heap) \in Nat /\ Len(heap) # 0 /\ DOMAIN heap = 1..Len(heap)
  BY EmptySeq, LenProperties DEF HeapInvariant
<1> QED
  BY <1>1, ElementOfSeq DEF HeapInvariant

\* A make of a negative count: no block, and it goes on record.
LEMMA RefusedMakeKeeps ==
  ASSUME SlicesInvariant, NEW v \in Names, NEW n \in Ints, n < 0, make(v, n)
  PROVE  SlicesInvariant'
<1>1. /\ making' = [name |-> v, block |-> Null, size |-> n, cntr |-> n]
      /\ making = NoMake /\ UNCHANGED <<heap, store, faults>>
      /\ misused' = misused \cup {"count"}
  BY DEF make, Misuse, Running
<1>2. HeapInvariant'
  BY <1>1 DEF SlicesInvariant, HeapInvariant
<1>3. MakeInvariant'
  <2>1. making' \in MakeType /\ making'.size = n /\ making'.cntr = n /\ making'.block = Null
    BY <1>1 DEF MakeType, Null
  <2>2. ~(n >= 0)
    BY HalfOfMod
  <2> QED
    BY <1>1, <2>1, <2>2 DEF MakeInvariant, Refused
<1>4. StoreInvariant'
  <2>1. \A w \in Names : Fits(store[w], misused')
    BY <1>1, FitsWeaker DEF SlicesInvariant, StoreInvariant
  <2> QED
    BY <1>1, <2>1 DEF SlicesInvariant, StoreInvariant, Fits, Groundless, Size, Elements
<1>5. SafeUnlessMisused'
  BY <1>1 DEF SlicesInvariant, SafeUnlessMisused
<1>6. NothingUnwritten'
  BY <1>1 DEF SlicesInvariant, NothingUnwritten, NoMake
<1> QED
  BY <1>2, <1>3, <1>4, <1>5, <1>6 DEF SlicesInvariant

LEMMA MakeKeeps ==
  ASSUME SlicesInvariant, NEW v \in Names, NEW n \in 0..MaxSize, make(v, n)
  PROVE  SlicesInvariant'
<1> DEFINE a == Block(n, FALSE, Undef)
           l == Len(heap)
<1>1. HeapInvariant /\ l \in Nat /\ l >= 1 /\ DOMAIN heap = 1..l
      /\ heap \in Seq(BlockType) /\ n \in Nat
  BY HeapFacts, ConstantsAssumption DEF SlicesInvariant, HeapInvariant
<1>2. /\ heap' = Append(heap, a)
      /\ making' = [name |-> v, block |-> l + 1, size |-> n, cntr |-> n]
      /\ making = NoMake /\ UNCHANGED <<store, faults, misused>>
  <2>1. ~(n < 0)
    BY <1>1
  <2> QED
    BY <2>1 DEF make, Misuse, Running
<1>3. /\ a = [cells |-> [k \in 0..(n - 1) |-> Undef], live |-> TRUE, onStack |-> FALSE]
      /\ DOMAIN a.cells = 0..(n - 1) /\ a.live = TRUE /\ a.onStack = FALSE
  BY DEF Block
<1> HIDE DEF a
<1>4. a \in BlockType
  <2>1. [k \in 0..(n - 1) |-> Undef] \in Cells(n)
    BY DEF Cells
  <2>2. [k \in 0..(n - 1) |-> Undef] \in UNION {Cells(j) : j \in 0..MaxSize}
    BY <2>1
  <2> QED
    BY <1>3, <2>2 DEF BlockType
<1>5. /\ heap' \in Seq(BlockType) /\ Len(heap') = l + 1 /\ DOMAIN heap' = 1..(l + 1)
      /\ heap'[l + 1] = a /\ \A b \in 1..l : heap'[b] = heap[b]
  BY <1>1, <1>2, <1>4, AppendProperties, LenProperties
<1>6. HeapInvariant'
  <2>1. heap' # <<>>
    BY <1>1, <1>5
  <2>2. heap'[1] = heap[1]
    BY <1>1, <1>5
  <2>3. ASSUME NEW b \in DOMAIN heap' PROVE heap'[b].onStack <=> b = 1
    <3>1. CASE b = l + 1
      BY <1>1, <1>3, <1>5, <3>1
    <3>2. CASE b # l + 1
      <4>1. b \in 1..l
        BY <1>1, <1>5, <3>2
      <4>2. heap'[b] = heap[b] /\ b \in DOMAIN heap
        BY <1>1, <1>5, <4>1
      <4> QED
        BY <1>1, <4>2 DEF HeapInvariant
    <3> QED
      BY <3>1, <3>2
  <2> QED
    BY <1>1, <1>5, <2>1, <2>2, <2>3 DEF HeapInvariant
<1>7. StoreInvariant'
  <2>1. ASSUME NEW w \in Names PROVE Fits(store[w], misused)'
    <3>1. Fits(store[w], misused)
      BY DEF SlicesInvariant, StoreInvariant
    <3>2. store[w].base # Null => heap'[store[w].base] = heap[store[w].base]
      BY <1>1, <1>5, <3>1 DEF Fits, Null
    <3>3. "shared" \notin misused => (store[w].base # Null => heap'[store[w].base].live)
      BY <3>1, <3>2 DEF Fits
    <3>4. \A c \in DOMAIN heap : DOMAIN heap'[c].cells = DOMAIN heap[c].cells
      BY <1>1, <1>5
    <3>5. Len(heap) \in Nat /\ Len(heap') \in Nat /\ Len(heap) <= Len(heap')
      BY <1>1, <1>5
    <3> HIDE DEF l
    <3> QED
      BY <1>1, <1>2, <3>1, <3>3, <3>4, <3>5, FitsKept DEF Fits
  <2> QED
    BY <1>2, <2>1 DEF SlicesInvariant, StoreInvariant
<1>8. MakeInvariant'
  <2>0. n \in Ints /\ n \in -1..MaxSize /\ ~(n < 0)
    BY <1>1, HalfOfMod, ConstantsAssumption DEF Half
  <2>1. making' \in MakeType /\ making'.block = l + 1 /\ making'.size = n /\ making'.cntr = n
    BY <1>1, <1>2, <2>0 DEF MakeType
  <2>2. \A w \in Names : store[w].base # l + 1
    BY <1>1 DEF SlicesInvariant, StoreInvariant, Fits
  <2> QED
    BY <1>1, <1>2, <1>3, <1>5, <2>0, <2>1, <2>2 DEF MakeInvariant, Filling
<1>9. SafeUnlessMisused'
  BY <1>2 DEF SlicesInvariant, SafeUnlessMisused
<1>10. NothingUnwritten'
  <2>1. making.block = Null /\ making'.block = l + 1
    BY <1>2 DEF NoMake
  <2> QED
    BY <1>1, <1>2, <1>5, <2>1 DEF SlicesInvariant, NothingUnwritten, Null
<1> QED
  BY <1>6, <1>7, <1>8, <1>9, <1>10 DEF SlicesInvariant

LEMMA RefusedMakeEndKeeps ==
  ASSUME SlicesInvariant, make_end, making.size < 0
  PROVE  SlicesInvariant'
<1> DEFINE t == [base |-> making.block, off |-> 0, len |-> 0, cap |-> making.size]
<1>1. /\ making # NoMake /\ making' = NoMake
      /\ store' = [store EXCEPT ![making.name] = t]
      /\ UNCHANGED <<heap, faults, misused>>
  BY DEF make_end
<1>2. making \in MakeType /\ making.block = Null /\ "count" \in misused
  BY <1>1 DEF SlicesInvariant, MakeInvariant, Refused
<1>3. t \in SliceType /\ t.base = Null /\ making.name \in Names
  BY <1>2, HalfOfMod DEF MakeType, SliceType, Null
<1> HIDE DEF t
<1>4. Fits(t, misused)
  <2>1. 0 \in 0..Len(heap)
    BY HeapFacts DEF SlicesInvariant
  <2> QED
    BY <1>2, <1>3, <2>1 DEF Fits, Groundless, Null
<1>5. StoreInvariant'
  <2>1. \A w \in Names : store'[w] = IF w = making.name THEN t ELSE store[w]
    BY <1>1 DEF SlicesInvariant, StoreInvariant
  <2>2. store' \in [Names -> SliceType]
    BY <1>1, <1>3 DEF SlicesInvariant, StoreInvariant
  <2>3. \A w \in Names : Fits(store'[w], misused)
    BY <1>4, <2>1 DEF SlicesInvariant, StoreInvariant
  <2> QED
    BY <1>1, <2>2, <2>3 DEF StoreInvariant, Fits, Groundless, Size, Elements
<1>6. HeapInvariant' /\ MakeInvariant' /\ SafeUnlessMisused'
  BY <1>1 DEF SlicesInvariant, HeapInvariant, MakeInvariant, SafeUnlessMisused
<1>7. NothingUnwritten'
  <2>1. \A b \in DOMAIN heap : b # Null
    BY HeapFacts DEF SlicesInvariant, Null
  <2> QED
    BY <1>1, <1>2, <2>1 DEF SlicesInvariant, NothingUnwritten
<1> QED
  BY <1>5, <1>6, <1>7 DEF SlicesInvariant

LEMMA MakeEndKeeps ==
  ASSUME SlicesInvariant, make_end, making.size >= 0
  PROVE  SlicesInvariant'
<1> DEFINE b == making.block
           t == [base |-> b, off |-> 0, len |-> 0, cap |-> making.size]
<1>1. /\ making # NoMake /\ making' = NoMake
      /\ store' = [store EXCEPT ![making.name] = t]
      /\ UNCHANGED <<heap, faults, misused>>
      /\ ~(0 <= making.cntr)
  BY DEF make_end, ZeroLoop
<1>2. HeapInvariant /\ Len(heap) \in Nat /\ DOMAIN heap = 1..Len(heap)
  BY HeapFacts DEF SlicesInvariant
<1>3. /\ making \in MakeType /\ b = Len(heap) /\ b > 1 /\ b \in Nat
      /\ making.size \in 0..MaxSize /\ making.name \in Names /\ making.cntr \in -1..MaxSize
      /\ DOMAIN heap[b].cells = 0..(making.size - 1)
      /\ \A k \in 0..(making.size - 1) : k > making.cntr => heap[b].cells[k] = 0
      /\ heap[b].live
  BY <1>1 DEF SlicesInvariant, MakeInvariant, Filling, MakeType
<1>4. HeapInvariant'
  BY <1>1, <1>2 DEF HeapInvariant
<1>5. MakeInvariant' /\ SafeUnlessMisused'
  BY <1>1 DEF SlicesInvariant, MakeInvariant, SafeUnlessMisused
<1>6. t \in SliceType /\ making.size \in 0..(Mod - 1)
  BY <1>3, HalfOfMod, ConstantsAssumption DEF SliceType, Half
<1>7. Size(b) = making.size
  BY <1>3, ExtentOf, ConstantsAssumption DEF Size, Elements, Null
<1>8. Fits(t, misused)
  BY <1>2, <1>3, <1>6, <1>7, UnsignedSmall DEF Fits
<1>9. StoreInvariant'
  <2>1. \A w \in Names : store'[w] = IF w = making.name THEN t ELSE store[w]
    BY <1>1 DEF SlicesInvariant, StoreInvariant
  <2>2. store' \in [Names -> SliceType]
    BY <1>1, <1>6 DEF SlicesInvariant, StoreInvariant
  <2> HIDE DEF t
  <2>3. \A w \in Names : Fits(store'[w], misused)
    BY <1>8, <2>1 DEF SlicesInvariant, StoreInvariant
  <2> QED
    BY <1>1, <2>2, <2>3 DEF StoreInvariant, Fits, Groundless, Size, Elements
<1>10. NothingUnwritten'
  <2>1. \A k \in DOMAIN heap[b].cells : heap[b].cells[k] # Undef
    BY <1>1, <1>3, ConstantsAssumption
  <2> QED
    BY <1>1, <2>1 DEF SlicesInvariant, NothingUnwritten
<1> QED
  BY <1>4, <1>5, <1>9, <1>10 DEF SlicesInvariant

\* A step that changes no block's size and frees nothing keeps what is known of
\* every slice.
LEMMA StoreKept ==
  ASSUME SlicesInvariant, Len(heap') = Len(heap), UNCHANGED <<store, misused>>,
         \A c \in DOMAIN heap : /\ DOMAIN heap'[c].cells = DOMAIN heap[c].cells
                                /\ heap'[c].live = heap[c].live
  PROVE  StoreInvariant'
<1>1. HeapInvariant /\ Len(heap) \in Nat /\ DOMAIN heap = 1..Len(heap)
  BY HeapFacts DEF SlicesInvariant
<1>2. ASSUME NEW w \in Names PROVE Fits(store[w], misused)'
  <2>1. Fits(store[w], misused)
    BY DEF SlicesInvariant, StoreInvariant
  <2>2. store[w].base # Null => heap'[store[w].base].live = heap[store[w].base].live
    BY <1>1, <2>1 DEF Fits, Null
  <2>3. "shared" \notin misused => (store[w].base # Null => heap'[store[w].base].live)
    BY <2>1, <2>2 DEF Fits
  <2>4. Len(heap') \in Nat /\ Len(heap) <= Len(heap')
    BY <1>1
  <2> QED
    BY <1>1, <2>1, <2>3, <2>4, FitsKept DEF Fits
<1> QED
  BY <1>2 DEF SlicesInvariant, StoreInvariant

LEMMA ArrayNewKeeps ==
  ASSUME SlicesInvariant, codegen_array_new
  PROVE  SlicesInvariant'
<1> DEFINE b == making.block
           c == making.cntr
<1>1. HeapInvariant /\ Len(heap) \in Nat /\ DOMAIN heap = 1..Len(heap)
      /\ heap \in Seq(BlockType)
  BY HeapFacts DEF SlicesInvariant, HeapInvariant
<1>2. /\ making # NoMake /\ 0 <= c
      /\ making' = [making EXCEPT !.cntr = Signed(c - 1)]
      /\ UNCHANGED <<store, misused>>
  BY DEF codegen_array_new, ZeroLoop
<1>3. /\ making \in MakeType /\ b = Len(heap) /\ b > 1 /\ b \in Nat
      /\ making.size \in 0..MaxSize /\ making.name \in Names /\ c \in -1..MaxSize
      /\ DOMAIN heap[b].cells = 0..(making.size - 1)
      /\ \A k \in 0..(making.size - 1) : k > c => heap[b].cells[k] = 0
      /\ heap[b].live
      /\ \A v \in Names : store[v].base # b
  <2>1. making \in MakeType /\ making.size \in Int
    BY <1>2, HalfOfMod DEF SlicesInvariant, MakeInvariant, MakeType
  <2>2. making.size >= 0
    <3>1. CASE making.size < 0
      BY <1>2, <2>1, <3>1 DEF SlicesInvariant, MakeInvariant, Refused
    <3> QED
      BY <2>1, <3>1
  <2> QED
    BY <1>2, <2>1, <2>2 DEF SlicesInvariant, MakeInvariant, Filling, MakeType
<1>31. b # Null
  BY <1>3 DEF Null
<1>4. Signed(c - 1) = c - 1 /\ c - 1 \in -1..MaxSize /\ c - 1 \in Ints
  <2>1. c \in 0..MaxSize /\ MaxSize \in Nat /\ MaxSize < Half
    BY <1>2, <1>3, ConstantsAssumption DEF Half
  <2> HIDE DEF c
  <2>2. c - 1 \in Ints /\ c - 1 \in -1..MaxSize
    BY <2>1, HalfOfMod
  <2> QED
    BY <2>2, SignedSmall
<1>5. /\ making' \in MakeType /\ making'.block = b /\ making'.cntr = c - 1
      /\ making'.size = making.size
  BY <1>2, <1>3, <1>4 DEF MakeType
<1>6. CASE c \notin DOMAIN heap[b].cells
  <2>1. heap' = heap /\ faults' = faults \cup {"past the end"}
    BY <1>31, <1>6 DEF codegen_array_new, Elements
  <2>2. c > making.size - 1
    BY <1>2, <1>3, <1>6
  <2>3. HeapInvariant'
    BY <1>1, <2>1 DEF HeapInvariant
  <2>4. MakeInvariant'
    <3>1. \A k \in 0..(making.size - 1) : k > c - 1 => heap[b].cells[k] = 0
      BY <1>3, <2>2
    <3>2. heap'[b].cells = heap[b].cells /\ heap'[b].live /\ Len(heap') = Len(heap)
      BY <1>3, <2>1
    <3>3. \A v \in Names : store'[v].base # b
      BY <1>2, <1>3
    <3>4. c - 1 \in -1..MaxSize /\ making'.size \in 0..MaxSize
      BY <1>3, <1>4, <1>5
    <3> HIDE DEF b, c
    <3>5. Filling'
      BY <1>3, <1>5, <3>1, <3>2, <3>3, <3>4 DEF Filling
    <3> QED
      BY <1>3, <1>5, <3>5 DEF MakeInvariant
  <2>5. StoreInvariant'
    BY <1>2, <2>1, StoreKept
  <2>6. SafeUnlessMisused' /\ NothingUnwritten'
    BY <1>2, <1>5, <2>1 DEF SlicesInvariant, SafeUnlessMisused, NothingUnwritten
  <2> QED
    BY <2>3, <2>4, <2>5, <2>6 DEF SlicesInvariant
<1>7. CASE c \in DOMAIN heap[b].cells
  <2> DEFINE new == [heap[b] EXCEPT !.cells = [@ EXCEPT ![c] = 0]]
  <2>1. heap' = [heap EXCEPT ![b] = new] /\ faults' = faults
    BY <1>31, <1>7 DEF codegen_array_new, Elements
  <2>2. heap[b] \in BlockType /\ b \in DOMAIN heap
    BY <1>1, <1>3, HeapFacts
  <2>3. /\ new.live = heap[b].live /\ new.onStack = heap[b].onStack
        /\ new.cells = [heap[b].cells EXCEPT ![c] = 0]
        /\ DOMAIN new.cells = DOMAIN heap[b].cells
    BY <2>2 DEF BlockType
  <2>4. new \in BlockType
    <3>1. PICK n \in 0..MaxSize : heap[b].cells \in Cells(n)
      BY <2>2 DEF BlockType
    <3>2. new.cells \in Cells(n)
      BY <2>3, <3>1 DEF Cells
    <3>3. new.cells \in UNION {Cells(j) : j \in 0..MaxSize}
      BY <3>2
    <3> QED
      BY <2>2, <3>3 DEF BlockType
  <2> HIDE DEF new
  <2>5. /\ heap' \in Seq(BlockType) /\ Len(heap') = Len(heap) /\ DOMAIN heap' = DOMAIN heap
        /\ heap'[b] = new /\ \A d \in DOMAIN heap : d # b => heap'[d] = heap[d]
    BY <1>1, <2>1, <2>2, <2>4, ExceptSeq
  <2>6. HeapInvariant'
    <3>1. heap' # <<>> /\ heap'[1] = heap[1]
      BY <1>1, <1>3, <2>2, <2>5
    <3>2. \A d \in DOMAIN heap' : heap'[d].onStack = heap[d].onStack
      BY <2>3, <2>5
    <3> QED
      BY <1>1, <2>5, <3>1, <3>2 DEF HeapInvariant
  <2>7. StoreInvariant'
    <3>1. \A d \in DOMAIN heap : /\ DOMAIN heap'[d].cells = DOMAIN heap[d].cells
                                 /\ heap'[d].live = heap[d].live
      BY <2>3, <2>5
    <3> QED
      BY <1>2, <2>5, <3>1, StoreKept
  <2>8. MakeInvariant'
    <3>1. \A k \in 0..(making.size - 1) : k > c - 1 => new.cells[k] = 0
      BY <1>3, <2>3
    <3> HIDE DEF b, c
    <3>2. new.live
      BY <1>3, <2>3, Zenon
    <3>3. /\ heap'[making'.block] = new /\ making'.block = Len(heap') /\ making'.block > 1
          /\ DOMAIN new.cells = 0..(making'.size - 1)
      BY <1>3, <1>5, <2>3, <2>5
    <3>4. \A v \in Names : store'[v].base # making'.block
      BY <1>2, <1>3, <1>5
    <3> QED
      BY <1>3, <1>4, <1>5, <3>1, <3>2, <3>3, <3>4 DEF MakeInvariant, Filling
  <2>9. SafeUnlessMisused' /\ NothingUnwritten'
    BY <1>2, <1>5, <2>1, <2>5 DEF SlicesInvariant, SafeUnlessMisused, NothingUnwritten
  <2> QED
    BY <2>6, <2>7, <2>8, <2>9 DEF SlicesInvariant
<1> QED
  BY <1>6, <1>7

-----------------------------------------------------------------------------
(***************************************************************************)
(* dispose.                                                                *)
(***************************************************************************)
LEMMA DisposeKeeps ==
  ASSUME SlicesInvariant, NEW v \in Names, dispose(v)
  PROVE  SlicesInvariant'
<1> DEFINE b == store[v].base
<1>1. HeapInvariant /\ Len(heap) \in Nat /\ Len(heap) >= 1 /\ DOMAIN heap = 1..Len(heap)
      /\ heap \in Seq(BlockType)
  BY HeapFacts DEF SlicesInvariant, HeapInvariant
<1>2. /\ store' = [store EXCEPT ![v] = NullSlice]
      /\ heap' = Freed(b)
      /\ faults' = faults \cup (IF BadFree(b) THEN {"bad free"} ELSE {})
      /\ misused' = misused \cup (IF Others(v) THEN {"shared"} ELSE {})
                           \cup (IF b = 1 THEN {"array"} ELSE {})
      /\ making = NoMake /\ making' = NoMake
  BY DEF dispose, DisposeMisuse, Running
<1>3. Fits(store[v], misused) /\ b \in 0..Len(heap)
  BY DEF SlicesInvariant, StoreInvariant, Fits
<1>4. /\ heap' \in Seq(BlockType) /\ Len(heap') = Len(heap) /\ DOMAIN heap' = DOMAIN heap
      /\ \A c \in DOMAIN heap :
           /\ heap'[c].cells = heap[c].cells /\ heap'[c].onStack = heap[c].onStack
           /\ c # b \/ c = 1 => heap'[c] = heap[c]
  <2>1. CASE b = Null \/ heap[b].onStack
    BY <1>1, <1>2, <2>1 DEF Freed
  <2>2. CASE ~(b = Null \/ heap[b].onStack)
    <3> DEFINE new == [heap[b] EXCEPT !.live = FALSE]
    <3>1. heap' = [heap EXCEPT ![b] = new]
      BY <1>2, <2>2 DEF Freed
    <3>2. b \in DOMAIN heap /\ b # 1
      BY <1>1, <1>3, <2>2 DEF HeapInvariant, Null
    <3>3. heap[b] \in BlockType
      BY <1>1, <3>2, HeapFacts
    <3>4. new \in BlockType /\ new.cells = heap[b].cells /\ new.onStack = heap[b].onStack
      BY <3>3 DEF BlockType
    <3> HIDE DEF new
    <3>5. /\ heap' \in Seq(BlockType) /\ Len(heap') = Len(heap) /\ DOMAIN heap' = DOMAIN heap
          /\ \A c \in DOMAIN heap : heap'[c] = IF c = b THEN new ELSE heap[c]
      BY <1>1, <3>1, <3>2, <3>4, ExceptSeq
    <3> QED
      BY <3>2, <3>4, <3>5
  <2> QED
    BY <2>1, <2>2
<1>5. HeapInvariant'
  <2>1. heap' # <<>> /\ heap'[1] = heap[1] /\ 1 \in DOMAIN heap
    BY <1>1, <1>4
  <2> QED
    BY <1>1, <1>4, <2>1 DEF HeapInvariant
<1>6. MakeInvariant'
  BY <1>2 DEF MakeInvariant
<1>7. StoreInvariant'
  <2>1. \A w \in Names : store'[w] = IF w = v THEN NullSlice ELSE store[w]
    BY <1>2 DEF SlicesInvariant, StoreInvariant
  <2>2. Fits(NullSlice, misused)
    BY <1>1, NullFits
  <2>3. store' \in [Names -> SliceType]
    BY <1>2, <2>2 DEF SlicesInvariant, StoreInvariant, Fits
  <2>4. ASSUME NEW w \in Names PROVE Fits(store'[w], misused')
    <3>1. Fits(store'[w], misused)
      BY <2>1, <2>2 DEF SlicesInvariant, StoreInvariant
    <3>2. misused \subseteq misused'
      BY <1>2
    <3> QED
      BY <3>1, <3>2, FitsWeaker
  <2>5. ASSUME NEW w \in Names
        PROVE  "shared" \notin misused' => (store'[w].base # Null => heap'[store'[w].base].live)
    <3>1. SUFFICES ASSUME "shared" \notin misused', store'[w].base # Null
                   PROVE  heap'[store'[w].base].live
      OBVIOUS
    <3>2. w # v /\ store'[w] = store[w]
      BY <2>1, <3>1 DEF NullSlice, Null
    <3>3. heap[store[w].base].live /\ store[w].base \in DOMAIN heap
      BY <1>1, <2>4, <3>1, <3>2 DEF Fits, Null
    <3>4. store[w].base # b
      BY <1>2, <3>1, <3>2 DEF Others
    <3> QED
      BY <1>4, <3>2, <3>3, <3>4
  <2>6. ASSUME NEW w \in Names PROVE Fits(store[w], misused)'
    <3>1. Len(heap') \in Nat /\ Len(heap) <= Len(heap')
      BY <1>1, <1>4
    <3>2. \A c \in DOMAIN heap : DOMAIN heap'[c].cells = DOMAIN heap[c].cells
      BY <1>4
    <3> QED
      BY <1>1, <2>4, <2>5, <3>1, <3>2, FitsKept DEF Fits
  <2> QED
    BY <2>3, <2>6 DEF StoreInvariant
<1>8. SafeUnlessMisused'
  <2>1. ASSUME BadFree(b) PROVE "shared" \in misused' \/ "array" \in misused'
    <3>1. b # Null /\ b \in DOMAIN heap
      BY <1>1, <1>3, <2>1 DEF BadFree, Null
    <3>2. CASE heap[b].onStack
      <4>1. b = 1
        BY <1>1, <3>1, <3>2 DEF HeapInvariant
      <4> QED
        BY <1>2, <4>1
    <3>3. CASE ~heap[b].live
      BY <1>2, <1>3, <3>1, <3>3 DEF Fits
    <3> QED
      BY <2>1, <3>2, <3>3 DEF BadFree
  <2> QED
    BY <1>2, <2>1 DEF SlicesInvariant, SafeUnlessMisused
<1>9. NothingUnwritten'
  <2>1. "unwritten" \notin faults'
    BY <1>2 DEF SlicesInvariant, NothingUnwritten
  <2>2. ASSUME NEW c \in DOMAIN heap', c # making'.block, NEW k \in DOMAIN heap'[c].cells
        PROVE  heap'[c].cells[k] # Undef
    BY <1>2, <1>4, <2>2, ZenonT(40) DEF SlicesInvariant, NothingUnwritten
  <2> QED
    BY <2>1, <2>2 DEF NothingUnwritten
<1> QED
  BY <1>5, <1>6, <1>7, <1>8, <1>9 DEF SlicesInvariant

-----------------------------------------------------------------------------
LEMMA StepKeeps == SlicesInvariant /\ [Next]_vars => SlicesInvariant'
<1> SUFFICES ASSUME SlicesInvariant, [Next]_vars PROVE SlicesInvariant'
  OBVIOUS
<1>1. CASE \E v \in Names, n \in Counts : make(v, n)
  <2>1. PICK v \in Names, n \in Counts : make(v, n)
    BY <1>1
  <2>2. n \in Ints /\ n \in Int /\ n <= MaxSize
    BY HalfOfMod, ConstantsAssumption
  <2>3. CASE n < 0
    BY <2>1, <2>2, <2>3, RefusedMakeKeeps
  <2>4. CASE ~(n < 0)
    <3>1. n \in 0..MaxSize
      BY <2>2, <2>4, ConstantsAssumption
    <3> QED
      BY <2>1, <3>1, MakeKeeps
  <2> QED
    BY <2>3, <2>4
<1>2. CASE codegen_array_new
  BY <1>2, ArrayNewKeeps
<1>3. CASE make_end
  <2>1. making.size \in Int
    BY <1>3, HalfOfMod DEF make_end, SlicesInvariant, MakeInvariant, MakeType
  <2> QED
    BY <1>3, <2>1, MakeEndKeeps, RefusedMakeEndKeeps
<1>4. CASE \E v, w \in Names, kind \in {"range", "prefix", "postfix"},
             start \in Starts, end \in Ends : slice_slice(v, w, kind, start, end)
  BY <1>4, SliceSliceKeeps
<1>5. CASE \E v \in Names, start \in Starts, end \in Ends \cup {MaxSize} :
             slice_array(v, start, end)
  BY <1>5, SliceArrayKeeps
<1>6. CASE \E v, w \in Names : assign(v, w)
  BY <1>6, AssignmentKeeps
<1>7. CASE \E v \in Names, i \in Ints : index_access(v, i)
  BY <1>7, IndexAccessKeeps
<1>8. CASE \E v \in Names : dispose(v)
  BY <1>8, DisposeKeeps
<1>9. CASE Over \/ UNCHANGED vars
  BY <1>9, StutterKeeps DEF Over
<1> QED
  BY <1>1, <1>2, <1>3, <1>4, <1>5, <1>6, <1>7, <1>8, <1>9 DEF Next

LEMMA AlwaysSlicesInvariant == Spec => []SlicesInvariant
BY InitEstablishes, StepKeeps, PTL DEF Spec

LEMMA InvariantGives ==
  SlicesInvariant => CapacityEndsAtBlock /\ SafeUnlessMisused /\ NothingUnwritten
BY DEF SlicesInvariant, StoreInvariant, Fits, Groundless, CapacityEndsAtBlock

\* In the code generated for slices, whatever is sliced out of what, the capacity
\* of every slice that has a block reaches exactly to the end of it, for every width
\* of the integers (codegen_index_slice_expr.c:79, 164).
THEOREM SlicesEndAtTheirBlocks == Spec => []CapacityEndsAtBlock
BY AlwaysSlicesInvariant, InvariantGives, PTL

\* The bounds check, with the zeroing in dispose, keeps a program within live
\* memory that makes no negative number of elements, slices in range and disposes of
\* blocks nobody else uses (codegen_index_access_expr.c:69,
\* codegen_builtin_expr.c:161-171).
THEOREM SlicesAreSafe == Spec => []SafeUnlessMisused
BY AlwaysSlicesInvariant, InvariantGives, PTL

\* No program reads memory that make has not set to zero
\* (codegen_builtin_expr.c:16-39).
THEOREM MakeWritesEverything == Spec => []NothingUnwritten
BY AlwaysSlicesInvariant, InvariantGives, PTL
=============================================================================
