-------------------------- MODULE CodegenStmtProofs --------------------------
(***************************************************************************)
(* For every body of a function: the blocks are in order while it is being *)
(* translated, jumps stay in their loops, and a function that is accepted  *)
(* returns on every way out.                                               *)
(***************************************************************************)
EXTENDS CodegenStmt, SequenceTheorems, LeastNumbers, TLAPS

Kinds == {"func", "block", "then", "else", "loop"}
Terms == {"none", "br", "ret", "retvoid", "unreachable"}
FrameType ==
  [kind : Kinds, is_terminated : BOOLEAN, filled : BOOLEAN,
   continue_block : Nat, break_block : Nat, exit_block : Nat, step_block : Nat,
   loop_block : Nat, false_block : Nat, true_terminated : BOOLEAN,
   liveBefore : BOOLEAN, liveTrue : BOOLEAN]
BlockType == [term : Terms, succs : SUBSET Nat, late : BOOLEAN]
Statuses == {"open", "declared", "ok", "missing return", "invalid", "abort"}

TypeOK ==
  /\ isVoid \in BOOLEAN /\ live \in BOOLEAN /\ excused \in BOOLEAN
  /\ status \in Statuses
  /\ blocks \in Seq(BlockType)
  /\ frames \in Seq(FrameType) /\ frames # <<>>
  /\ cur \in Nat

\* The blocks that the call of a frame has still to fill.
Slot(f) ==
  {f.exit_block, f.step_block} \cup (IF f.kind = "then" THEN {f.false_block} ELSE {})

\* Which blocks the frames of each kind have.
StackShape ==
  /\ frames[1].kind = "func"
  /\ \A k \in DOMAIN frames :
       LET f == frames[k] IN
       /\ f.kind = "func" => k = 1
       /\ f.kind \in {"func", "block"} => f.exit_block = None
       /\ f.kind \in {"then", "else", "loop"} => f.exit_block > 1
       /\ f.kind # "loop" => f.step_block = None
       /\ f.kind = "loop" => f.step_block # None /\ f.step_block # f.exit_block
       /\ f.kind = "then" => f.false_block # f.exit_block

\* continue and break of a call go to the blocks of the innermost loop, if any.
LoopLink ==
  \A k \in DOMAIN frames :
    \/ /\ \A i \in 1..k : frames[i].kind # "loop"
       /\ frames[k].continue_block = None /\ frames[k].break_block = None
    \/ \E j \in 1..k :
         /\ frames[j].kind = "loop" /\ \A i \in (j + 1)..k : frames[i].kind # "loop"
         /\ frames[k].continue_block = frames[j].step_block
         /\ frames[k].break_block = frames[j].exit_block

\* No block is to be filled by two calls.
Layout ==
  /\ cur \in DOMAIN blocks
  /\ \A k \in DOMAIN frames :
       /\ Slot(frames[k]) \subseteq 0..Len(blocks)
       /\ cur \notin Slot(frames[k])
       /\ \A j \in DOMAIN frames :
            j # k => Slot(frames[j]) \cap Slot(frames[k]) \subseteq {None}

\* Jumps go to blocks of the function.
Targets ==
  /\ \A b \in DOMAIN blocks : blocks[b].succs \subseteq DOMAIN blocks
  /\ \A k \in DOMAIN frames :
       frames[k].kind = "loop" =>
         /\ frames[k].loop_block \in DOMAIN blocks
         /\ blocks[frames[k].loop_block].term = "br"

Clean == \A b \in DOMAIN blocks : ~blocks[b].late

\* The blocks to be filled are the empty ones; the current one has its terminator
\* once the flow has ended.
Filled ==
  /\ \A b \in DOMAIN blocks :
       b # cur => (blocks[b].term = "none" <=> \E k \in DOMAIN frames : b \in Slot(frames[k]))
  /\ (blocks[cur].term = "none") <=> live

\* The flags of the frames say where the flow has ended.
Flags ==
  /\ live <=> \A k \in DOMAIN frames : ~frames[k].is_terminated
  /\ \A k \in DOMAIN frames :
       /\ \A j \in 1..(k - 1) : frames[j].is_terminated => frames[k].kind = "block"
       /\ frames[k].kind \in {"then", "else", "loop"} => frames[k].liveBefore
       /\ frames[k].kind = "else" => (frames[k].true_terminated <=> ~frames[k].liveTrue)

NoWayTo(b) == b # 1 /\ \A c \in DOMAIN blocks : b \notin blocks[c].succs

\* An if whose branches have both jumped so far: its exit may become unreachable.
Sealed(f) ==
  \/ f.kind = "then" /\ f.false_block # None
  \/ f.kind = "else" /\ f.true_terminated

\* Nothing leads to a block that is unreachable or may still become so.
Unreached ==
  /\ \A b \in DOMAIN blocks : blocks[b].term = "unreachable" => NoWayTo(b)
  /\ \A k \in DOMAIN frames : Sealed(frames[k]) => NoWayTo(frames[k].exit_block)

ReturnsFit ==
  \A b \in DOMAIN blocks :
    (blocks[b].term = "ret" => ~isVoid) /\ (blocks[b].term = "retvoid" => isVoid)

\* The inductive strengthening of the three invariants.
StmtInvariant ==
  /\ TypeOK
  /\ StackShape
  /\ LoopLink
  /\ status = "open" =>
       /\ Layout /\ Targets
       /\ ~excused => Clean /\ ReturnsFit
       /\ Clean => Filled /\ Flags /\ Unreached
  /\ status = "invalid" => excused
  /\ status = "ok" => Verifies(blocks) /\ Targets /\ Unreached /\ blocks # <<>>

-----------------------------------------------------------------------------
(***************************************************************************)
(* Blocks.                                                                 *)
(***************************************************************************)
LEMMA TerminateFacts ==
  ASSUME NEW bs \in Seq(BlockType), NEW b \in DOMAIN bs, NEW t \in Terms,
         NEW ss \in SUBSET Nat, NEW r, r = Terminate(bs, b, t, ss)
  PROVE  /\ r \in Seq(BlockType) /\ Len(r) = Len(bs) /\ DOMAIN r = DOMAIN bs
         /\ \A c \in DOMAIN bs : c # b => r[c] = bs[c]
         /\ \A c \in DOMAIN bs : bs[c].late => r[c].late
         /\ bs[b].term = "none" =>
              r[b].term = t /\ r[b].succs = ss /\ (r[b].late <=> bs[b].late)
         /\ bs[b].term # "none" =>
              r[b].term = bs[b].term /\ r[b].succs = bs[b].succs /\ r[b].late
<1>1. Len(bs) \in Nat /\ DOMAIN bs = 1..Len(bs) /\ bs[b] \in BlockType
  BY LenProperties, ElementOfSeq
<1>2. CASE bs[b].term = "none"
  <2> DEFINE e == [bs[b] EXCEPT !.term = t, !.succs = ss]
  <2>1. r = [bs EXCEPT ![b] = e]
    BY <1>1, <1>2 DEF Terminate, BlockType
  <2>2. e \in BlockType /\ e.term = t /\ e.succs = ss /\ e.late = bs[b].late
    BY <1>1 DEF BlockType
  <2> HIDE DEF e
  <2>3. /\ r \in Seq(BlockType) /\ Len(r) = Len(bs) /\ DOMAIN r = DOMAIN bs
        /\ \A c \in DOMAIN bs : r[c] = IF c = b THEN e ELSE bs[c]
    BY <1>1, <2>1, <2>2, ExceptSeq
  <2> QED
    BY <1>2, <2>2, <2>3
<1>3. CASE bs[b].term # "none"
  <2> DEFINE e == [bs[b] EXCEPT !.late = TRUE]
  <2>1. r = [bs EXCEPT ![b] = e]
    BY <1>3 DEF Terminate
  <2>2. e \in BlockType /\ e.term = bs[b].term /\ e.succs = bs[b].succs /\ e.late = TRUE
    BY <1>1 DEF BlockType
  <2> HIDE DEF e
  <2>3. /\ r \in Seq(BlockType) /\ Len(r) = Len(bs) /\ DOMAIN r = DOMAIN bs
        /\ \A c \in DOMAIN bs : r[c] = IF c = b THEN e ELSE bs[c]
    BY <1>1, <2>1, <2>2, ExceptSeq
  <2> QED
    BY <1>3, <2>2, <2>3
<1> QED
  BY <1>2, <1>3

LEMMA InstrFacts ==
  ASSUME NEW bs \in Seq(BlockType), NEW b \in DOMAIN bs, NEW r, r = Instr(bs, b)
  PROVE  /\ r \in Seq(BlockType) /\ Len(r) = Len(bs) /\ DOMAIN r = DOMAIN bs
         /\ \A c \in DOMAIN bs : r[c].term = bs[c].term /\ r[c].succs = bs[c].succs
         /\ \A c \in DOMAIN bs : bs[c].late => r[c].late
         /\ bs[b].term = "none" => r = bs
         /\ bs[b].term # "none" => r[b].late
<1>1. Len(bs) \in Nat /\ DOMAIN bs = 1..Len(bs) /\ bs[b] \in BlockType
  BY LenProperties, ElementOfSeq
<1>2. CASE bs[b].term = "none"
  BY <1>1, <1>2 DEF Instr
<1>3. CASE bs[b].term # "none"
  <2> DEFINE e == [bs[b] EXCEPT !.late = TRUE]
  <2>1. r = [bs EXCEPT ![b] = e]
    BY <1>3 DEF Instr
  <2>2. e \in BlockType /\ e.term = bs[b].term /\ e.succs = bs[b].succs /\ e.late = TRUE
    BY <1>1 DEF BlockType
  <2> HIDE DEF e
  <2>3. /\ r \in Seq(BlockType) /\ Len(r) = Len(bs) /\ DOMAIN r = DOMAIN bs
        /\ \A c \in DOMAIN bs : r[c] = IF c = b THEN e ELSE bs[c]
    BY <1>1, <2>1, <2>2, ExceptSeq
  <2> QED
    BY <1>3, <2>2, <2>3
<1> QED
  BY <1>2, <1>3

LEMMA AppendFacts ==
  ASSUME NEW bs \in Seq(BlockType), NEW n \in Nat, NEW r, r = AppendBlocks(bs, n)
  PROVE  /\ r \in Seq(BlockType) /\ Len(r) = Len(bs) + n /\ DOMAIN r = 1..(Len(bs) + n)
         /\ Len(bs) \in Nat /\ DOMAIN bs = 1..Len(bs)
         /\ \A c \in 1..Len(bs) : r[c] = bs[c]
         /\ \A c \in (Len(bs) + 1)..(Len(bs) + n) : r[c] = Fresh
<1> DEFINE f == [k \in 1..n |-> Fresh]
<1>1. Fresh \in BlockType
  BY DEF Fresh, BlockType, Terms
<1>2. f \in Seq(BlockType)
  BY <1>1, SeqDef
<1>3. Len(f) = n
  BY <1>2, LenProperties
<1>4. Len(bs) \in Nat /\ DOMAIN bs = 1..Len(bs) /\ r = bs \o f
  BY LenProperties DEF AppendBlocks
<1>5. /\ r \in Seq(BlockType) /\ Len(r) = Len(bs) + n
      /\ \A c \in 1..(Len(bs) + n) : r[c] = IF c <= Len(bs) THEN bs[c] ELSE f[c - Len(bs)]
  BY <1>2, <1>3, <1>4, ConcatProperties
<1>6. \A c \in (Len(bs) + 1)..(Len(bs) + n) : r[c] = Fresh
  <2>1. ASSUME NEW c \in (Len(bs) + 1)..(Len(bs) + n) PROVE r[c] = Fresh
    <3>1. c \in 1..(Len(bs) + n) /\ ~(c <= Len(bs)) /\ c - Len(bs) \in 1..n
      BY <1>4
    <3> QED
      BY <1>5, <3>1
  <2> QED
    BY <2>1
<1>7. \A c \in 1..Len(bs) : r[c] = bs[c]
  BY <1>4, <1>5
<1>8. DOMAIN r = 1..(Len(bs) + n)
  BY <1>5, LenProperties
<1> QED
  BY <1>4, <1>5, <1>6, <1>7, <1>8

(***************************************************************************)
(* Frames.                                                                 *)
(***************************************************************************)
LEMMA NotEmpty == ASSUME NEW s, NEW n \in Nat, Len(s) = n, n > 0 PROVE s # <<>>
OBVIOUS

LEMMA FrameFacts ==
  ASSUME TypeOK
  PROVE  /\ Len(frames) \in Nat /\ Len(frames) >= 1 /\ DOMAIN frames = 1..Len(frames)
         /\ \A k \in DOMAIN frames : frames[k] \in FrameType
         /\ Top \in FrameType
<1>1. Len(frames) \in Nat /\ Len(frames) # 0 /\ DOMAIN frames = 1..Len(frames)
  BY EmptySeq, LenProperties DEF TypeOK
<1>2. \A k \in DOMAIN frames : frames[k] \in FrameType
  BY <1>1, ElementOfSeq DEF TypeOK
<1> QED
  BY <1>1, <1>2 DEF Top

LEMMA SetTopFacts ==
  ASSUME TypeOK, NEW f \in FrameType, NEW r, r = SetTop(frames, f)
  PROVE  /\ r \in Seq(FrameType) /\ Len(r) = Len(frames) /\ DOMAIN r = DOMAIN frames
         /\ r # <<>>
         /\ \A k \in DOMAIN frames : r[k] = IF k = Len(frames) THEN f ELSE frames[k]
<1>1. Len(frames) \in Nat /\ Len(frames) >= 1 /\ DOMAIN frames = 1..Len(frames)
      /\ frames \in Seq(FrameType)
  BY FrameFacts DEF TypeOK
<1>2. r = [frames EXCEPT ![Len(frames)] = f]
  BY DEF SetTop
<1>3. /\ r \in Seq(FrameType) /\ Len(r) = Len(frames)
      /\ \A k \in 1..Len(frames) : r[k] = IF k = Len(frames) THEN f ELSE frames[k]
  BY <1>1, <1>2, ExceptSeq
<1>4. DOMAIN r = DOMAIN frames
  BY <1>1, <1>3, LenProperties
<1>5. r # <<>>
  <2>1. Len(frames) \in Nat /\ Len(frames) > 0
    BY <1>1
  <2>2. Len(r) = Len(frames)
    BY <1>3, Zenon
  <2> QED
    BY <2>1, <2>2, NotEmpty
<1> QED
  BY <1>1, <1>3, <1>4, <1>5

LEMMA PopFacts ==
  ASSUME TypeOK, Len(frames) > 1
  PROVE  /\ Popped \in Seq(FrameType) /\ Len(Popped) = Len(frames) - 1
         /\ DOMAIN Popped = 1..(Len(frames) - 1) /\ Popped # <<>>
         /\ \A k \in 1..(Len(frames) - 1) : Popped[k] = frames[k]
         /\ Below \in FrameType
         /\ \A f \in FrameType :
              LET r == SetTop(Popped, f) IN
              /\ r \in Seq(FrameType) /\ Len(r) = Len(frames) - 1
              /\ DOMAIN r = 1..(Len(frames) - 1) /\ r # <<>>
              /\ \A k \in 1..(Len(frames) - 1) :
                   r[k] = IF k = Len(frames) - 1 THEN f ELSE frames[k]
<1> DEFINE n == Len(frames)
           p == Popped
<1>1. n \in Nat /\ DOMAIN frames = 1..n /\ frames \in Seq(FrameType)
      /\ \A k \in 1..n : frames[k] \in FrameType
  BY FrameFacts DEF TypeOK
<1>2. \A k \in 1..(n - 1) : frames[k] \in FrameType
  BY <1>1
<1>3. /\ p \in Seq(FrameType) /\ Len(p) = n - 1
      /\ \A k \in 1..(n - 1) : p[k] = frames[k]
  <2>1. /\ SubSeq(frames, 1, n - 1) \in Seq(FrameType)
        /\ Len(SubSeq(frames, 1, n - 1)) = (n - 1) - 1 + 1
        /\ \A k \in 1..((n - 1) - 1 + 1) : SubSeq(frames, 1, n - 1)[k] = frames[1 + k - 1]
    BY <1>1, <1>2, SubSeqProperties
  <2>2. (n - 1) - 1 + 1 = n - 1 /\ \A k \in 1..(n - 1) : 1 + k - 1 = k
    BY <1>1
  <2> QED
    BY <2>1, <2>2 DEF Popped
<1>4. DOMAIN p = 1..(n - 1) /\ p # <<>>
  BY <1>1, <1>3, LenProperties, EmptySeq
<1>5. Below \in FrameType
  BY <1>1 DEF Below
<1> HIDE DEF p
<1>6. ASSUME NEW f \in FrameType, NEW r, r = SetTop(p, f)
      PROVE  /\ r \in Seq(FrameType) /\ Len(r) = n - 1
             /\ DOMAIN r = 1..(n - 1) /\ r # <<>>
             /\ \A k \in 1..(n - 1) : r[k] = IF k = n - 1 THEN f ELSE frames[k]
  <2>1. r = [p EXCEPT ![n - 1] = f]
    BY <1>3, <1>6 DEF SetTop
  <2>2. n - 1 \in 1..Len(p)
    BY <1>1, <1>3
  <2>3. /\ r \in Seq(FrameType) /\ Len(r) = Len(p)
        /\ \A k \in 1..Len(p) : r[k] = IF k = n - 1 THEN f ELSE p[k]
    BY <1>3, <2>1, <2>2, ExceptSeq
  <2>4. DOMAIN r = 1..(n - 1)
    BY <1>1, <1>3, <2>3, LenProperties
  <2>5. n - 1 \in Nat /\ n - 1 > 0
    BY <1>1
  <2>6. Len(r) = n - 1
    BY <1>3, <2>3, Zenon
  <2>7. r # <<>>
    BY <2>5, <2>6, NotEmpty
  <2> QED
    BY <1>3, <2>3, <2>4, <2>7
<1> QED
  BY <1>3, <1>4, <1>5, <1>6 DEF p

\* Two frames that agree on what the invariants are about, apart from the flags
\* is_terminated and filled.
Alike(f, g) ==
  /\ f.kind = g.kind
  /\ f.continue_block = g.continue_block /\ f.break_block = g.break_block
  /\ f.exit_block = g.exit_block /\ f.step_block = g.step_block
  /\ f.loop_block = g.loop_block /\ f.false_block = g.false_block
  /\ f.true_terminated = g.true_terminated
  /\ f.liveBefore = g.liveBefore /\ f.liveTrue = g.liveTrue

LEMMA AlikeSlot == ASSUME NEW f, NEW g, Alike(f, g) PROVE Slot(f) = Slot(g)
BY DEF Alike, Slot

LEMMA LinkKept ==
  ASSUME NEW n \in Nat, DOMAIN frames' = 1..n, 1..n \subseteq DOMAIN frames, LoopLink,
         \A k \in 1..n : /\ frames'[k].kind = "loop" <=> frames[k].kind = "loop"
                         /\ frames'[k].continue_block = frames[k].continue_block
                         /\ frames'[k].break_block = frames[k].break_block
                         /\ frames'[k].step_block = frames[k].step_block
                         /\ frames'[k].exit_block = frames[k].exit_block
  PROVE  LoopLink'
<1> SUFFICES ASSUME NEW k \in 1..n
             PROVE  \/ /\ \A i \in 1..k : frames'[i].kind # "loop"
                       /\ frames'[k].continue_block = None /\ frames'[k].break_block = None
                    \/ \E j \in 1..k :
                         /\ frames'[j].kind = "loop"
                         /\ \A i \in (j + 1)..k : frames'[i].kind # "loop"
                         /\ frames'[k].continue_block = frames'[j].step_block
                         /\ frames'[k].break_block = frames'[j].exit_block
  BY DEF LoopLink
<1>1. k \in DOMAIN frames /\ \A i \in 1..k : i \in 1..n
  OBVIOUS
<1>2. CASE /\ \A i \in 1..k : frames[i].kind # "loop"
           /\ frames[k].continue_block = None /\ frames[k].break_block = None
  BY <1>1, <1>2
<1>3. ASSUME NEW j \in 1..k,
             frames[j].kind = "loop", \A i \in (j + 1)..k : frames[i].kind # "loop",
             frames[k].continue_block = frames[j].step_block,
             frames[k].break_block = frames[j].exit_block
      PROVE  \E l \in 1..k :
               /\ frames'[l].kind = "loop"
               /\ \A i \in (l + 1)..k : frames'[i].kind # "loop"
               /\ frames'[k].continue_block = frames'[l].step_block
               /\ frames'[k].break_block = frames'[l].exit_block
  <2>1. \A i \in (j + 1)..k : i \in 1..n
    OBVIOUS
  <2> QED
    BY <1>1, <1>3, <2>1
<1> QED
  BY <1>1, <1>2, <1>3 DEF LoopLink

LEMMA LinkPushed ==
  ASSUME NEW n \in Nat, n >= 1, DOMAIN frames = 1..n, DOMAIN frames' = 1..(n + 1), LoopLink,
         \A k \in 1..n : Alike(frames'[k], frames[k]),
         LET g == frames'[n + 1] IN
           \/ /\ g.kind # "loop" /\ g.continue_block = frames[n].continue_block
              /\ g.break_block = frames[n].break_block
           \/ g.kind = "loop" /\ g.continue_block = g.step_block /\ g.break_block = g.exit_block
  PROVE  LoopLink'
<1> DEFINE Q(k) == \/ /\ \A i \in 1..k : frames'[i].kind # "loop"
                      /\ frames'[k].continue_block = None /\ frames'[k].break_block = None
                   \/ \E j \in 1..k :
                        /\ frames'[j].kind = "loop"
                        /\ \A i \in (j + 1)..k : frames'[i].kind # "loop"
                        /\ frames'[k].continue_block = frames'[j].step_block
                        /\ frames'[k].break_block = frames'[j].exit_block
<1>1. ASSUME NEW k \in 1..n PROVE Q(k)
  <2>1. \A i \in 1..k : Alike(frames'[i], frames[i])
    OBVIOUS
  <2>2. CASE /\ \A i \in 1..k : frames[i].kind # "loop"
             /\ frames[k].continue_block = None /\ frames[k].break_block = None
    BY <2>1, <2>2 DEF Alike
  <2>3. ASSUME NEW j \in 1..k,
               frames[j].kind = "loop", \A i \in (j + 1)..k : frames[i].kind # "loop",
               frames[k].continue_block = frames[j].step_block,
               frames[k].break_block = frames[j].exit_block
        PROVE  Q(k)
    <3>1. \A i \in (j + 1)..k : Alike(frames'[i], frames[i])
      BY <2>1
    <3> QED
      BY <2>1, <2>3, <3>1 DEF Alike
  <2> QED
    BY <2>2, <2>3 DEF LoopLink
<1>2. Q(n + 1)
  <2>1. CASE frames'[n + 1].kind = "loop"
    <3>1. n + 1 \in 1..(n + 1) /\ ((n + 1) + 1)..(n + 1) = {}
      OBVIOUS
    <3> QED
      BY <2>1, <3>1
  <2>2. CASE frames'[n + 1].kind # "loop"
    <3>1. /\ frames'[n + 1].continue_block = frames'[n].continue_block
          /\ frames'[n + 1].break_block = frames'[n].break_block
      BY <2>2 DEF Alike
    <3>2. Q(n)
      BY <1>1
    <3>3. CASE /\ \A i \in 1..n : frames'[i].kind # "loop"
               /\ frames'[n].continue_block = None /\ frames'[n].break_block = None
      <4>1. \A i \in 1..(n + 1) : i \in 1..n \/ i = n + 1
        OBVIOUS
      <4> QED
        BY <2>2, <3>1, <3>3, <4>1
    <3>4. ASSUME NEW j \in 1..n, frames'[j].kind = "loop",
                 \A i \in (j + 1)..n : frames'[i].kind # "loop",
                 frames'[n].continue_block = frames'[j].step_block,
                 frames'[n].break_block = frames'[j].exit_block
          PROVE  Q(n + 1)
      <4>1. \A i \in (j + 1)..(n + 1) : i \in (j + 1)..n \/ i = n + 1
        OBVIOUS
      <4>2. j \in 1..(n + 1)
        OBVIOUS
      <4> QED
        BY <2>2, <3>1, <3>4, <4>1, <4>2
    <3> QED
      BY <3>2, <3>3, <3>4
  <2> QED
    BY <2>1, <2>2
<1>3. \A k \in 1..(n + 1) : k \in 1..n \/ k = n + 1
  OBVIOUS
<1>4. \A k \in 1..(n + 1) : Q(k)
  BY <1>1, <1>2, <1>3
<1> QED
  BY <1>4 DEF LoopLink

LEMMA LinkGives ==
  ASSUME TypeOK, LoopLink
  PROVE  JumpsStayInLoop
<1> SUFFICES ASSUME NEW k \in DOMAIN frames
             PROVE  LET loops == { j \in 1..k : frames[j].kind = "loop" }
                        inner == frames[CHOOSE j \in loops : \A i \in loops : i <= j]
                    IN  /\ loops = {} => frames[k].continue_block = None
                                         /\ frames[k].break_block = None
                        /\ loops # {} => /\ frames[k].continue_block = inner.step_block
                                         /\ frames[k].break_block = inner.exit_block
  BY DEF JumpsStayInLoop
<1> DEFINE loops == { j \in 1..k : frames[j].kind = "loop" }
           at == CHOOSE j \in loops : \A i \in loops : i <= j
<1>1. k \in Nat
  BY FrameFacts
<1>2. CASE /\ \A i \in 1..k : frames[i].kind # "loop"
           /\ frames[k].continue_block = None /\ frames[k].break_block = None
  BY <1>2
<1>3. ASSUME NEW j \in 1..k,
             frames[j].kind = "loop", \A i \in (j + 1)..k : frames[i].kind # "loop",
             frames[k].continue_block = frames[j].step_block,
             frames[k].break_block = frames[j].exit_block
      PROVE  /\ loops # {} /\ frames[k].continue_block = frames[at].step_block
             /\ frames[k].break_block = frames[at].exit_block
  <2>1. j \in loops /\ \A i \in loops : i <= j
    BY <1>1, <1>3
  <2>2. at \in loops /\ \A i \in loops : i <= at
    BY <2>1, Zenon
  <2>3. at = j
    BY <1>1, <2>1, <2>2
  <2> QED
    BY <1>3, <2>1, <2>3
<1> QED
  BY <1>2, <1>3 DEF LoopLink
-----------------------------------------------------------------------------
(***************************************************************************)
(* What a step does to each part of the invariant, whatever the statement. *)
(***************************************************************************)
\* f is g, or what g becomes when an if goes on to its other branch.
Akin(f, g) ==
  /\ f.kind = g.kind \/ (f.kind = "else" /\ g.kind = "then")
  /\ f.continue_block = g.continue_block /\ f.break_block = g.break_block
  /\ f.exit_block = g.exit_block /\ f.step_block = g.step_block
  /\ f.loop_block = g.loop_block /\ f.false_block = g.false_block

LEMMA AlikeAkin == ASSUME NEW f, NEW g, Alike(f, g) PROVE Akin(f, g)
BY DEF Alike, Akin

LEMMA AkinSlot == ASSUME NEW f, NEW g, Akin(f, g) PROVE Slot(f) \subseteq Slot(g)
BY DEF Akin, Slot

\* No call is begun: the frames that stay are akin to what they were.
Kept(n) ==
  /\ DOMAIN frames' = 1..n /\ 1..n \subseteq DOMAIN frames
  /\ \A k \in 1..n : Akin(frames'[k], frames[k])

\* A call is begun: one frame more.
Pushed(n) ==
  /\ DOMAIN frames = 1..n /\ DOMAIN frames' = 1..(n + 1)
  /\ \A k \in 1..n : Alike(frames'[k], frames[k])

\* What has been built stays as it is.
Grown ==
  /\ DOMAIN blocks \subseteq DOMAIN blocks'
  /\ \A b \in DOMAIN blocks :
       /\ blocks[b].late => blocks'[b].late
       /\ blocks[b].term # "none" =>
            blocks'[b].term = blocks[b].term /\ blocks'[b].succs = blocks[b].succs

LEMMA PendingSlots ==
  ASSUME NEW b
  PROVE  b \in Pending <=> b = cur \/ \E k \in DOMAIN frames : b \in Slot(frames[k])
BY DEF Pending, Slot

LEMMA KeptLink ==
  ASSUME NEW n \in Nat, Kept(n), LoopLink
  PROVE  LoopLink'
<1>1. \A k \in 1..n : /\ frames'[k].kind = "loop" <=> frames[k].kind = "loop"
                      /\ frames'[k].continue_block = frames[k].continue_block
                      /\ frames'[k].break_block = frames[k].break_block
                      /\ frames'[k].step_block = frames[k].step_block
                      /\ frames'[k].exit_block = frames[k].exit_block
  BY DEF Kept, Akin
<1> QED
  BY <1>1, LinkKept DEF Kept

LEMMA KeptShape ==
  ASSUME NEW n \in Nat, n >= 1, Kept(n), StackShape
  PROVE  StackShape'
<1>1. 1 \in 1..n /\ \A k \in 1..n : k \in DOMAIN frames
  BY DEF Kept
<1>2. frames'[1].kind = "func"
  BY <1>1 DEF Kept, Akin, StackShape
<1>3. ASSUME NEW k \in 1..n
      PROVE  LET f == frames'[k] IN
             /\ f.kind = "func" => k = 1
             /\ f.kind \in {"func", "block"} => f.exit_block = None
             /\ f.kind \in {"then", "else", "loop"} => f.exit_block > 1
             /\ f.kind # "loop" => f.step_block = None
             /\ f.kind = "loop" => f.step_block # None /\ f.step_block # f.exit_block
             /\ f.kind = "then" => f.false_block # f.exit_block
  <2>1. Akin(frames'[k], frames[k]) /\ k \in DOMAIN frames
    BY <1>1 DEF Kept
  <2> QED
    BY <2>1 DEF StackShape, Akin
<1> QED
  BY <1>2, <1>3 DEF StackShape, Kept

LEMMA PushedShape ==
  ASSUME NEW n \in Nat, n >= 1, Pushed(n), StackShape,
         LET f == frames'[n + 1] IN
         /\ f.kind # "func"
         /\ f.kind = "block" => f.exit_block = None
         /\ f.kind # "block" => f.exit_block > 1
         /\ f.kind # "loop" => f.step_block = None
         /\ f.kind = "loop" => f.step_block # None /\ f.step_block # f.exit_block
         /\ f.kind = "then" => f.false_block # f.exit_block
  PROVE  StackShape'
<1>1. 1 \in 1..n /\ \A k \in 1..(n + 1) : k \in 1..n \/ k = n + 1
  OBVIOUS
<1>2. frames'[1].kind = "func"
  BY <1>1 DEF Pushed, Alike, StackShape
<1>3. ASSUME NEW k \in 1..(n + 1)
      PROVE  LET f == frames'[k] IN
             /\ f.kind = "func" => k = 1
             /\ f.kind \in {"func", "block"} => f.exit_block = None
             /\ f.kind \in {"then", "else", "loop"} => f.exit_block > 1
             /\ f.kind # "loop" => f.step_block = None
             /\ f.kind = "loop" => f.step_block # None /\ f.step_block # f.exit_block
             /\ f.kind = "then" => f.false_block # f.exit_block
  <2>1. CASE k = n + 1
    BY <2>1
  <2>2. CASE k \in 1..n
    <3>1. Alike(frames'[k], frames[k]) /\ k \in DOMAIN frames
      BY <2>2 DEF Pushed
    <3> QED
      BY <3>1 DEF StackShape, Alike
  <2> QED
    BY <1>1, <2>1, <2>2
<1> QED
  BY <1>2, <1>3 DEF StackShape, Pushed

LEMMA KeptLayout ==
  ASSUME NEW n \in Nat, Kept(n), Layout, Len(blocks') = Len(blocks),
         DOMAIN blocks' = DOMAIN blocks, cur' \in DOMAIN blocks,
         \A k \in 1..n : cur' \notin Slot(frames'[k])
  PROVE  Layout'
<1> DEFINE S(k) == Slot(frames[k])
           T(k) == Slot(frames'[k])
<1>1. \A k \in 1..n : T(k) \subseteq S(k) /\ k \in DOMAIN frames
  BY AkinSlot DEF Kept
<1>2. \A k \in DOMAIN frames :
        S(k) \subseteq 0..Len(blocks)
          /\ \A j \in DOMAIN frames : j # k => S(j) \cap S(k) \subseteq {None}
  BY DEF Layout
<1>3. \A k \in 1..n : cur' \notin T(k)
  OBVIOUS
<1> HIDE DEF S, T
<1>4. \A k \in 1..n :
        T(k) \subseteq 0..Len(blocks) /\ cur' \notin T(k)
          /\ \A j \in 1..n : j # k => T(j) \cap T(k) \subseteq {None}
  BY <1>1, <1>2, <1>3
<1> QED
  BY <1>4 DEF Layout, Kept, T

LEMMA PushedLayout ==
  ASSUME NEW n \in Nat, n >= 1, Pushed(n), Layout,
         NEW m \in Nat, m = Len(blocks), NEW l \in Nat, l = Len(blocks'), m <= l,
         DOMAIN blocks = 1..m, DOMAIN blocks' = 1..l,
         cur' = cur \/ cur' \in (m + 1)..l,
         Slot(frames'[n + 1]) \subseteq {None} \cup ((m + 1)..l),
         cur' \notin Slot(frames'[n + 1])
  PROVE  Layout'
<1> DEFINE S(k) == Slot(frames[k])
           T(k) == Slot(frames'[k])
<1>1. \A k \in 1..n : T(k) = S(k)
  BY AlikeSlot DEF Pushed
<1>2. \A k \in 1..n :
        S(k) \subseteq 0..m /\ cur \notin S(k)
          /\ \A j \in 1..n : j # k => S(j) \cap S(k) \subseteq {None}
  BY DEF Layout, Pushed
<1>3. T(n + 1) \subseteq {None} \cup ((m + 1)..l) /\ cur' \notin T(n + 1)
  OBVIOUS
<1>4. cur' \in 1..l
  <2>1. cur \in 1..m
    BY DEF Layout
  <2> QED
    BY <2>1
<1>5. \A k \in 1..(n + 1) : k \in 1..n \/ k = n + 1
  OBVIOUS
<1> HIDE DEF S, T
<1>6. \A k \in 1..n : T(k) \subseteq 0..l /\ cur' \notin T(k)
                      /\ T(n + 1) \cap T(k) \subseteq {None}
                      /\ T(k) \cap T(n + 1) \subseteq {None}
  <2> SUFFICES ASSUME NEW k \in 1..n
               PROVE  /\ T(k) \subseteq 0..l /\ cur' \notin T(k)
                      /\ T(n + 1) \cap T(k) \subseteq {None}
    OBVIOUS
  <2>1. T(k) \subseteq 0..m /\ cur \notin T(k)
    BY <1>1, <1>2
  <2>2. \A x \in 0..m : x \in 0..l /\ x \notin (m + 1)..l
    OBVIOUS
  <2> QED
    BY <1>3, <2>1, <2>2
<1>7. T(n + 1) \subseteq 0..l
  BY <1>3 DEF None
<1>8. \A k \in 1..n : \A j \in 1..n : j # k => T(j) \cap T(k) \subseteq {None}
  BY <1>1, <1>2
<1>9. \A k \in 1..(n + 1) :
        T(k) \subseteq 0..l /\ cur' \notin T(k)
          /\ \A j \in 1..(n + 1) : j # k => T(j) \cap T(k) \subseteq {None}
  BY <1>3, <1>5, <1>6, <1>7, <1>8
<1>10. /\ cur' \in DOMAIN blocks'
       /\ \A k \in DOMAIN frames' :
            /\ Slot(frames'[k]) \subseteq 0..Len(blocks')
            /\ cur' \notin Slot(frames'[k])
            /\ \A j \in DOMAIN frames' :
                 j # k => Slot(frames'[j]) \cap Slot(frames'[k]) \subseteq {None}
  BY <1>4, <1>9 DEF Pushed, T
<1> QED
  BY <1>10 DEF Layout, None, Slot

LEMMA GrownTargets ==
  ASSUME Targets, Grown,
         \A b \in DOMAIN blocks' : blocks'[b].succs \subseteq DOMAIN blocks',
         \A k \in DOMAIN frames' : frames'[k].kind = "loop" =>
           \/ /\ k \in DOMAIN frames /\ frames[k].kind = "loop"
              /\ frames'[k].loop_block = frames[k].loop_block
           \/ /\ frames'[k].loop_block \in DOMAIN blocks'
              /\ blocks'[frames'[k].loop_block].term = "br"
  PROVE  Targets'
BY DEF Targets, Grown

LEMMA GrownClean == ASSUME Grown, Clean' PROVE Clean
BY DEF Grown, Clean

\* Edges are added to blocks in More only, none of which is sealed.
LEMMA StillUnreached ==
  ASSUME NEW More,
         \A c \in DOMAIN blocks' : \A t \in blocks'[c].succs :
           (c \in DOMAIN blocks /\ t \in blocks[c].succs) \/ t \in More,
         \A b \in DOMAIN blocks' :
           blocks'[b].term = "unreachable" => NoWayTo(b) /\ b \notin More,
         \A k \in DOMAIN frames' :
           Sealed(frames'[k]) => NoWayTo(frames'[k].exit_block)
                                 /\ frames'[k].exit_block \notin More
  PROVE  Unreached'
<1>1. ASSUME NEW b, NoWayTo(b), b \notin More
      PROVE  b # 1 /\ \A c \in DOMAIN blocks' : b \notin blocks'[c].succs
  BY <1>1 DEF NoWayTo
<1> QED
  BY <1>1 DEF Unreached, NoWayTo, Sealed, None

LEMMA NoMoreEdges ==
  ASSUME DOMAIN blocks' = DOMAIN blocks, Unreached,
         \A b \in DOMAIN blocks : /\ blocks'[b].succs = blocks[b].succs
                                  /\ blocks'[b].term = "unreachable" =>
                                       blocks[b].term = "unreachable",
         \A k \in DOMAIN frames' : Sealed(frames'[k]) => NoWayTo(frames'[k].exit_block)
  PROVE  Unreached'
<1>1. ASSUME NEW b, NoWayTo(b)
      PROVE  b # 1 /\ \A c \in DOMAIN blocks' : b \notin blocks'[c].succs
  BY <1>1 DEF NoWayTo
<1> QED
  BY <1>1 DEF Unreached, NoWayTo, Sealed, None

LEMMA AlikeSealed ==
  ASSUME NEW f, NEW g, Alike(f, g), Sealed(f)
  PROVE  Sealed(g) /\ f.exit_block = g.exit_block
BY DEF Alike, Sealed

\* The flags when the call on top is not a block's: the ones below are not set.
LEMMA TopFlags ==
  ASSUME TypeOK, Flags, Top.kind # "block"
  PROVE  /\ live <=> ~Top.is_terminated
         /\ \A k \in 1..(Len(frames) - 1) : ~frames[k].is_terminated
<1>1. Len(frames) \in Nat /\ Len(frames) >= 1 /\ DOMAIN frames = 1..Len(frames)
  BY FrameFacts
<1>2. \A k \in 1..(Len(frames) - 1) : ~frames[k].is_terminated
  BY <1>1 DEF Flags, Top
<1>3. \A k \in DOMAIN frames : k \in 1..(Len(frames) - 1) \/ k = Len(frames)
  BY <1>1
<1>4. Len(frames) \in DOMAIN frames
  BY <1>1
<1> QED
  BY <1>2, <1>3, <1>4 DEF Flags, Top

LEMMA AboveOne == ASSUME NEW n \in Nat, n >= 1, n # 1 PROVE n > 1 /\ n - 1 \in Nat
OBVIOUS

LEMMA HasBelow ==
  ASSUME TypeOK, StackShape, Top.kind # "func"
  PROVE  Len(frames) > 1 /\ Len(frames) - 1 \in Nat
<1>1. Len(frames) \in Nat /\ Len(frames) >= 1
  BY FrameFacts
<1>2. Len(frames) # 1
  BY DEF StackShape, Top
<1> QED
  BY <1>1, <1>2, AboveOne

\* Where the slots of the frames go.
LEMMA AlikeSlots ==
  ASSUME DOMAIN frames' = DOMAIN frames, \A k \in DOMAIN frames : Alike(frames'[k], frames[k]),
         NEW b
  PROVE  (\E k \in DOMAIN frames : b \in Slot(frames[k]))
           <=> (\E k \in DOMAIN frames' : b \in Slot(frames'[k]))
<1>1. \A k \in DOMAIN frames : Slot(frames'[k]) = Slot(frames[k])
  BY AlikeSlot
<1> QED
  BY <1>1

LEMMA PoppedSlots ==
  ASSUME TypeOK, DOMAIN frames' = 1..(Len(frames) - 1),
         \A k \in 1..(Len(frames) - 1) : Alike(frames'[k], frames[k]), NEW b
  PROVE  (\E k \in DOMAIN frames : b \in Slot(frames[k]))
           <=> b \in Slot(Top) \/ (\E k \in DOMAIN frames' : b \in Slot(frames'[k]))
<1>1. Len(frames) \in Nat /\ Len(frames) >= 1 /\ DOMAIN frames = 1..Len(frames)
  BY FrameFacts
<1>2. \A k \in 1..(Len(frames) - 1) : Slot(frames'[k]) = Slot(frames[k])
  BY AlikeSlot
<1>3. \A k \in DOMAIN frames : k \in 1..(Len(frames) - 1) \/ k = Len(frames)
  BY <1>1
<1>4. Len(frames) \in DOMAIN frames /\ \A k \in 1..(Len(frames) - 1) : k \in DOMAIN frames
  BY <1>1
<1> QED
  BY <1>2, <1>3, <1>4 DEF Top

LEMMA PushedSlots ==
  ASSUME NEW n \in Nat, Pushed(n), NEW b
  PROVE  (\E k \in DOMAIN frames' : b \in Slot(frames'[k]))
           <=> b \in Slot(frames'[n + 1]) \/ (\E k \in DOMAIN frames : b \in Slot(frames[k]))
<1>1. \A k \in 1..n : Slot(frames'[k]) = Slot(frames[k])
  BY AlikeSlot DEF Pushed
<1>2. \A k \in 1..(n + 1) : k \in 1..n \/ k = n + 1
  OBVIOUS
<1>3. n + 1 \in 1..(n + 1) /\ \A k \in 1..n : k \in 1..(n + 1)
  OBVIOUS
<1> QED
  BY <1>1, <1>2, <1>3 DEF Pushed

\* The blocks that are to be filled are empty, and no two calls have the same.
LEMMA SlotsEmpty ==
  ASSUME Layout, Filled, NEW k \in DOMAIN frames, NEW b \in Slot(frames[k]), b # None,
         NEW m \in Nat, m = Len(blocks), DOMAIN blocks = 1..m
  PROVE  b \in DOMAIN blocks /\ b # cur /\ blocks[b].term = "none"
<1>1. b \in 0..m /\ b # cur
  BY DEF Layout
<1>2. b \in DOMAIN blocks
  BY <1>1 DEF None
<1> QED
  BY <1>1, <1>2 DEF Filled

LEMMA BlockFacts ==
  ASSUME TypeOK
  PROVE  /\ Len(blocks) \in Nat /\ DOMAIN blocks = 1..Len(blocks)
         /\ blocks \in Seq(BlockType) /\ \A b \in DOMAIN blocks : blocks[b] \in BlockType
BY LenProperties, ElementOfSeq DEF TypeOK

\* A terminator for a block.
LEMMA TerminateStep ==
  ASSUME TypeOK, NEW d \in DOMAIN blocks, NEW t \in Terms, t # "none", NEW ss \in SUBSET Nat,
         blocks' = Terminate(blocks, d, t, ss)
  PROVE  /\ blocks' \in Seq(BlockType) /\ Len(blocks') = Len(blocks)
         /\ DOMAIN blocks' = DOMAIN blocks
         /\ \A c \in DOMAIN blocks : c # d => blocks'[c] = blocks[c]
         /\ Grown
         /\ blocks'[d].term # "none"
         /\ blocks[d].term = "none" => /\ blocks'[d].term = t /\ blocks'[d].succs = ss
                                       /\ blocks'[d].late <=> blocks[d].late
         /\ blocks[d].term # "none" =>
              /\ blocks'[d].term = blocks[d].term /\ blocks'[d].succs = blocks[d].succs
              /\ blocks'[d].late
         /\ \A c \in DOMAIN blocks : blocks'[c].succs = blocks[c].succs \/ blocks'[c].succs = ss
         /\ \A c \in DOMAIN blocks : blocks'[c].term = blocks[c].term \/ blocks'[c].term = t
<1>1. blocks \in Seq(BlockType)
  BY DEF TypeOK
<1>2. /\ blocks' \in Seq(BlockType) /\ Len(blocks') = Len(blocks)
      /\ DOMAIN blocks' = DOMAIN blocks
      /\ \A c \in DOMAIN blocks : c # d => blocks'[c] = blocks[c]
  <2>1. blocks' \in Seq(BlockType)
    BY <1>1, TerminateFacts
  <2>2. Len(blocks') = Len(blocks) /\ DOMAIN blocks' = DOMAIN blocks
    BY <1>1, TerminateFacts
  <2>3. \A c \in DOMAIN blocks : c # d => blocks'[c] = blocks[c]
    BY <1>1, TerminateFacts
  <2> QED
    BY <2>1, <2>2, <2>3
<1>3. \A c \in DOMAIN blocks : blocks[c].late => blocks'[c].late
  BY <1>1, TerminateFacts
<1>4. blocks[d].term = "none" => /\ blocks'[d].term = t /\ blocks'[d].succs = ss
                                 /\ blocks'[d].late <=> blocks[d].late
  BY <1>1, TerminateFacts
<1>5. blocks[d].term # "none" =>
        /\ blocks'[d].term = blocks[d].term /\ blocks'[d].succs = blocks[d].succs
        /\ blocks'[d].late
  BY <1>1, TerminateFacts
<1>6. Grown
  BY <1>2, <1>3, <1>5 DEF Grown
<1>7. \A c \in DOMAIN blocks : blocks'[c].succs = blocks[c].succs \/ blocks'[c].succs = ss
  BY <1>2, <1>4, <1>5
<1>8. \A c \in DOMAIN blocks : blocks'[c].term = blocks[c].term \/ blocks'[c].term = t
  BY <1>2, <1>4, <1>5
<1>9. blocks'[d].term # "none"
  BY <1>4, <1>5
<1> QED
  BY <1>2, <1>4, <1>5, <1>6, <1>7, <1>8, <1>9

LEMMA BegunFacts ==
  ASSUME TypeOK
  PROVE  /\ Begun \in Seq(FrameType) /\ Begun # <<>> /\ Len(Begun) = Len(frames)
         /\ DOMAIN Begun = DOMAIN frames
         /\ \A k \in DOMAIN frames : /\ Alike(Begun[k], frames[k])
                                     /\ Begun[k].is_terminated <=> frames[k].is_terminated
<1> DEFINE f == [Top EXCEPT !.filled = TRUE]
           r == Begun
<1>1. f \in FrameType /\ Alike(f, Top) /\ (f.is_terminated <=> Top.is_terminated)
  BY FrameFacts DEF FrameType, Alike
<1>2. r = SetTop(frames, f)
  BY DEF Begun
<1> HIDE DEF f, r
<1>3. /\ r \in Seq(FrameType) /\ Len(r) = Len(frames) /\ DOMAIN r = DOMAIN frames /\ r # <<>>
      /\ \A k \in DOMAIN frames : r[k] = IF k = Len(frames) THEN f ELSE frames[k]
  BY <1>1, <1>2, SetTopFacts
<1>4. ASSUME NEW k \in DOMAIN frames
      PROVE  Alike(r[k], frames[k]) /\ (r[k].is_terminated <=> frames[k].is_terminated)
  <2>1. CASE k = Len(frames)
    BY <1>1, <1>3, <2>1 DEF Top
  <2>2. CASE k # Len(frames)
    BY <1>3, <2>2 DEF Alike
  <2> QED
    BY <2>1, <2>2
<1> QED
  BY <1>3, <1>4 DEF r

LEMMA PushFacts ==
  ASSUME TypeOK, NEW g \in FrameType, frames' = Append(Begun, g),
         NEW n \in Nat, n = Len(frames)
  PROVE  /\ frames' \in Seq(FrameType) /\ frames' # <<>>
         /\ Pushed(n) /\ frames'[n + 1] = g
         /\ \A k \in 1..n : frames'[k].is_terminated <=> frames[k].is_terminated
<1>1. n >= 1 /\ DOMAIN frames = 1..n
  BY FrameFacts
<1>2. /\ Begun \in Seq(FrameType) /\ Len(Begun) = n
      /\ \A k \in 1..n : /\ Alike(Begun[k], frames[k])
                         /\ Begun[k].is_terminated <=> frames[k].is_terminated
  BY <1>1, BegunFacts
<1>3. /\ frames' \in Seq(FrameType) /\ Len(frames') = n + 1
      /\ \A k \in 1..n : frames'[k] = Begun[k]
      /\ frames'[n + 1] = g
  BY <1>2, AppendProperties
<1>4. DOMAIN frames' = 1..(n + 1)
  BY <1>3, LenProperties
<1>5. n + 1 \in Nat /\ n + 1 > 0
  OBVIOUS
<1>6. frames' # <<>>
  BY <1>3, <1>5, NotEmpty
<1> QED
  BY <1>1, <1>2, <1>3, <1>4, <1>6 DEF Pushed

LEMMA PushedFlags ==
  ASSUME NEW n \in Nat, Pushed(n), Flags, live' = live,
         \A k \in 1..n : frames'[k].is_terminated <=> frames[k].is_terminated,
         LET g == frames'[n + 1] IN
         /\ ~g.is_terminated /\ g.kind # "else"
         /\ g.kind # "block" => live /\ g.liveBefore
  PROVE  Flags'
<1>1. \A k \in 1..(n + 1) : k \in 1..n \/ k = n + 1
  OBVIOUS
<1>2. n + 1 \in 1..(n + 1) /\ \A k \in 1..n : k \in 1..(n + 1)
  OBVIOUS
<1>3. live' <=> \A k \in DOMAIN frames' : ~frames'[k].is_terminated
  BY <1>1, <1>2 DEF Flags, Pushed
<1>4. ASSUME NEW k \in 1..n
      PROVE  /\ \A j \in 1..(k - 1) : frames'[j].is_terminated => frames'[k].kind = "block"
             /\ frames'[k].kind \in {"then", "else", "loop"} => frames'[k].liveBefore
             /\ frames'[k].kind = "else" => (frames'[k].true_terminated <=> ~frames'[k].liveTrue)
  <2>1. k \in DOMAIN frames /\ Alike(frames'[k], frames[k])
    BY DEF Pushed
  <2>2. \A j \in 1..(k - 1) : j \in 1..n
    OBVIOUS
  <2> QED
    BY <2>1, <2>2 DEF Flags, Alike
<1>5. ASSUME NEW k, k = n + 1
      PROVE  /\ \A j \in 1..(k - 1) : frames'[j].is_terminated => frames'[k].kind = "block"
             /\ frames'[k].kind \in {"then", "else", "loop"} => frames'[k].liveBefore
             /\ frames'[k].kind = "else" => (frames'[k].true_terminated <=> ~frames'[k].liveTrue)
  <2>1. \A j \in 1..(k - 1) : j \in 1..n
    BY <1>5
  <2>2. frames'[k].kind # "block" => \A j \in 1..n : ~frames'[j].is_terminated
    BY <1>5 DEF Flags, Pushed
  <2> QED
    BY <1>5, <2>1, <2>2
<1> QED
  BY <1>1, <1>3, <1>4, <1>5 DEF Flags, Pushed

\* The flow goes on in a block that is added.
LEMMA PushedFilled ==
  ASSUME NEW n \in Nat, Pushed(n), Filled, Layout,
         NEW m \in Nat, DOMAIN blocks = 1..m, m = Len(blocks),
         NEW l \in Nat, DOMAIN blocks' = 1..l,
         \A b \in 1..m : b # cur => blocks'[b].term = blocks[b].term,
         blocks'[cur].term # "none",
         \A b \in (m + 1)..l : blocks'[b].term = "none" <=> b = cur' \/ b \in Slot(frames'[n + 1]),
         Slot(frames'[n + 1]) \subseteq {None} \cup ((m + 1)..l),
         cur' \in (m + 1)..l, live'
  PROVE  Filled'
<1>1. cur \in 1..m
  BY DEF Layout
<1>2. ASSUME NEW b \in 1..l, b # cur'
      PROVE  blocks'[b].term = "none" <=> \E k \in DOMAIN frames' : b \in Slot(frames'[k])
  <2>1. b \in 1..m \/ b \in (m + 1)..l
    OBVIOUS
  <2>2. CASE b \in 1..m
    <3>1. b \notin Slot(frames'[n + 1])
      BY <2>2 DEF None
    <3>2. (\E k \in DOMAIN frames' : b \in Slot(frames'[k]))
            <=> (\E k \in DOMAIN frames : b \in Slot(frames[k]))
      BY <3>1, PushedSlots
    <3>3. CASE b = cur
      <4>1. ~ \E k \in DOMAIN frames : b \in Slot(frames[k])
        BY <3>3 DEF Layout
      <4> QED
        BY <3>2, <3>3, <4>1
    <3>4. CASE b # cur
      BY <2>2, <3>2, <3>4 DEF Filled
    <3> QED
      BY <3>3, <3>4
  <2>3. CASE b \in (m + 1)..l
    <3>1. ~ \E k \in DOMAIN frames : b \in Slot(frames[k])
      <4>1. b \notin 0..m
        BY <2>3
      <4> QED
        BY <4>1 DEF Layout
    <3> QED
      BY <1>2, <2>3, <3>1, PushedSlots
  <2> QED
    BY <2>1, <2>2, <2>3
<1>3. blocks'[cur'].term = "none"
  OBVIOUS
<1> QED
  BY <1>2, <1>3 DEF Filled, Slot, None

\* The flow stays in the block it is in.
LEMMA SameFilled ==
  ASSUME DOMAIN frames' = DOMAIN frames, \A k \in DOMAIN frames : Alike(frames'[k], frames[k]),
         Filled, DOMAIN blocks' = DOMAIN blocks, cur' = cur,
         \A b \in DOMAIN blocks : b # cur => blocks'[b].term = blocks[b].term,
         blocks'[cur].term = "none" <=> live'
  PROVE  Filled'
<1>1. ASSUME NEW b \in DOMAIN blocks, b # cur
      PROVE  blocks'[b].term = "none" <=> \E k \in DOMAIN frames' : b \in Slot(frames'[k])
  BY <1>1, AlikeSlots DEF Filled
<1> QED
  BY <1>1 DEF Filled, Slot, None

\* The frames stay the same but for is_terminated and filled of the top one.
LEMMA SameShape ==
  ASSUME TypeOK, DOMAIN frames' = DOMAIN frames,
         \A k \in DOMAIN frames : Alike(frames'[k], frames[k]), StackShape, LoopLink
  PROVE  /\ StackShape' /\ LoopLink'
         /\ Layout /\ cur' = cur /\ Len(blocks') = Len(blocks) /\ DOMAIN blocks' = DOMAIN blocks
              => Layout'
<1> DEFINE n == Len(frames)
<1>1. n \in Nat /\ n >= 1 /\ DOMAIN frames = 1..n
  BY FrameFacts
<1>2. Kept(n)
  BY <1>1, AlikeAkin DEF Kept
<1>3. \A k \in DOMAIN frames : Slot(frames'[k]) = Slot(frames[k])
  BY AlikeSlot
<1> HIDE DEF n
<1>4. StackShape' /\ LoopLink'
  BY <1>1, <1>2, KeptShape, KeptLink
<1>5. ASSUME Layout, cur' = cur, Len(blocks') = Len(blocks), DOMAIN blocks' = DOMAIN blocks
      PROVE  Layout'
  <2>1. cur' \in DOMAIN blocks /\ \A k \in 1..n : cur' \notin Slot(frames'[k])
    BY <1>1, <1>3, <1>5 DEF Layout
  <2> QED
    BY <1>1, <1>2, <1>5, <2>1, KeptLayout
<1> QED
  BY <1>4, <1>5

-----------------------------------------------------------------------------
(***************************************************************************)
(* Each action preserves the invariant.                                    *)
(***************************************************************************)
LEMMA InitStmt == Init => StmtInvariant
<1> SUFFICES ASSUME Init PROVE StmtInvariant
  OBVIOUS
<1> DEFINE f == [kind |-> "func", is_terminated |-> FALSE, filled |-> FALSE,
                 continue_block |-> None, break_block |-> None,
                 exit_block |-> None, step_block |-> None, loop_block |-> None,
                 false_block |-> None, true_terminated |-> FALSE,
                 liveBefore |-> TRUE, liveTrue |-> FALSE]
<1>1. frames = <<f>> /\ blocks = <<Fresh>>
  BY DEF Init
<1>2. f \in FrameType /\ Fresh \in BlockType
  BY DEF FrameType, Kinds, None, Fresh, BlockType, Terms
<1>3. /\ f.kind = "func" /\ ~f.is_terminated
      /\ f.continue_block = None /\ f.break_block = None /\ f.exit_block = None
      /\ f.step_block = None
  OBVIOUS
<1>4. Fresh.term = "none" /\ Fresh.succs = {} /\ ~Fresh.late
  BY DEF Fresh
<1> HIDE DEF f
<1>5. frames \in Seq(FrameType) /\ Len(frames) = 1 /\ frames[1] = f /\ DOMAIN frames = {1}
  BY <1>1, <1>2
<1>6. blocks \in Seq(BlockType) /\ Len(blocks) = 1 /\ blocks[1] = Fresh /\ DOMAIN blocks = {1}
  BY <1>1, <1>2
<1>7. /\ frames # <<>> /\ cur = 1 /\ status = "open" /\ live = TRUE /\ excused = FALSE
      /\ isVoid \in BOOLEAN
  BY <1>1 DEF Init
<1>8. TypeOK
  BY <1>5, <1>6, <1>7 DEF TypeOK, Statuses
<1>9. StackShape
  BY <1>3, <1>5 DEF StackShape
<1>10. LoopLink
  BY <1>3, <1>5 DEF LoopLink
<1>11. Slot(f) = {None}
  BY <1>3 DEF Slot
<1>12. Layout
  BY <1>5, <1>6, <1>7, <1>11 DEF Layout, None
<1>13. Targets
  BY <1>3, <1>4, <1>5, <1>6 DEF Targets
<1>14. Clean /\ ReturnsFit
  BY <1>4, <1>6 DEF Clean, ReturnsFit
<1>15. Filled
  BY <1>4, <1>6, <1>7 DEF Filled
<1>16. Flags
  BY <1>3, <1>5, <1>7 DEF Flags
<1>17. Unreached
  BY <1>3, <1>4, <1>5, <1>6 DEF Unreached, Sealed
<1> QED
  BY <1>7, <1>8, <1>9, <1>10, <1>12, <1>13, <1>14, <1>15, <1>16, <1>17 DEF StmtInvariant

LEMMA Together ==
  ASSUME TypeOK', StackShape', LoopLink', status' = "open", Layout', Targets',
         ~excused' => Clean' /\ ReturnsFit',
         Clean' => Filled' /\ Flags' /\ Unreached'
  PROVE  StmtInvariant'
BY DEF StmtInvariant

LEMMA SimpleStep == StmtInvariant /\ codegen_simple => StmtInvariant'
<1> SUFFICES ASSUME StmtInvariant, codegen_simple PROVE StmtInvariant'
  OBVIOUS
<1>1. /\ TypeOK /\ StackShape /\ LoopLink /\ Layout /\ Targets
      /\ ~excused => Clean /\ ReturnsFit
      /\ Clean => Filled /\ Flags /\ Unreached
  BY DEF StmtInvariant, codegen_simple, Room
<1>2. /\ blocks' = Instr(blocks, cur) /\ frames' = Begun /\ cur' = cur /\ live' = live
      /\ status' = "open" /\ excused' = (excused \/ ~live) /\ isVoid' = isVoid
  BY DEF codegen_simple, StartStatement, Room
<1>3. cur \in DOMAIN blocks /\ blocks \in Seq(BlockType)
  BY <1>1 DEF Layout, TypeOK
<1>4. /\ blocks' \in Seq(BlockType) /\ Len(blocks') = Len(blocks)
      /\ DOMAIN blocks' = DOMAIN blocks
      /\ \A c \in DOMAIN blocks : blocks'[c].term = blocks[c].term
                                  /\ blocks'[c].succs = blocks[c].succs
      /\ \A c \in DOMAIN blocks : blocks[c].late => blocks'[c].late
      /\ blocks[cur].term = "none" => blocks' = blocks
      /\ blocks[cur].term # "none" => blocks'[cur].late
  <2>1. blocks' = Instr(blocks, cur)
    BY <1>2
  <2>2. /\ blocks' \in Seq(BlockType) /\ Len(blocks') = Len(blocks)
        /\ DOMAIN blocks' = DOMAIN blocks
    BY <1>3, <2>1, InstrFacts
  <2>3. /\ \A c \in DOMAIN blocks : blocks'[c].term = blocks[c].term
                                    /\ blocks'[c].succs = blocks[c].succs
        /\ \A c \in DOMAIN blocks : blocks[c].late => blocks'[c].late
    BY <1>3, <2>1, InstrFacts, ZenonT(40)
  <2>4. blocks[cur].term = "none" => blocks' = blocks
    BY <1>3, <2>1, InstrFacts, SMTT(30)
  <2>5. blocks[cur].term # "none" => blocks'[cur].late
    BY <1>3, <2>1, InstrFacts
  <2> QED
    BY <2>2, <2>3, <2>4, <2>5
<1>5. /\ frames' \in Seq(FrameType) /\ frames' # <<>>
      /\ DOMAIN frames' = DOMAIN frames
      /\ \A k \in DOMAIN frames : /\ Alike(frames'[k], frames[k])
                                  /\ frames'[k].is_terminated <=> frames[k].is_terminated
  BY <1>1, <1>2, BegunFacts
<1>6. TypeOK'
  <2>1. excused' \in BOOLEAN
    BY <1>2
  <2> QED
    BY <1>1, <1>2, <1>4, <1>5, <2>1 DEF TypeOK, Statuses
<1>7. StackShape' /\ LoopLink' /\ Layout'
  BY <1>1, <1>2, <1>4, <1>5, SameShape
<1>8. Grown
  BY <1>4 DEF Grown
<1>9. Targets'
  <2>1. \A b \in DOMAIN blocks' : blocks'[b].succs \subseteq DOMAIN blocks'
    BY <1>1, <1>4 DEF Targets
  <2> QED
    BY <1>1, <1>5, <1>8, <2>1, GrownTargets DEF Alike
<1>10. ASSUME ~excused' PROVE Clean' /\ ReturnsFit'
  <2>1. Clean /\ ReturnsFit /\ live
    BY <1>1, <1>2, <1>10
  <2>2. blocks' = blocks
    BY <1>1, <1>4, <2>1 DEF Filled
  <2> QED
    BY <1>2, <2>1, <2>2 DEF Clean, ReturnsFit
<1>11. ASSUME Clean' PROVE Filled' /\ Flags' /\ Unreached'
  <2>1. Filled /\ Flags /\ Unreached
    BY <1>1, <1>8, <1>11, GrownClean
  <2>2. Filled'
    <3>1. blocks'[cur].term = "none" <=> live'
      BY <1>2, <1>3, <1>4, <2>1 DEF Filled
    <3> QED
      BY <1>2, <1>4, <1>5, <2>1, <3>1, SameFilled
  <2>3. Flags'
    <3>1. \A k \in DOMAIN frames : \A j \in 1..(k - 1) : j \in DOMAIN frames
      BY <1>1, FrameFacts
    <3> QED
      BY <1>2, <1>5, <2>1, <3>1 DEF Flags, Alike
  <2>4. Unreached'
    <3>1. \A k \in DOMAIN frames' : Sealed(frames'[k]) => NoWayTo(frames'[k].exit_block)
      BY <1>5, <2>1, AlikeSealed DEF Unreached
    <3> QED
      BY <1>4, <2>1, <3>1, NoMoreEdges
  <2> QED
    BY <2>2, <2>3, <2>4
<1> QED
  BY <1>2, <1>6, <1>7, <1>9, <1>10, <1>11, Together

LEMMA CompoundStep == StmtInvariant /\ codegen_compound => StmtInvariant'
<1> SUFFICES ASSUME StmtInvariant, codegen_compound PROVE StmtInvariant'
  OBVIOUS
<1> DEFINE n == Len(frames)
           g == Frame("block", None, None, None, None)
<1>1. /\ TypeOK /\ StackShape /\ LoopLink /\ Layout /\ Targets
      /\ ~excused => Clean /\ ReturnsFit
      /\ Clean => Filled /\ Flags /\ Unreached
  BY DEF StmtInvariant, codegen_compound, Room
<1>2. /\ blocks' = blocks /\ frames' = Append(Begun, g) /\ cur' = cur /\ live' = live
      /\ status' = "open" /\ excused' = (excused \/ ~live) /\ isVoid' = isVoid
  BY DEF codegen_compound, StartStatement, Room
<1>3. n \in Nat /\ n >= 1 /\ DOMAIN frames = 1..n /\ Top \in FrameType
  BY <1>1, FrameFacts
<1>4. /\ g \in FrameType /\ g.kind = "block" /\ ~g.is_terminated
      /\ g.continue_block = Top.continue_block /\ g.break_block = Top.break_block
      /\ g.exit_block = None /\ g.step_block = None
  BY <1>1, <1>3 DEF Frame, FrameType, Kinds, None, TypeOK
<1> HIDE DEF n, g
<1>5. /\ frames' \in Seq(FrameType) /\ frames' # <<>>
      /\ Pushed(n) /\ frames'[n + 1] = g
      /\ \A k \in 1..n : frames'[k].is_terminated <=> frames[k].is_terminated
  BY <1>1, <1>2, <1>3, <1>4, PushFacts DEF n
<1>6. TypeOK'
  <2>1. excused' \in BOOLEAN
    BY <1>2
  <2> QED
    BY <1>1, <1>2, <1>5, <2>1 DEF TypeOK, Statuses
<1>7. StackShape'
  BY <1>1, <1>3, <1>4, <1>5, PushedShape
<1>8. LoopLink'
  <2>1. Top = frames[n]
    BY DEF Top, n
  <2> QED
    BY <1>1, <1>3, <1>4, <1>5, <2>1, LinkPushed DEF Pushed
<1>9. Slot(g) = {None} /\ cur # None
  BY <1>1, <1>4, BlockFacts DEF Slot, None, Layout
<1>10. Layout'
  <2> DEFINE m == Len(blocks)
  <2>1. m \in Nat /\ DOMAIN blocks = 1..m
    BY <1>1, BlockFacts
  <2> HIDE DEF m
  <2>2. m = Len(blocks) /\ m = Len(blocks') /\ m <= m /\ DOMAIN blocks' = 1..m
    BY <1>2, <2>1 DEF m
  <2>3. cur' = cur /\ Slot(frames'[n + 1]) = {None} /\ cur' \notin Slot(frames'[n + 1])
    BY <1>2, <1>5, <1>9
  <2> QED
    BY <1>1, <1>3, <1>5, <2>1, <2>2, <2>3, PushedLayout
<1>11. \A k \in 1..(n + 1) : k \in 1..n \/ k = n + 1
  BY <1>3
<1>12. Grown
  BY <1>2 DEF Grown
<1>13. Targets'
  <2>1. \A k \in 1..n : Alike(frames'[k], frames[k]) /\ k \in DOMAIN frames
    BY <1>5 DEF Pushed
  <2>2. \A k \in DOMAIN frames' : k \in 1..n \/ k = n + 1
    BY <1>5, <1>11 DEF Pushed
  <2> QED
    BY <1>1, <1>2, <1>4, <1>5, <2>1, <2>2 DEF Targets, Alike
<1>14. ASSUME ~excused' PROVE Clean' /\ ReturnsFit'
  BY <1>1, <1>2, <1>14 DEF Clean, ReturnsFit
<1>15. ASSUME Clean' PROVE Filled' /\ Flags' /\ Unreached'
  <2>1. Filled /\ Flags /\ Unreached
    BY <1>1, <1>12, <1>15, GrownClean
  <2>2. Filled'
    <3>1. ASSUME NEW b \in DOMAIN blocks, b # cur
          PROVE  blocks'[b].term = "none" <=> \E k \in DOMAIN frames' : b \in Slot(frames'[k])
      <4>1. b # None
        BY <1>1, BlockFacts DEF None
      <4> QED
        BY <1>2, <1>3, <1>5, <1>9, <2>1, <3>1, <4>1, PushedSlots DEF Filled
    <3> QED
      BY <1>2, <2>1, <3>1 DEF Filled, Slot, None
  <2>3. Flags'
    BY <1>2, <1>3, <1>4, <1>5, <2>1, PushedFlags
  <2>4. Unreached'
    <3>1. \A k \in DOMAIN frames' : Sealed(frames'[k]) => NoWayTo(frames'[k].exit_block)
      <4>1. \A k \in DOMAIN frames' : k \in 1..n \/ k = n + 1
        BY <1>5, <1>11 DEF Pushed
      <4>2. ~Sealed(g)
        BY <1>4 DEF Sealed
      <4> QED
        BY <1>5, <2>1, <4>1, <4>2, AlikeSealed DEF Unreached, Pushed
    <3> QED
      BY <1>2, <2>1, <3>1, NoMoreEdges
  <2> QED
    BY <2>2, <2>3, <2>4
<1> QED
  BY <1>2, <1>6, <1>7, <1>8, <1>10, <1>13, <1>14, <1>15, Together

\* continue, break and return; ss are the blocks of a loop around the statement.
LEMMA JumpStep ==
  ASSUME StmtInvariant, NEW t \in Terms, t \notin {"none", "unreachable"},
         NEW ss \in SUBSET Nat, Jump(t, ss), excused' \in BOOLEAN,
         ~excused' => /\ ~excused /\ live
                      /\ (t = "ret" => ~isVoid) /\ (t = "retvoid" => isVoid),
         \A x \in ss : /\ x # None
                       /\ \E j \in DOMAIN frames :
                            /\ frames[j].kind = "loop"
                            /\ x \in {frames[j].step_block, frames[j].exit_block}
  PROVE  StmtInvariant'
<1> DEFINE f == [Top EXCEPT !.filled = TRUE, !.is_terminated = TRUE]
           n == Len(frames)
<1>1. /\ TypeOK /\ StackShape /\ LoopLink /\ Layout /\ Targets
      /\ ~excused => Clean /\ ReturnsFit
      /\ Clean => Filled /\ Flags /\ Unreached
  BY DEF StmtInvariant, Jump, Room
<1>2. /\ blocks' = Terminate(blocks, cur, t, ss) /\ frames' = SetTop(frames, f)
      /\ cur' = cur /\ live' = FALSE /\ status' = "open" /\ isVoid' = isVoid
  BY DEF Jump, Room
<1>3. cur \in DOMAIN blocks
  BY <1>1 DEF Layout
<1>4. /\ blocks' \in Seq(BlockType) /\ Len(blocks') = Len(blocks)
      /\ DOMAIN blocks' = DOMAIN blocks
      /\ \A c \in DOMAIN blocks : c # cur => blocks'[c] = blocks[c]
      /\ Grown
      /\ blocks'[cur].term # "none"
      /\ blocks[cur].term = "none" => /\ blocks'[cur].term = t /\ blocks'[cur].succs = ss
                                      /\ blocks'[cur].late <=> blocks[cur].late
      /\ \A c \in DOMAIN blocks : blocks'[c].succs = blocks[c].succs \/ blocks'[c].succs = ss
      /\ \A c \in DOMAIN blocks : blocks'[c].term = blocks[c].term \/ blocks'[c].term = t
  BY <1>1, <1>2, <1>3, TerminateStep
<1>5. n \in Nat /\ n >= 1 /\ DOMAIN frames = 1..n /\ Top \in FrameType
  BY <1>1, FrameFacts
<1>6. f \in FrameType /\ Alike(f, Top) /\ f.is_terminated
  BY <1>5 DEF FrameType, Alike
<1> HIDE DEF f, n
<1>7. /\ frames' \in Seq(FrameType) /\ frames' # <<>> /\ DOMAIN frames' = DOMAIN frames
      /\ \A k \in DOMAIN frames : frames'[k] = IF k = n THEN f ELSE frames[k]
  BY <1>1, <1>2, <1>6, SetTopFacts DEF n
<1>8. \A k \in DOMAIN frames : Alike(frames'[k], frames[k])
  <2>1. \A k \in DOMAIN frames : Alike(frames[k], frames[k])
    BY DEF Alike
  <2> QED
    BY <1>6, <1>7, <2>1 DEF Top, n
<1>9. TypeOK'
  BY <1>1, <1>2, <1>4, <1>7 DEF TypeOK, Statuses
<1>10. StackShape' /\ LoopLink' /\ Layout'
  BY <1>1, <1>2, <1>4, <1>7, <1>8, SameShape
<1>11. \A x \in ss : x \in DOMAIN blocks
                     /\ \E j \in DOMAIN frames : frames[j].kind = "loop" /\ x \in Slot(frames[j])
  <2> DEFINE m == Len(blocks)
  <2>1. m \in Nat /\ DOMAIN blocks = 1..m
    BY <1>1, BlockFacts
  <2> SUFFICES ASSUME NEW x \in ss
               PROVE  x \in 1..m
                      /\ \E j \in DOMAIN frames : frames[j].kind = "loop" /\ x \in Slot(frames[j])
    BY <2>1
  <2>2. PICK j \in DOMAIN frames : /\ frames[j].kind = "loop"
                                   /\ x \in {frames[j].step_block, frames[j].exit_block}
    OBVIOUS
  <2>3. x \in Slot(frames[j]) /\ x # None
    BY <2>2 DEF Slot
  <2>4. x \in 0..m
    BY <1>1, <2>3 DEF Layout
  <2>5. x \in 1..m
    BY <2>1, <2>3, <2>4 DEF None
  <2> QED
    BY <2>2, <2>3, <2>5
<1>12. Targets'
  <2>1. \A b \in DOMAIN blocks' : blocks'[b].succs \subseteq DOMAIN blocks'
    BY <1>1, <1>4, <1>11 DEF Targets
  <2> QED
    BY <1>1, <1>4, <1>7, <1>8, <2>1, GrownTargets DEF Alike
<1>13. ASSUME ~excused' PROVE Clean' /\ ReturnsFit'
  <2>1. Clean /\ ReturnsFit /\ live
    BY <1>1, <1>13
  <2>2. blocks'[cur].term = t /\ ~blocks'[cur].late
    BY <1>1, <1>3, <1>4, <2>1 DEF Filled, Clean
  <2>3. Clean'
    BY <1>4, <2>1, <2>2 DEF Clean
  <2>4. ReturnsFit'
    BY <1>2, <1>4, <1>13, <2>1, <2>2 DEF ReturnsFit
  <2> QED
    BY <2>3, <2>4
<1>14. ASSUME Clean' PROVE Filled' /\ Flags' /\ Unreached'
  <2>1. Filled /\ Flags /\ Unreached
    BY <1>1, <1>4, <1>14, GrownClean
  <2>2. Filled'
    BY <1>2, <1>4, <1>7, <1>8, <2>1, SameFilled
  <2>3. Flags'
    <3>1. \A k \in DOMAIN frames : \A j \in 1..(k - 1) : j \in DOMAIN frames /\ j # n
      BY <1>5
    <3>2. n \in DOMAIN frames /\ frames'[n].is_terminated
      BY <1>5, <1>6, <1>7
    <3>3. live' <=> \A k \in DOMAIN frames' : ~frames'[k].is_terminated
      BY <1>2, <1>7, <3>2
    <3>4. \A k \in DOMAIN frames' : \A j \in 1..(k - 1) :
            frames'[j].is_terminated => frames'[k].kind = "block"
      BY <1>7, <1>8, <2>1, <3>1, SMTT(30) DEF Flags, Alike
    <3>5. \A k \in DOMAIN frames' :
            /\ frames'[k].kind \in {"then", "else", "loop"} => frames'[k].liveBefore
            /\ frames'[k].kind = "else" => (frames'[k].true_terminated <=> ~frames'[k].liveTrue)
      BY <1>7, <1>8, <2>1 DEF Flags, Alike
    <3> QED
      BY <3>3, <3>4, <3>5 DEF Flags
  <2>4. Unreached'
    <3>1. \A x \in ss : x # cur /\ blocks[x].term = "none"
      BY <1>1, <1>11, <2>1 DEF Layout, Filled
    <3>2. \A c \in DOMAIN blocks' : \A x \in blocks'[c].succs :
            (c \in DOMAIN blocks /\ x \in blocks[c].succs) \/ x \in ss
      BY <1>4
    <3>3. \A b \in DOMAIN blocks' :
            blocks'[b].term = "unreachable" => NoWayTo(b) /\ b \notin ss
      BY <1>4, <2>1, <3>1 DEF Unreached
    <3>4. \A k \in DOMAIN frames' :
            Sealed(frames'[k]) => NoWayTo(frames'[k].exit_block)
                                  /\ frames'[k].exit_block \notin ss
      <4> SUFFICES ASSUME NEW k \in DOMAIN frames, Sealed(frames'[k])
                   PROVE  NoWayTo(frames'[k].exit_block) /\ frames'[k].exit_block \notin ss
        BY <1>7
      <4>1. Sealed(frames[k]) /\ frames'[k].exit_block = frames[k].exit_block
        BY <1>8, AlikeSealed
      <4>2. frames[k].kind # "loop" /\ frames[k].exit_block \in Slot(frames[k])
        BY <4>1 DEF Sealed, Slot
      <4>3. \A x \in ss : x \notin Slot(frames[k])
        <5>1. \A j \in DOMAIN frames :
                j # k => Slot(frames[j]) \cap Slot(frames[k]) \subseteq {None}
          BY <1>1 DEF Layout
        <5> QED
          BY <1>11, <4>2, <5>1
      <4> QED
        BY <2>1, <4>1, <4>2, <4>3 DEF Unreached
    <3> QED
      BY <3>2, <3>3, <3>4, StillUnreached
  <2> QED
    BY <2>2, <2>3, <2>4
<1> QED
  BY <1>2, <1>9, <1>10, <1>12, <1>13, <1>14, Together

LEMMA LoopTargets ==
  ASSUME TypeOK, LoopLink
  PROVE  /\ Top.continue_block # None =>
              \E j \in DOMAIN frames : frames[j].kind = "loop"
                                       /\ Top.continue_block = frames[j].step_block
         /\ Top.break_block # None =>
              \E j \in DOMAIN frames : frames[j].kind = "loop"
                                       /\ Top.break_block = frames[j].exit_block
<1> DEFINE n == Len(frames)
<1>1. n \in Nat /\ n \in DOMAIN frames /\ DOMAIN frames = 1..n
  BY FrameFacts
<1> QED
  BY <1>1 DEF LoopLink, Top

LEMMA ContinueStep == StmtInvariant /\ codegen_continue => StmtInvariant'
<1> SUFFICES ASSUME StmtInvariant, codegen_continue PROVE StmtInvariant'
  OBVIOUS
<1> DEFINE ss == {Top.continue_block}
<1>1. Jump("br", ss) /\ excused' = (excused \/ ~live) /\ Top.continue_block # None
  BY DEF codegen_continue
<1>2. TypeOK /\ LoopLink
  BY DEF StmtInvariant
<1>3. ss \in SUBSET Nat
  BY <1>2, FrameFacts DEF FrameType
<1>4. \A x \in ss : /\ x # None
                    /\ \E j \in DOMAIN frames :
                         /\ frames[j].kind = "loop"
                         /\ x \in {frames[j].step_block, frames[j].exit_block}
  BY <1>1, <1>2, LoopTargets
<1>5. excused' \in BOOLEAN /\ (~excused' => ~excused /\ live)
  BY <1>1
<1>6. "br" \in Terms /\ "br" \notin {"none", "unreachable"}
  BY DEF Terms
<1> HIDE DEF ss
<1> QED
  BY <1>1, <1>3, <1>4, <1>5, <1>6, JumpStep

LEMMA BreakStep == StmtInvariant /\ codegen_break => StmtInvariant'
<1> SUFFICES ASSUME StmtInvariant, codegen_break PROVE StmtInvariant'
  OBVIOUS
<1> DEFINE ss == {Top.break_block}
<1>1. Jump("br", ss) /\ excused' = (excused \/ ~live) /\ Top.break_block # None
  BY DEF codegen_break
<1>2. TypeOK /\ LoopLink
  BY DEF StmtInvariant
<1>3. ss \in SUBSET Nat
  BY <1>2, FrameFacts DEF FrameType
<1>4. \A x \in ss : /\ x # None
                    /\ \E j \in DOMAIN frames :
                         /\ frames[j].kind = "loop"
                         /\ x \in {frames[j].step_block, frames[j].exit_block}
  BY <1>1, <1>2, LoopTargets
<1>5. excused' \in BOOLEAN /\ (~excused' => ~excused /\ live)
  BY <1>1
<1>6. "br" \in Terms /\ "br" \notin {"none", "unreachable"}
  BY DEF Terms
<1> HIDE DEF ss
<1> QED
  BY <1>1, <1>3, <1>4, <1>5, <1>6, JumpStep

LEMMA ReturnStep ==
  ASSUME StmtInvariant, NEW hasExpr \in BOOLEAN, codegen_return(hasExpr)
  PROVE  StmtInvariant'
<1> DEFINE t == IF hasExpr THEN "ret" ELSE "retvoid"
<1>1. Jump(t, {}) /\ excused' = (excused \/ ~live \/ hasExpr = isVoid)
  BY DEF codegen_return
<1>2. t \in Terms /\ t \notin {"none", "unreachable"}
  BY DEF Terms
<1>3. isVoid \in BOOLEAN
  BY DEF StmtInvariant, TypeOK
<1>4. excused' \in BOOLEAN
  BY <1>1
<1>5. ASSUME ~excused'
      PROVE  ~excused /\ live /\ (t = "ret" => ~isVoid) /\ (t = "retvoid" => isVoid)
  <2>1. ~excused /\ live /\ hasExpr # isVoid
    BY <1>1, <1>5, Zenon
  <2>2. CASE hasExpr
    <3>1. t = "ret" /\ "ret" # "retvoid" /\ ~isVoid
      BY <1>3, <2>1, <2>2
    <3> QED
      BY <2>1, <3>1, Zenon
  <2>3. CASE ~hasExpr
    <3>1. t = "retvoid" /\ "ret" # "retvoid" /\ isVoid
      BY <1>3, <2>1, <2>3
    <3> QED
      BY <2>1, <3>1, Zenon
  <2> QED
    BY <2>2, <2>3
<1>6. {} \in SUBSET Nat
  OBVIOUS
<1> HIDE DEF t
<1> QED
  BY <1>1, <1>2, <1>4, <1>5, <1>6, JumpStep

(***************************************************************************)
(* The end of a call: the top frame goes, the flow goes on below it.       *)
(***************************************************************************)
\* The top frame is removed; the one below is terminated as well if flag is set.
PoppedWith(n, flag) ==
  /\ DOMAIN frames' = 1..(n - 1)
  /\ \A k \in 1..(n - 1) : Alike(frames'[k], frames[k])
  /\ \A k \in 1..(n - 2) : frames'[k].is_terminated <=> frames[k].is_terminated
  /\ frames'[n - 1].is_terminated <=> frames[n - 1].is_terminated \/ flag

LEMMA PopOnly ==
  ASSUME TypeOK, NEW n \in Nat, n = Len(frames), n > 1, frames' = Popped
  PROVE  frames' \in Seq(FrameType) /\ frames' # <<>> /\ PoppedWith(n, FALSE)
<1>1. /\ frames' \in Seq(FrameType) /\ frames' # <<>> /\ DOMAIN frames' = 1..(n - 1)
      /\ \A k \in 1..(n - 1) : frames'[k] = frames[k]
  BY PopFacts
<1>2. \A k \in 1..(n - 1) : Alike(frames'[k], frames[k])
  BY <1>1 DEF Alike
<1>3. n - 1 \in 1..(n - 1) /\ \A k \in 1..(n - 2) : k \in 1..(n - 1)
  OBVIOUS
<1> QED
  BY <1>1, <1>2, <1>3 DEF PoppedWith

LEMMA PopFlag ==
  ASSUME TypeOK, NEW n \in Nat, n = Len(frames), n > 1, NEW flag \in BOOLEAN,
         frames' = SetTop(Popped, [Below EXCEPT !.is_terminated = @ \/ flag])
  PROVE  frames' \in Seq(FrameType) /\ frames' # <<>> /\ PoppedWith(n, flag)
<1> DEFINE f == [Below EXCEPT !.is_terminated = @ \/ flag]
<1>1. Below \in FrameType /\ Below = frames[n - 1]
  BY PopFacts DEF Below
<1>2. f \in FrameType /\ Alike(f, Below)
  BY <1>1 DEF FrameType, Alike
<1>3. f.is_terminated <=> Below.is_terminated \/ flag
  BY <1>1 DEF FrameType
<1>4. frames' = SetTop(Popped, f)
  OBVIOUS
<1> HIDE DEF f
<1>5. /\ frames' \in Seq(FrameType) /\ frames' # <<>> /\ DOMAIN frames' = 1..(n - 1)
      /\ \A k \in 1..(n - 1) : frames'[k] = IF k = n - 1 THEN f ELSE frames[k]
  BY <1>2, <1>4, PopFacts, ZenonT(40)
<1>6. \A k \in 1..(n - 1) : Alike(frames'[k], frames[k])
  <2>1. \A k \in 1..(n - 1) : Alike(frames[k], frames[k])
    BY DEF Alike
  <2> QED
    BY <1>1, <1>2, <1>5, <2>1
<1>7. n - 1 \in 1..(n - 1) /\ \A k \in 1..(n - 2) : k \in 1..(n - 1) /\ k # n - 1
  OBVIOUS
<1>8. \A k \in 1..(n - 2) : frames'[k].is_terminated <=> frames[k].is_terminated
  BY <1>5, <1>7
<1>9. frames'[n - 1].is_terminated <=> frames[n - 1].is_terminated \/ flag
  BY <1>1, <1>3, <1>5, <1>7
<1> QED
  BY <1>5, <1>6, <1>8, <1>9 DEF PoppedWith

LEMMA PoppedShape ==
  ASSUME TypeOK, NEW n \in Nat, n = Len(frames), n > 1, NEW flag, PoppedWith(n, flag),
         StackShape, LoopLink, Layout, cur' = cur \/ (cur' \in Slot(Top) /\ cur' # None)
  PROVE  /\ StackShape' /\ LoopLink'
         /\ cur' \in DOMAIN blocks
         /\ \A k \in 1..(n - 1) : cur' \notin Slot(frames'[k])
         /\ Len(blocks') = Len(blocks) /\ DOMAIN blocks' = DOMAIN blocks => Layout'
<1>1. DOMAIN frames = 1..n /\ n - 1 \in Nat /\ n - 1 >= 1
  BY FrameFacts
<1>2. Kept(n - 1)
  <2>1. 1..(n - 1) \subseteq DOMAIN frames
    BY <1>1
  <2> QED
    BY <2>1, AlikeAkin DEF Kept, PoppedWith
<1>3. StackShape' /\ LoopLink'
  BY <1>1, <1>2, KeptShape, KeptLink
<1>4. cur' \in DOMAIN blocks
  <2>1. Slot(Top) \subseteq 0..Len(blocks)
    BY <1>1 DEF Layout, Top
  <2>2. Len(blocks) \in Nat /\ DOMAIN blocks = 1..Len(blocks) /\ cur \in DOMAIN blocks
    BY BlockFacts DEF Layout
  <2>3. \A x \in 0..Len(blocks) : x # 0 => x \in 1..Len(blocks)
    BY <2>2
  <2> QED
    BY <2>1, <2>2, <2>3 DEF None
<1>5. ASSUME NEW k \in 1..(n - 1) PROVE cur' \notin Slot(frames'[k])
  <2>1. k \in DOMAIN frames /\ n \in DOMAIN frames /\ k # n
    BY <1>1
  <2>2. Slot(frames'[k]) = Slot(frames[k])
    BY AlikeSlot DEF PoppedWith
  <2> QED
    BY <2>1, <2>2 DEF Layout, Top
<1>6. ASSUME Len(blocks') = Len(blocks), DOMAIN blocks' = DOMAIN blocks PROVE Layout'
  BY <1>1, <1>2, <1>4, <1>5, <1>6, KeptLayout
<1> QED
  BY <1>3, <1>4, <1>5, <1>6

LEMMA PoppedFlags ==
  ASSUME TypeOK, NEW n \in Nat, n = Len(frames), n > 1, NEW flag, PoppedWith(n, flag), Flags,
         live' <=> \A k \in 1..(n - 1) : ~frames'[k].is_terminated
  PROVE  Flags'
<1>1. \A k \in 1..(n - 1) : k \in DOMAIN frames /\ \A j \in 1..(k - 1) : j \in 1..(n - 2)
  BY FrameFacts
<1>2. DOMAIN frames' = 1..(n - 1)
      /\ \A k \in 1..(n - 2) : frames'[k].is_terminated <=> frames[k].is_terminated
  BY DEF PoppedWith
<1>3. ASSUME NEW k \in 1..(n - 1)
      PROVE  /\ \A j \in 1..(k - 1) : frames'[j].is_terminated => frames'[k].kind = "block"
             /\ frames'[k].kind \in {"then", "else", "loop"} => frames'[k].liveBefore
             /\ frames'[k].kind = "else" => (frames'[k].true_terminated <=> ~frames'[k].liveTrue)
  <2>1. Alike(frames'[k], frames[k]) /\ k \in DOMAIN frames
    BY <1>1 DEF PoppedWith
  <2>2. \A j \in 1..(k - 1) : frames'[j].is_terminated => frames'[k].kind = "block"
    BY <1>1, <1>2, <2>1 DEF Flags, Alike
  <2> QED
    BY <2>1, <2>2 DEF Flags, Alike
<1> QED
  BY <1>2, <1>3 DEF Flags

LEMMA PoppedFilled ==
  ASSUME TypeOK, NEW n \in Nat, n = Len(frames), n > 1, NEW flag, PoppedWith(n, flag),
         Filled, Layout, cur' \in Slot(Top), DOMAIN blocks' = DOMAIN blocks,
         blocks'[cur].term # "none",
         \A b \in DOMAIN blocks :
           /\ b # cur /\ b \notin Slot(Top) => blocks'[b].term = blocks[b].term
           /\ b \in Slot(Top) /\ b # cur' => blocks'[b].term # "none",
         blocks'[cur'].term = "none" <=> live'
  PROVE  Filled'
<1>1. DOMAIN frames' = 1..(n - 1) /\ \A k \in 1..(n - 1) : Alike(frames'[k], frames[k])
  BY DEF PoppedWith
<1>2. DOMAIN frames = 1..n /\ n \in DOMAIN frames
      /\ \A k \in 1..(n - 1) : k \in DOMAIN frames /\ k # n
  BY FrameFacts
<1>3. \A k \in 1..(n - 1) : Slot(frames'[k]) = Slot(frames[k])
  BY <1>1, AlikeSlot
<1>4. ASSUME NEW b \in DOMAIN blocks, b # cur'
      PROVE  blocks'[b].term = "none" <=> \E k \in DOMAIN frames' : b \in Slot(frames'[k])
  <2>1. b # None
    BY BlockFacts DEF None
  <2>2. CASE b = cur
    <3>1. \A k \in DOMAIN frames' : b \notin Slot(frames'[k])
      BY <1>1, <1>2, <1>3, <2>2 DEF Layout
    <3> QED
      BY <2>2, <3>1
  <2>3. CASE b \in Slot(Top)
    <3>1. \A k \in 1..(n - 1) : Slot(frames[k]) \cap Slot(Top) \subseteq {None}
      BY <1>2 DEF Layout, Top
    <3>2. \A k \in DOMAIN frames' : b \notin Slot(frames'[k])
      BY <1>1, <1>3, <2>1, <2>3, <3>1
    <3> QED
      BY <1>4, <2>3, <3>2
  <2>4. CASE b # cur /\ b \notin Slot(Top)
    BY <1>1, <2>4, PoppedSlots DEF Filled
  <2> QED
    BY <2>2, <2>3, <2>4
<1> QED
  BY <1>4 DEF Filled, Slot, None

LEMMA PoppedSealed ==
  ASSUME TypeOK, NEW n \in Nat, n = Len(frames), n > 1, NEW flag, PoppedWith(n, flag),
         Unreached, Layout, StackShape, NEW k \in DOMAIN frames', Sealed(frames'[k])
  PROVE  /\ NoWayTo(frames'[k].exit_block)
         /\ frames'[k].exit_block \notin Slot(Top)
         /\ \E j \in DOMAIN frames : frames'[k].exit_block \in Slot(frames[j])
         /\ frames'[k].exit_block # None
<1>1. k \in 1..(n - 1) /\ k \in DOMAIN frames /\ n \in DOMAIN frames /\ k # n
  BY FrameFacts DEF PoppedWith
<1>2. Sealed(frames[k]) /\ frames'[k].exit_block = frames[k].exit_block
  BY <1>1, AlikeSealed DEF PoppedWith
<1>3. frames[k].exit_block > 1
  BY <1>1, <1>2 DEF StackShape, Sealed
<1>4. frames[k].exit_block # None
  BY <1>3 DEF None
<1>5. frames[k].exit_block \in Slot(frames[k])
  BY DEF Slot
<1>6. Slot(frames[k]) \cap Slot(Top) \subseteq {None}
  BY <1>1 DEF Layout, Top
<1> QED
  BY <1>1, <1>2, <1>4, <1>5, <1>6 DEF Unreached

LEMMA EndCompoundStep == StmtInvariant /\ end_compound => StmtInvariant'
<1> SUFFICES ASSUME StmtInvariant, end_compound PROVE StmtInvariant'
  OBVIOUS
<1> DEFINE n == Len(frames)
<1>1. /\ TypeOK /\ StackShape /\ LoopLink /\ Layout /\ Targets
      /\ ~excused => Clean /\ ReturnsFit
      /\ Clean => Filled /\ Flags /\ Unreached
  BY DEF StmtInvariant, end_compound
<1>2. /\ frames' = SetTop(Popped, [Below EXCEPT !.is_terminated = @ \/ Top.is_terminated])
      /\ Top.kind = "block" /\ blocks' = blocks /\ cur' = cur /\ live' = live
      /\ status' = "open" /\ excused' = excused /\ isVoid' = isVoid
  BY DEF end_compound
<1>3. n \in Nat /\ n > 1 /\ DOMAIN frames = 1..n /\ Top \in FrameType /\ n \in DOMAIN frames
  BY <1>1, <1>2, FrameFacts, HasBelow
<1>4. Top.is_terminated \in BOOLEAN
  BY <1>3 DEF FrameType
<1> HIDE DEF n
<1>5. frames' \in Seq(FrameType) /\ frames' # <<>> /\ PoppedWith(n, Top.is_terminated)
  BY <1>1, <1>2, <1>3, <1>4, PopFlag DEF n
<1>6. TypeOK'
  BY <1>1, <1>2, <1>5 DEF TypeOK, Statuses
<1>7. StackShape' /\ LoopLink' /\ Layout'
  BY <1>1, <1>2, <1>3, <1>5, PoppedShape DEF n
<1>8. DOMAIN frames' = 1..(n - 1) /\ \A k \in 1..(n - 1) : Alike(frames'[k], frames[k])
  BY <1>5 DEF PoppedWith
<1>9. \A k \in 1..(n - 1) : k \in DOMAIN frames
  BY <1>3
<1>10. Targets'
  <2>1. \A b \in DOMAIN blocks' : blocks'[b].succs \subseteq DOMAIN blocks'
    BY <1>1, <1>2 DEF Targets
  <2>2. Grown
    BY <1>2 DEF Grown
  <2> QED
    BY <1>1, <1>8, <1>9, <2>1, <2>2, GrownTargets DEF Alike
<1>11. ASSUME ~excused' PROVE Clean' /\ ReturnsFit'
  BY <1>1, <1>2, <1>11 DEF Clean, ReturnsFit
<1>12. ASSUME Clean' PROVE Filled' /\ Flags' /\ Unreached'
  <2>1. Filled /\ Flags /\ Unreached
    BY <1>1, <1>2, <1>12 DEF Clean
  <2>2. Slot(Top) = {None}
    BY <1>1, <1>2, <1>3 DEF Slot, StackShape, Top, n
  <2>3. Filled'
    <3>1. ASSUME NEW b \in DOMAIN blocks, b # cur
          PROVE  blocks'[b].term = "none" <=> \E k \in DOMAIN frames' : b \in Slot(frames'[k])
      <4>1. b # None
        BY <1>1, BlockFacts DEF None
      <4>2. (\E k \in DOMAIN frames : b \in Slot(frames[k]))
              <=> b \in Slot(Top) \/ (\E k \in DOMAIN frames' : b \in Slot(frames'[k]))
        BY <1>1, <1>8, PoppedSlots DEF n
      <4> QED
        BY <1>2, <2>1, <2>2, <3>1, <4>1, <4>2 DEF Filled
    <3> QED
      BY <1>2, <2>1, <3>1 DEF Filled, Slot, None
  <2>4. Flags'
    <3>1. \A k \in 1..(n - 1) : k \in 1..(n - 2) \/ k = n - 1
      BY <1>3
    <3>2. \A k \in 1..n : k \in 1..(n - 2) \/ k = n - 1 \/ k = n
      BY <1>3
    <3>3. n - 1 \in 1..(n - 1) /\ n - 1 \in 1..n /\ n \in 1..n
          /\ \A k \in 1..(n - 2) : k \in 1..(n - 1) /\ k \in 1..n
      BY <1>3
    <3>4. live' <=> \A k \in 1..n : ~frames[k].is_terminated
      BY <1>2, <1>3, <2>1 DEF Flags
    <3>5. /\ \A k \in 1..(n - 2) : frames'[k].is_terminated <=> frames[k].is_terminated
          /\ frames'[n - 1].is_terminated <=>
               frames[n - 1].is_terminated \/ frames[n].is_terminated
      BY <1>5 DEF PoppedWith, Top, n
    <3>6. live' <=> \A k \in 1..(n - 1) : ~frames'[k].is_terminated
      BY <3>1, <3>2, <3>3, <3>4, <3>5
    <3> QED
      BY <1>1, <1>3, <1>5, <2>1, <3>6, PoppedFlags DEF n
  <2>5. Unreached'
    <3>1. \A k \in DOMAIN frames' : Sealed(frames'[k]) => NoWayTo(frames'[k].exit_block)
      BY <1>1, <1>3, <1>5, <2>1, PoppedSealed DEF n
    <3> QED
      BY <1>2, <2>1, <3>1, NoMoreEdges
  <2> QED
    BY <2>3, <2>4, <2>5
<1> QED
  BY <1>2, <1>6, <1>7, <1>10, <1>11, <1>12, Together

\* The branch of an if is closed, unless it has jumped.
LEMMA CloseBranch ==
  ASSUME TypeOK, Layout, StackShape, Targets, NEW e, e = Top.exit_block,
         Top.kind \in {"then", "else"},
         blocks' = IF Top.is_terminated THEN blocks ELSE Terminate(blocks, cur, "br", {e}),
         NEW More, More = IF Top.is_terminated THEN {} ELSE {e}
  PROVE  /\ e \in DOMAIN blocks /\ e # None /\ e # cur /\ Top.step_block = None
         /\ blocks' \in Seq(BlockType) /\ Len(blocks') = Len(blocks)
         /\ DOMAIN blocks' = DOMAIN blocks
         /\ \A c \in DOMAIN blocks : c # cur => blocks'[c] = blocks[c]
         /\ Grown
         /\ \A c \in DOMAIN blocks : blocks'[c].term = blocks[c].term \/ blocks'[c].term = "br"
         /\ \A c \in DOMAIN blocks : blocks'[c].succs \subseteq DOMAIN blocks
         /\ \A c \in DOMAIN blocks : \A x \in blocks'[c].succs : x \in blocks[c].succs \/ x \in More
         /\ Filled /\ Flags =>
              blocks'[cur].term # "none" /\ (Clean => Clean') /\ (ReturnsFit /\ isVoid' = isVoid => ReturnsFit')
<1> DEFINE n == Len(frames)
           m == Len(blocks)
<1>1. n \in DOMAIN frames /\ Top = frames[n] /\ Top \in FrameType
  BY FrameFacts DEF Top
<1>2. m \in Nat /\ DOMAIN blocks = 1..m
  BY BlockFacts
<1>3. e \in Slot(Top) /\ e > 1 /\ Top.step_block = None
  BY <1>1 DEF StackShape, Slot
<1>4. e \in 0..m /\ e # cur
  BY <1>1, <1>3 DEF Layout
<1>5. e \in DOMAIN blocks /\ e # None
  BY <1>2, <1>3, <1>4 DEF None
<1>6. cur \in DOMAIN blocks
  BY DEF Layout
<1> HIDE DEF n, m
<1>7. CASE Top.is_terminated
  <2>1. blocks' = blocks /\ More = {}
    BY <1>7
  <2>2. Filled /\ Flags => blocks'[cur].term # "none"
    BY <1>7, <2>1, TopFlags DEF Filled
  <2>3. Grown
    BY <2>1 DEF Grown
  <2>4. blocks' \in Seq(BlockType) /\ \A c \in DOMAIN blocks : blocks'[c].succs \subseteq DOMAIN blocks
    BY <2>1 DEF TypeOK, Targets
  <2>5. (Clean => Clean') /\ (ReturnsFit /\ isVoid' = isVoid => ReturnsFit')
    BY <2>1 DEF Clean, ReturnsFit
  <2> QED
    BY <1>3, <1>4, <1>5, <2>1, <2>2, <2>3, <2>4, <2>5
<1>8. CASE ~Top.is_terminated
  <2>1. blocks' = Terminate(blocks, cur, "br", More) /\ More = {e}
    BY <1>8
  <2>2. "br" \in Terms /\ "br" # "none" /\ More \in SUBSET Nat /\ More \subseteq DOMAIN blocks
    BY <1>2, <1>5, <2>1 DEF Terms
  <2>3. /\ blocks' \in Seq(BlockType) /\ Len(blocks') = Len(blocks)
        /\ DOMAIN blocks' = DOMAIN blocks
        /\ \A c \in DOMAIN blocks : c # cur => blocks'[c] = blocks[c]
        /\ Grown
        /\ blocks'[cur].term # "none"
        /\ blocks[cur].term = "none" => /\ blocks'[cur].term = "br"
                                        /\ blocks'[cur].late <=> blocks[cur].late
        /\ \A c \in DOMAIN blocks : blocks'[c].succs = blocks[c].succs \/ blocks'[c].succs = More
        /\ \A c \in DOMAIN blocks : blocks'[c].term = blocks[c].term \/ blocks'[c].term = "br"
    <3>1. /\ blocks' \in Seq(BlockType) /\ Len(blocks') = Len(blocks)
          /\ DOMAIN blocks' = DOMAIN blocks
      BY <1>6, <2>1, <2>2, TerminateStep
    <3>2. \A c \in DOMAIN blocks : c # cur => blocks'[c] = blocks[c]
      BY <1>6, <2>1, <2>2, TerminateFacts DEF TypeOK
    <3>3. Grown /\ blocks'[cur].term # "none"
      BY <1>6, <2>1, <2>2, TerminateStep
    <3>4. blocks[cur].term = "none" => /\ blocks'[cur].term = "br"
                                       /\ blocks'[cur].late <=> blocks[cur].late
      BY <1>6, <2>1, <2>2, TerminateStep
    <3>5. \A c \in DOMAIN blocks : blocks'[c].succs = blocks[c].succs \/ blocks'[c].succs = More
      BY <1>6, <2>1, <2>2, TerminateStep, ZenonT(40)
    <3>6. \A c \in DOMAIN blocks : blocks'[c].term = blocks[c].term \/ blocks'[c].term = "br"
      BY <1>6, <2>1, <2>2, TerminateStep, ZenonT(40)
    <3> QED
      BY <3>1, <3>2, <3>3, <3>4, <3>5, <3>6
  <2>4. Filled /\ Flags => blocks[cur].term = "none"
    BY <1>8, TopFlags DEF Filled
  <2>5. ASSUME Filled, Flags, Clean PROVE Clean'
    BY <1>6, <2>3, <2>4, <2>5 DEF Clean
  <2>6. ASSUME ReturnsFit, isVoid' = isVoid PROVE ReturnsFit'
    <3>1. \A c \in DOMAIN blocks' :
            c \in DOMAIN blocks /\ (blocks'[c].term = blocks[c].term \/ blocks'[c].term = "br")
      BY <2>3
    <3> QED
      BY <2>6, <3>1 DEF ReturnsFit
  <2>7. \A c \in DOMAIN blocks : blocks'[c].succs \subseteq DOMAIN blocks
    BY <2>2, <2>3 DEF Targets
  <2>8. \A c \in DOMAIN blocks : \A x \in blocks'[c].succs : x \in blocks[c].succs \/ x \in More
    BY <2>3
  <2> QED
    BY <1>3, <1>4, <1>5, <2>3, <2>5, <2>6, <2>7, <2>8
<1> QED
  BY <1>7, <1>8

\* The parts of the invariant that do not depend on whether there is an else branch.
LEMMA ClosedSlots ==
  ASSUME TypeOK, Layout, NEW k \in DOMAIN frames, k # Len(frames), NEW b \in Slot(Top), b # None
  PROVE  b \notin Slot(frames[k])
<1>1. Len(frames) \in DOMAIN frames
  BY FrameFacts
<1>2. Slot(frames[k]) \cap Slot(Top) \subseteq {None}
  BY <1>1 DEF Layout, Top
<1> QED
  BY <1>2

LEMMA ToElseStep ==
  ASSUME StmtInvariant, end_then, Top.false_block # None
  PROVE  StmtInvariant'
<1> DEFINE n == Len(frames)
           e == Top.exit_block
           o == Top.false_block
           g == [Top EXCEPT !.kind = "else", !.filled = FALSE,
                   !.true_terminated = Top.is_terminated,
                   !.is_terminated = FALSE, !.liveTrue = live]
           More == IF Top.is_terminated THEN {} ELSE {e}
<1>1. /\ TypeOK /\ StackShape /\ LoopLink /\ Layout /\ Targets
      /\ ~excused => Clean /\ ReturnsFit
      /\ Clean => Filled /\ Flags /\ Unreached
  BY DEF StmtInvariant, end_then
<1>2. /\ Top.kind = "then" /\ cur' = o /\ frames' = SetTop(frames, g)
      /\ blocks' = IF Top.is_terminated THEN blocks ELSE Terminate(blocks, cur, "br", {e})
      /\ live' = Top.liveBefore /\ status' = "open" /\ excused' = excused /\ isVoid' = isVoid
  BY DEF end_then
<1>3. n \in Nat /\ n >= 1 /\ DOMAIN frames = 1..n /\ Top \in FrameType /\ n \in DOMAIN frames
      /\ Top = frames[n]
  BY <1>1, FrameFacts DEF Top
<1>4. /\ g \in FrameType /\ g.kind = "else" /\ ~g.is_terminated
      /\ g.continue_block = Top.continue_block /\ g.break_block = Top.break_block
      /\ g.exit_block = e /\ g.step_block = Top.step_block
      /\ g.loop_block = Top.loop_block /\ g.false_block = o
  BY <1>1, <1>3 DEF FrameType, Kinds, TypeOK
<1>5. /\ g.liveBefore <=> Top.liveBefore
      /\ g.true_terminated <=> Top.is_terminated
      /\ g.liveTrue <=> live
  BY <1>1, <1>3 DEF FrameType, TypeOK
<1>6. Top.liveBefore \in BOOLEAN
  BY <1>3 DEF FrameType
<1>7. /\ e \in DOMAIN blocks /\ e # None /\ e # cur /\ Top.step_block = None
      /\ blocks' \in Seq(BlockType) /\ Len(blocks') = Len(blocks)
      /\ DOMAIN blocks' = DOMAIN blocks
      /\ \A c \in DOMAIN blocks : c # cur => blocks'[c] = blocks[c]
      /\ Grown
      /\ \A c \in DOMAIN blocks : blocks'[c].term = blocks[c].term \/ blocks'[c].term = "br"
      /\ \A c \in DOMAIN blocks : blocks'[c].succs \subseteq DOMAIN blocks
      /\ \A c \in DOMAIN blocks : \A x \in blocks'[c].succs : x \in blocks[c].succs \/ x \in More
      /\ Filled /\ Flags =>
           blocks'[cur].term # "none" /\ (Clean => Clean') /\ (ReturnsFit /\ isVoid' = isVoid => ReturnsFit')
  BY <1>1, <1>2, CloseBranch
<1> HIDE DEF n, g
<1>8. /\ frames' \in Seq(FrameType) /\ frames' # <<>> /\ DOMAIN frames' = DOMAIN frames
      /\ \A k \in DOMAIN frames : frames'[k] = IF k = n THEN g ELSE frames[k]
  BY <1>1, <1>2, <1>4, SetTopFacts DEF n
<1>9. Kept(n)
  <2>1. \A k \in 1..n : Akin(frames[k], frames[k])
    BY DEF Akin
  <2>2. Akin(g, frames[n])
    BY <1>2, <1>3, <1>4 DEF Akin
  <2> QED
    BY <1>3, <1>8, <2>1, <2>2 DEF Kept
<1>10. Slot(Top) = {e, None, o} /\ Slot(g) = {e, None} /\ o # e /\ o # None
  <2>1. Top.false_block # Top.exit_block
    BY <1>1, <1>2, <1>3 DEF StackShape
  <2>2. Top.false_block # None
    OBVIOUS
  <2> QED
    BY <1>2, <1>4, <1>7, <2>1, <2>2 DEF Slot
<1>11. o \in DOMAIN blocks /\ o # cur
  <2>1. o \in 0..Len(blocks) /\ o # cur
    BY <1>1, <1>3, <1>10 DEF Layout
  <2>2. Len(blocks) \in Nat /\ DOMAIN blocks = 1..Len(blocks)
    BY <1>1, BlockFacts
  <2>3. o \in 1..Len(blocks)
    BY <1>10, <2>1, <2>2 DEF None
  <2> QED
    BY <2>1, <2>2, <2>3
<1> HIDE DEF e, o, More
<1>12. TypeOK'
  <2>1. cur' \in Nat
    BY <1>1, <1>2, <1>11, BlockFacts
  <2> QED
    BY <1>1, <1>2, <1>6, <1>7, <1>8, <2>1 DEF TypeOK, Statuses
<1>13. StackShape' /\ LoopLink'
  BY <1>1, <1>3, <1>9, KeptShape, KeptLink
<1>14. \A k \in 1..n : cur' \notin Slot(frames'[k])
  BY <1>1, <1>2, <1>3, <1>8, <1>10, ClosedSlots DEF n
<1>15. Layout'
  BY <1>1, <1>2, <1>3, <1>7, <1>9, <1>11, <1>14, KeptLayout
<1>16. Targets'
  BY <1>1, <1>4, <1>7, <1>8, GrownTargets
<1>17. ASSUME ~excused' PROVE Clean' /\ ReturnsFit'
  BY <1>1, <1>2, <1>7, <1>17
<1>18. ASSUME Clean' PROVE Filled' /\ Flags' /\ Unreached'
  <2>1. Filled /\ Flags /\ Unreached
    BY <1>1, <1>7, <1>18, GrownClean
  <2>2. (live <=> ~Top.is_terminated) /\ Top.liveBefore
        /\ \A k \in 1..(n - 1) : ~frames[k].is_terminated
    BY <1>1, <1>2, <1>3, <2>1, TopFlags DEF Flags, n
  <2>3. blocks[e].term = "none" /\ blocks[o].term = "none"
    BY <1>1, <1>3, <1>7, <1>10, <1>11, <2>1 DEF Filled
  <2>4. Filled'
    <3>1. ASSUME NEW b \in DOMAIN blocks, b # o
          PROVE  blocks'[b].term = "none" <=> \E k \in DOMAIN frames' : b \in Slot(frames'[k])
      <4>1. CASE b = cur
        <5>1. \A k \in DOMAIN frames' : b \notin Slot(frames'[k])
          <6>1. \A k \in DOMAIN frames : cur \notin Slot(frames[k])
            BY <1>1 DEF Layout
          <6> QED
            BY <1>3, <1>8, <1>10, <4>1, <6>1
        <5> QED
          BY <1>7, <2>1, <4>1, <5>1
      <4>2. CASE b # cur
        <5>1. (\E k \in DOMAIN frames : b \in Slot(frames[k]))
                <=> (\E k \in DOMAIN frames' : b \in Slot(frames'[k]))
          <6>1. b \in Slot(g) <=> b \in Slot(Top)
            BY <1>10, <3>1
          <6> QED
            BY <1>3, <1>8, <6>1
        <5> QED
          BY <1>7, <2>1, <4>2, <5>1 DEF Filled
      <4> QED
        BY <4>1, <4>2
    <3>2. blocks'[o].term = "none" <=> live'
      BY <1>2, <1>7, <1>11, <2>2, <2>3
    <3> QED
      BY <1>2, <1>7, <3>1, <3>2 DEF Filled, Slot, None
  <2>5. Flags'
    <3>1. \A k \in 1..n : k \in 1..(n - 1) \/ k = n
      BY <1>3
    <3>2. \A k \in DOMAIN frames' : ~frames'[k].is_terminated
      BY <1>3, <1>4, <1>8, <2>2, <3>1
    <3>3. live'
      BY <1>2, <2>2
    <3>4. \A k \in DOMAIN frames' : \A j \in 1..(k - 1) : ~frames'[j].is_terminated
      <4>1. \A k \in DOMAIN frames' : \A j \in 1..(k - 1) : j \in DOMAIN frames'
        BY <1>3, <1>8
      <4> QED
        BY <3>2, <4>1
    <3>5. ASSUME NEW k \in DOMAIN frames'
          PROVE  /\ frames'[k].kind \in {"then", "else", "loop"} => frames'[k].liveBefore
                 /\ frames'[k].kind = "else" =>
                      (frames'[k].true_terminated <=> ~frames'[k].liveTrue)
      <4>1. CASE k = n
        BY <1>3, <1>5, <1>8, <2>2, <4>1
      <4>2. CASE k # n
        BY <1>3, <1>8, <2>1, <4>2 DEF Flags
      <4> QED
        BY <4>1, <4>2
    <3> QED
      BY <3>2, <3>3, <3>4, <3>5 DEF Flags
  <2>6. Unreached'
    <3>1. \A c \in DOMAIN blocks' : \A x \in blocks'[c].succs :
            (c \in DOMAIN blocks /\ x \in blocks[c].succs) \/ x \in More
      BY <1>7
    <3>2. More \subseteq {e}
      BY DEF More
    <3>3. \A b \in DOMAIN blocks' :
            blocks'[b].term = "unreachable" => NoWayTo(b) /\ b \notin More
      <4>1. \A b \in DOMAIN blocks' : blocks'[b].term = "unreachable" =>
              b \in DOMAIN blocks /\ blocks[b].term = "unreachable"
        BY <1>7
      <4>2. \A b \in DOMAIN blocks : blocks[b].term = "unreachable" => NoWayTo(b) /\ b # e
        BY <2>1, <2>3 DEF Unreached
      <4> QED
        BY <3>2, <4>1, <4>2
    <3>4. ASSUME NEW k \in DOMAIN frames', Sealed(frames'[k])
          PROVE  NoWayTo(frames'[k].exit_block) /\ frames'[k].exit_block \notin More
      <4>1. CASE k = n
        <5>1. frames'[k] = g
          BY <1>8, <4>1
        <5>2. Top.is_terminated
          BY <1>4, <1>5, <3>4, <5>1 DEF Sealed
        <5>3. More = {}
          BY <5>2 DEF More
        <5>4. Sealed(Top)
          BY <1>2 DEF Sealed
        <5> QED
          BY <1>3, <1>4, <2>1, <5>1, <5>3, <5>4 DEF Unreached, e
      <4>2. CASE k # n
        <5>1. frames'[k] = frames[k] /\ k \in DOMAIN frames
          BY <1>8, <4>2
        <5>2. frames[k].exit_block \in Slot(frames[k])
          BY DEF Slot
        <5>3. e \notin Slot(frames[k])
          BY <1>1, <1>7, <1>10, <4>2, <5>1, ClosedSlots DEF n
        <5> QED
          BY <2>1, <3>2, <3>4, <5>1, <5>2, <5>3 DEF Unreached
      <4> QED
        BY <4>1, <4>2
    <3> QED
      BY <3>1, <3>3, <3>4, StillUnreached
  <2> QED
    BY <2>4, <2>5, <2>6
<1> QED
  BY <1>2, <1>12, <1>13, <1>15, <1>16, <1>17, <1>18, Together

\* Out of an if that the flow can get past.
LEMMA LeaveIf ==
  ASSUME StmtInvariant, status = "open", Top.kind \in {"then", "else"},
         Top.kind = "then" => Top.false_block = None,
         blocks' = IF Top.is_terminated THEN blocks
                   ELSE Terminate(blocks, cur, "br", {Top.exit_block}),
         cur' = Top.exit_block,
         frames' \in Seq(FrameType), frames' # <<>>, PoppedWith(Len(frames), FALSE),
         status' = "open", excused' = excused, isVoid' = isVoid, live' \in BOOLEAN,
         Filled /\ Flags => live'
  PROVE  StmtInvariant'
<1> DEFINE n == Len(frames)
           e == Top.exit_block
           More == IF Top.is_terminated THEN {} ELSE {e}
<1>1. /\ TypeOK /\ StackShape /\ LoopLink /\ Layout /\ Targets
      /\ ~excused => Clean /\ ReturnsFit
      /\ Clean => Filled /\ Flags /\ Unreached
  BY DEF StmtInvariant
<1>2. n \in Nat /\ n > 1 /\ DOMAIN frames = 1..n /\ Top \in FrameType /\ n \in DOMAIN frames
      /\ Top = frames[n]
  BY <1>1, FrameFacts, HasBelow DEF Top
<1>3. /\ e \in DOMAIN blocks /\ e # None /\ e # cur /\ Top.step_block = None
      /\ blocks' \in Seq(BlockType) /\ Len(blocks') = Len(blocks)
      /\ DOMAIN blocks' = DOMAIN blocks
      /\ \A c \in DOMAIN blocks : c # cur => blocks'[c] = blocks[c]
      /\ Grown
      /\ \A c \in DOMAIN blocks : blocks'[c].term = blocks[c].term \/ blocks'[c].term = "br"
      /\ \A c \in DOMAIN blocks : blocks'[c].succs \subseteq DOMAIN blocks
      /\ \A c \in DOMAIN blocks : \A x \in blocks'[c].succs : x \in blocks[c].succs \/ x \in More
      /\ Filled /\ Flags =>
           blocks'[cur].term # "none" /\ (Clean => Clean') /\ (ReturnsFit /\ isVoid' = isVoid => ReturnsFit')
  BY <1>1, CloseBranch
<1>4. Slot(Top) = {e, None}
  BY <1>3 DEF Slot
<1>5. cur' = e /\ PoppedWith(n, FALSE)
  OBVIOUS
<1>6. More \subseteq {e}
  OBVIOUS
<1> HIDE DEF n, e, More
<1>7. TypeOK'
  <2>1. cur' \in Nat
    BY <1>1, <1>3, <1>5, BlockFacts
  <2> QED
    BY <1>1, <1>3, <2>1 DEF TypeOK, Statuses
<1>8. StackShape' /\ LoopLink' /\ Layout'
  <2>1. cur' \in Slot(Top) /\ cur' # None
    BY <1>3, <1>4, <1>5
  <2> QED
    BY <1>1, <1>2, <1>3, <1>5, <2>1, PoppedShape DEF n
<1>9. DOMAIN frames' = 1..(n - 1) /\ \A k \in 1..(n - 1) : Alike(frames'[k], frames[k])
      /\ k \in DOMAIN frames
  BY <1>2, <1>5 DEF PoppedWith
<1>10. Targets'
  BY <1>1, <1>3, <1>9, GrownTargets DEF Alike
<1>11. ASSUME ~excused' PROVE Clean' /\ ReturnsFit'
  BY <1>1, <1>3, <1>11
<1>12. ASSUME Clean' PROVE Filled' /\ Flags' /\ Unreached'
  <2>1. Filled /\ Flags /\ Unreached
    BY <1>1, <1>3, <1>12, GrownClean
  <2>2. blocks[e].term = "none"
    BY <1>2, <1>3, <1>4, <2>1 DEF Filled
  <2>3. Filled'
    <3>1. \A b \in DOMAIN blocks :
            /\ b # cur /\ b \notin Slot(Top) => blocks'[b].term = blocks[b].term
            /\ b \in Slot(Top) /\ b # cur' => blocks'[b].term # "none"
      <4>1. \A b \in DOMAIN blocks : b # None
        BY <1>1, BlockFacts DEF None
      <4> QED
        BY <1>3, <1>4, <1>5, <4>1
    <3>2. blocks'[cur'].term = "none" <=> live'
      BY <1>3, <1>5, <2>1, <2>2
    <3>3. cur' \in Slot(Top) /\ blocks'[cur].term # "none"
      BY <1>3, <1>4, <1>5, <2>1
    <3> QED
      BY <1>1, <1>2, <1>3, <1>5, <2>1, <3>1, <3>2, <3>3, PoppedFilled DEF n
  <2>4. Flags'
    <3>1. \A k \in 1..(n - 1) : ~frames[k].is_terminated
      BY <1>1, <2>1, TopFlags DEF n
    <3>2. \A k \in 1..(n - 1) : k \in 1..(n - 2) \/ k = n - 1
      BY <1>2
    <3>3. \A k \in 1..(n - 1) : ~frames'[k].is_terminated
      BY <1>5, <3>1, <3>2 DEF PoppedWith
    <3>4. live' <=> \A k \in 1..(n - 1) : ~frames'[k].is_terminated
      BY <2>1, <3>3
    <3> QED
      BY <1>1, <1>2, <1>5, <2>1, <3>4, PoppedFlags DEF n
  <2>5. Unreached'
    <3>1. \A c \in DOMAIN blocks' : \A x \in blocks'[c].succs :
            (c \in DOMAIN blocks /\ x \in blocks[c].succs) \/ x \in More
      BY <1>3
    <3>2. \A b \in DOMAIN blocks' :
            blocks'[b].term = "unreachable" => NoWayTo(b) /\ b \notin More
      <4>1. \A b \in DOMAIN blocks' : blocks'[b].term = "unreachable" =>
              b \in DOMAIN blocks /\ blocks[b].term = "unreachable"
        BY <1>3
      <4>2. \A b \in DOMAIN blocks : blocks[b].term = "unreachable" => NoWayTo(b) /\ b # e
        BY <2>1, <2>2 DEF Unreached
      <4> QED
        BY <1>6, <4>1, <4>2
    <3>3. \A k \in DOMAIN frames' :
            Sealed(frames'[k]) => NoWayTo(frames'[k].exit_block)
                                  /\ frames'[k].exit_block \notin More
      <4>1. \A k \in DOMAIN frames' :
              Sealed(frames'[k]) => NoWayTo(frames'[k].exit_block)
                                    /\ frames'[k].exit_block \notin Slot(Top)
        BY <1>1, <1>2, <1>5, <2>1, PoppedSealed DEF n
      <4> QED
        BY <1>4, <1>6, <4>1
    <3> QED
      BY <3>1, <3>2, <3>3, StillUnreached
  <2> QED
    BY <2>3, <2>4, <2>5
<1> QED
  BY <1>7, <1>8, <1>10, <1>11, <1>12, Together

LEMMA EndThenStep == StmtInvariant /\ end_then => StmtInvariant'
<1> SUFFICES ASSUME StmtInvariant, end_then PROVE StmtInvariant'
  OBVIOUS
<1>1. CASE Top.false_block # None
  BY <1>1, ToElseStep
<1>2. CASE Top.false_block = None
  <2>1. /\ status = "open" /\ Top.kind = "then" /\ cur' = Top.exit_block /\ frames' = Popped
        /\ blocks' = IF Top.is_terminated THEN blocks
                     ELSE Terminate(blocks, cur, "br", {Top.exit_block})
        /\ live' = Top.liveBefore /\ status' = "open" /\ excused' = excused /\ isVoid' = isVoid
    BY <1>2 DEF end_then
  <2>2. TypeOK /\ StackShape
    BY DEF StmtInvariant
  <2>3. Len(frames) \in Nat /\ Len(frames) > 1 /\ Top \in FrameType
        /\ Len(frames) \in DOMAIN frames
    BY <2>1, <2>2, FrameFacts, HasBelow
  <2>4. frames' \in Seq(FrameType) /\ frames' # <<>> /\ PoppedWith(Len(frames), FALSE)
    BY <2>1, <2>2, <2>3, PopOnly
  <2>5. live' \in BOOLEAN
    BY <2>1, <2>3 DEF FrameType
  <2>6. Filled /\ Flags => live'
    BY <2>1, <2>3 DEF Flags, Top
  <2> QED
    BY <1>2, <2>1, <2>4, <2>5, <2>6, LeaveIf
<1> QED
  BY <1>1, <1>2

\* Out of an if both of whose branches have jumped: its exit is unreachable.
LEMMA SealIf ==
  ASSUME StmtInvariant, end_else, Top.true_terminated, Top.is_terminated
  PROVE  StmtInvariant'
<1> DEFINE n == Len(frames)
           e == Top.exit_block
<1>1. /\ TypeOK /\ StackShape /\ LoopLink /\ Layout /\ Targets
      /\ ~excused => Clean /\ ReturnsFit
      /\ Clean => Filled /\ Flags /\ Unreached
  BY DEF StmtInvariant, end_else
<1>2. /\ Top.kind = "else" /\ cur' = e /\ blocks' = Terminate(blocks, e, "unreachable", {})
      /\ live' = (Top.liveTrue \/ live) /\ status' = "open" /\ excused' = excused
      /\ isVoid' = isVoid
  BY DEF end_else
<1>3. frames' = SetTop(Popped, [Below EXCEPT !.is_terminated = @ \/ TRUE])
  <2>1. Top.true_terminated /\ Top.is_terminated <=> TRUE
    OBVIOUS
  <2> QED
    BY <2>1 DEF end_else
<1>4. n \in Nat /\ n > 1 /\ DOMAIN frames = 1..n /\ Top \in FrameType /\ n \in DOMAIN frames
      /\ Top = frames[n]
  BY <1>1, <1>2, FrameFacts, HasBelow DEF Top
<1>5. frames' \in Seq(FrameType) /\ frames' # <<>> /\ PoppedWith(n, TRUE)
  BY <1>1, <1>3, <1>4, PopFlag
<1>6. e > 1 /\ Slot(Top) = {e, None}
  BY <1>1, <1>2, <1>4 DEF StackShape, Slot
<1>7. e \in DOMAIN blocks /\ e # None /\ e # cur
  <2>1. e \in 0..Len(blocks) /\ e # cur
    BY <1>1, <1>4, <1>6 DEF Layout
  <2>2. Len(blocks) \in Nat /\ DOMAIN blocks = 1..Len(blocks)
    BY <1>1, BlockFacts
  <2> QED
    BY <1>6, <2>1, <2>2 DEF None
<1> HIDE DEF n, e
<1>8. /\ blocks' \in Seq(BlockType) /\ Len(blocks') = Len(blocks)
      /\ DOMAIN blocks' = DOMAIN blocks
      /\ \A c \in DOMAIN blocks : c # e => blocks'[c] = blocks[c]
      /\ Grown
      /\ blocks'[e].term # "none"
      /\ blocks[e].term = "none" => (blocks'[e].late <=> blocks[e].late)
      /\ \A c \in DOMAIN blocks : blocks'[c].succs = blocks[c].succs \/ blocks'[c].succs = {}
      /\ \A c \in DOMAIN blocks : blocks'[c].term = blocks[c].term \/ blocks'[c].term = "unreachable"
  <2>1. "unreachable" \in Terms /\ "unreachable" # "none" /\ {} \in SUBSET Nat
    BY DEF Terms
  <2> QED
    BY <1>1, <1>2, <1>7, <2>1, TerminateStep
<1>9. TypeOK'
  <2>1. cur' \in Nat /\ live' \in BOOLEAN
    BY <1>1, <1>2, <1>7, BlockFacts
  <2> QED
    BY <1>1, <1>2, <1>5, <1>8, <2>1 DEF TypeOK, Statuses
<1>10. cur' \in Slot(Top) /\ cur' # None
  BY <1>2, <1>6, <1>7
<1>11. StackShape' /\ LoopLink' /\ Layout'
  BY <1>1, <1>4, <1>5, <1>8, <1>10, PoppedShape DEF n
<1>12. DOMAIN frames' = 1..(n - 1) /\ \A k \in 1..(n - 1) : Alike(frames'[k], frames[k])
      /\ k \in DOMAIN frames
  BY <1>4, <1>5 DEF PoppedWith
<1>13. Targets'
  <2>1. \A b \in DOMAIN blocks' : blocks'[b].succs \subseteq DOMAIN blocks'
    BY <1>1, <1>8 DEF Targets
  <2> QED
    BY <1>1, <1>8, <1>12, <2>1, GrownTargets DEF Alike
<1>14. Filled => blocks[e].term = "none"
  BY <1>4, <1>6, <1>7 DEF Filled
<1>15. ASSUME ~excused' PROVE Clean' /\ ReturnsFit'
  <2>1. Clean /\ ReturnsFit /\ Filled
    BY <1>1, <1>2, <1>15
  <2>2. Clean'
    BY <1>7, <1>8, <1>14, <2>1 DEF Clean
  <2>3. ReturnsFit'
    BY <1>2, <1>8, <2>1 DEF ReturnsFit
  <2> QED
    BY <2>2, <2>3
<1>16. ASSUME Clean' PROVE Filled' /\ Flags' /\ Unreached'
  <2>1. Filled /\ Flags /\ Unreached
    BY <1>1, <1>8, <1>16, GrownClean
  <2>2. ~live /\ ~Top.liveTrue /\ ~live'
    <3>1. ~live
      BY <1>1, <1>2, <2>1, TopFlags
    <3>2. ~Top.liveTrue
      BY <1>2, <1>4, <2>1 DEF Flags
    <3> QED
      BY <1>2, <3>1, <3>2
  <2>3. Filled'
    <3>1. \A b \in DOMAIN blocks :
            /\ b # cur /\ b \notin Slot(Top) => blocks'[b].term = blocks[b].term
            /\ b \in Slot(Top) /\ b # cur' => blocks'[b].term # "none"
      <4>1. \A b \in DOMAIN blocks : b # None
        BY <1>1, BlockFacts DEF None
      <4> QED
        BY <1>2, <1>6, <1>8, <4>1
    <3>2. blocks'[cur'].term = "none" <=> live'
      BY <1>2, <1>8, <2>2
    <3>3. blocks'[cur].term # "none"
      <4>1. cur \in DOMAIN blocks
        BY <1>1 DEF Layout
      <4> QED
        BY <1>7, <1>8, <2>1, <2>2, <4>1 DEF Filled
    <3> QED
      BY <1>1, <1>4, <1>5, <1>8, <1>10, <2>1, <3>1, <3>2, <3>3, PoppedFilled DEF n
  <2>4. Flags'
    <3>1. frames'[n - 1].is_terminated /\ n - 1 \in 1..(n - 1)
      BY <1>4, <1>5 DEF PoppedWith
    <3>2. live' <=> \A k \in 1..(n - 1) : ~frames'[k].is_terminated
      BY <2>2, <3>1
    <3> QED
      BY <1>1, <1>4, <1>5, <2>1, <3>2, PoppedFlags DEF n
  <2>5. Unreached'
    <3> DEFINE More == {}
    <3>1. \A c \in DOMAIN blocks' : \A x \in blocks'[c].succs :
            (c \in DOMAIN blocks /\ x \in blocks[c].succs) \/ x \in More
      BY <1>8
    <3>2. \A b \in DOMAIN blocks' :
            blocks'[b].term = "unreachable" => NoWayTo(b) /\ b \notin More
      <4>1. NoWayTo(e)
        BY <1>2, <1>4, <2>1 DEF Unreached, Sealed, e
      <4> QED
        BY <1>8, <2>1, <4>1 DEF Unreached
    <3>3. \A k \in DOMAIN frames' :
            Sealed(frames'[k]) => NoWayTo(frames'[k].exit_block)
                                  /\ frames'[k].exit_block \notin More
      BY <1>1, <1>4, <1>5, <2>1, PoppedSealed DEF n
    <3> HIDE DEF More
    <3> QED
      BY <3>1, <3>2, <3>3, StillUnreached
  <2> QED
    BY <2>3, <2>4, <2>5
<1> QED
  BY <1>2, <1>9, <1>11, <1>13, <1>15, <1>16, Together

LEMMA EndElseStep == StmtInvariant /\ end_else => StmtInvariant'
<1> SUFFICES ASSUME StmtInvariant, end_else PROVE StmtInvariant'
  OBVIOUS
<1>1. CASE Top.true_terminated /\ Top.is_terminated
  BY <1>1, SealIf
<1>2. CASE ~(Top.true_terminated /\ Top.is_terminated)
  <2>1. /\ status = "open" /\ Top.kind = "else" /\ cur' = Top.exit_block
        /\ blocks' = IF Top.is_terminated THEN blocks
                     ELSE Terminate(blocks, cur, "br", {Top.exit_block})
        /\ live' = (Top.liveTrue \/ live) /\ status' = "open" /\ excused' = excused
        /\ isVoid' = isVoid
    BY <1>2 DEF end_else
  <2>2. frames' = SetTop(Popped, [Below EXCEPT !.is_terminated = @ \/ FALSE])
    <3>1. Top.true_terminated /\ Top.is_terminated <=> FALSE
      BY <1>2
    <3> QED
      BY <3>1 DEF end_else
  <2>3. TypeOK /\ StackShape
    BY DEF StmtInvariant
  <2>4. Len(frames) \in Nat /\ Len(frames) > 1 /\ Top \in FrameType
        /\ Len(frames) \in DOMAIN frames
    BY <2>1, <2>3, FrameFacts, HasBelow
  <2>5. frames' \in Seq(FrameType) /\ frames' # <<>> /\ PoppedWith(Len(frames), FALSE)
    BY <2>2, <2>3, <2>4, PopFlag
  <2>6. live' \in BOOLEAN
    BY <2>1
  <2>7. ASSUME Filled, Flags PROVE live'
    <3>1. live <=> ~Top.is_terminated
      BY <2>1, <2>3, <2>7, TopFlags
    <3>2. Top.true_terminated <=> ~Top.liveTrue
      BY <2>1, <2>4, <2>7 DEF Flags, Top
    <3> QED
      BY <1>2, <2>1, <3>1, <3>2
  <2> QED
    BY <2>1, <2>5, <2>6, <2>7, LeaveIf
<1> QED
  BY <1>1, <1>2

LEMMA TwoTerminators ==
  ASSUME NEW bs \in Seq(BlockType), NEW d \in DOMAIN bs, NEW e \in DOMAIN bs, d # e,
         NEW ss \in SUBSET Nat, NEW tt \in SUBSET Nat,
         NEW r, r = Terminate(Terminate(bs, d, "br", ss), e, "br", tt)
  PROVE  /\ r \in Seq(BlockType) /\ Len(r) = Len(bs) /\ DOMAIN r = DOMAIN bs
         /\ \A c \in DOMAIN bs : c # d /\ c # e => r[c] = bs[c]
         /\ \A c \in DOMAIN bs : bs[c].late => r[c].late
         /\ \A c \in DOMAIN bs : bs[c].term # "none" =>
              r[c].term = bs[c].term /\ r[c].succs = bs[c].succs
         /\ bs[d].term # "none" => r[d].late
         /\ bs[d].term = "none" => r[d].term = "br" /\ r[d].succs = ss
                                   /\ (r[d].late <=> bs[d].late)
         /\ bs[e].term = "none" => r[e].term = "br" /\ r[e].succs = tt
                                   /\ (r[e].late <=> bs[e].late)
<1> DEFINE q == Terminate(bs, d, "br", ss)
<1>1. "br" \in Terms
  BY DEF Terms
<1> HIDE DEF q
<1>2. q \in Seq(BlockType) /\ Len(q) = Len(bs) /\ DOMAIN q = DOMAIN bs
      /\ \A c \in DOMAIN bs : c # d => q[c] = bs[c]
  BY <1>1, TerminateFacts DEF q
<1>3. \A c \in DOMAIN bs : bs[c].late => q[c].late
  BY <1>1, TerminateFacts DEF q
<1>4. bs[d].term = "none" => q[d].term = "br" /\ q[d].succs = ss /\ (q[d].late <=> bs[d].late)
  BY <1>1, TerminateFacts DEF q
<1>5. bs[d].term # "none" =>
        q[d].term = bs[d].term /\ q[d].succs = bs[d].succs /\ q[d].late
  BY <1>1, TerminateFacts DEF q
<1>6. r = Terminate(q, e, "br", tt)
  BY DEF q
<1>7. r \in Seq(BlockType) /\ Len(r) = Len(q) /\ DOMAIN r = DOMAIN q
      /\ \A c \in DOMAIN q : c # e => r[c] = q[c]
  BY <1>1, <1>2, <1>6, TerminateFacts
<1>8. \A c \in DOMAIN q : q[c].late => r[c].late
  BY <1>1, <1>2, <1>6, TerminateFacts
<1>9. q[e].term = "none" => r[e].term = "br" /\ r[e].succs = tt /\ (r[e].late <=> q[e].late)
  BY <1>1, <1>2, <1>6, TerminateFacts
<1>10. q[e].term # "none" => r[e].term = q[e].term /\ r[e].succs = q[e].succs /\ r[e].late
  BY <1>1, <1>2, <1>6, TerminateFacts
<1>11. r \in Seq(BlockType) /\ Len(r) = Len(bs) /\ DOMAIN r = DOMAIN bs
  BY <1>2, <1>7
<1>12. \A c \in DOMAIN bs : c # d /\ c # e => r[c] = bs[c]
  BY <1>2, <1>7
<1>13. \A c \in DOMAIN bs : bs[c].late => r[c].late
  BY <1>2, <1>3, <1>8
<1>14. \A c \in DOMAIN bs : bs[c].term # "none" =>
         r[c].term = bs[c].term /\ r[c].succs = bs[c].succs
  BY <1>2, <1>5, <1>7, <1>10
<1>15. r[d] = q[d] /\ q[e] = bs[e]
  BY <1>2, <1>7
<1>16. bs[d].term # "none" => r[d].late
  BY <1>5, <1>15
<1>17. bs[d].term = "none" => r[d].term = "br" /\ r[d].succs = ss /\ (r[d].late <=> bs[d].late)
  BY <1>4, <1>15
<1>18. bs[e].term = "none" => r[e].term = "br" /\ r[e].succs = tt /\ (r[e].late <=> bs[e].late)
  BY <1>9, <1>15
<1> QED
  BY <1>11, <1>12, <1>13, <1>14, <1>16, <1>17, <1>18

LEMMA EndForStep == StmtInvariant /\ end_for => StmtInvariant'
<1> SUFFICES ASSUME StmtInvariant, end_for PROVE StmtInvariant'
  OBVIOUS
<1> DEFINE n == Len(frames)
           e == Top.exit_block
           s == Top.step_block
           l == Top.loop_block
           ss == {s}
           tt == {l}
<1>1. /\ TypeOK /\ StackShape /\ LoopLink /\ Layout /\ Targets
      /\ ~excused => Clean /\ ReturnsFit
      /\ Clean => Filled /\ Flags /\ Unreached
  BY DEF StmtInvariant, end_for
<1>2. /\ Top.kind = "loop" /\ cur' = e /\ frames' = Popped
      /\ blocks' = Terminate(Terminate(blocks, cur, "br", ss), s, "br", tt)
      /\ live' = Top.liveBefore /\ status' = "open" /\ excused' = (excused \/ ~live)
      /\ isVoid' = isVoid
  BY DEF end_for
<1>3. n \in Nat /\ n > 1 /\ DOMAIN frames = 1..n /\ Top \in FrameType /\ n \in DOMAIN frames
      /\ Top = frames[n]
  BY <1>1, <1>2, FrameFacts, HasBelow DEF Top
<1>4. frames' \in Seq(FrameType) /\ frames' # <<>> /\ PoppedWith(n, FALSE)
  BY <1>1, <1>2, <1>3, PopOnly
<1>5. e > 1 /\ s # None /\ s # e /\ Slot(Top) = {e, s}
  BY <1>1, <1>2, <1>3 DEF StackShape, Slot
<1>6. e \in DOMAIN blocks /\ e # None /\ e # cur /\ s \in DOMAIN blocks /\ s # cur
      /\ cur \in DOMAIN blocks
  <2>1. e \in 0..Len(blocks) /\ e # cur /\ s \in 0..Len(blocks) /\ s # cur
        /\ cur \in DOMAIN blocks
    BY <1>1, <1>3, <1>5 DEF Layout
  <2>2. Len(blocks) \in Nat /\ DOMAIN blocks = 1..Len(blocks)
    BY <1>1, BlockFacts
  <2> QED
    BY <1>5, <2>1, <2>2 DEF None
<1>7. l \in DOMAIN blocks /\ blocks[l].term = "br"
  BY <1>1, <1>2, <1>3 DEF Targets
<1>8. ss \in SUBSET Nat /\ tt \in SUBSET Nat
  BY <1>3 DEF FrameType
<1>9. ss \cup tt \subseteq DOMAIN blocks
  BY <1>6, <1>7
<1>10. \A x \in ss \cup tt : x = s \/ x = l
  OBVIOUS
<1> HIDE DEF n, e, s, l, ss, tt
<1>11. blocks' \in Seq(BlockType) /\ Len(blocks') = Len(blocks) /\ DOMAIN blocks' = DOMAIN blocks
       /\ \A c \in DOMAIN blocks : c # cur /\ c # s => blocks'[c] = blocks[c]
  BY <1>1, <1>2, <1>6, <1>8, TwoTerminators DEF TypeOK
<1>12. Grown
  <2>1. \A c \in DOMAIN blocks : blocks[c].late => blocks'[c].late
    BY <1>1, <1>2, <1>6, <1>8, TwoTerminators DEF TypeOK
  <2>2. \A c \in DOMAIN blocks : blocks[c].term # "none" =>
          blocks'[c].term = blocks[c].term /\ blocks'[c].succs = blocks[c].succs
    BY <1>1, <1>2, <1>6, <1>8, TwoTerminators DEF TypeOK
  <2> QED
    BY <1>11, <2>1, <2>2 DEF Grown
<1>13. blocks[cur].term # "none" => blocks'[cur].late
  BY <1>1, <1>2, <1>6, <1>8, TwoTerminators DEF TypeOK
<1>14. blocks[cur].term = "none" => blocks'[cur].term = "br" /\ blocks'[cur].succs = ss
                                    /\ (blocks'[cur].late <=> blocks[cur].late)
  BY <1>1, <1>2, <1>6, <1>8, TwoTerminators DEF TypeOK
<1>15. blocks[s].term = "none" => blocks'[s].term = "br" /\ blocks'[s].succs = tt
                                  /\ (blocks'[s].late <=> blocks[s].late)
  BY <1>1, <1>2, <1>6, <1>8, TwoTerminators DEF TypeOK
<1>16. \A c \in DOMAIN blocks :
         /\ blocks'[c].succs = blocks[c].succs \/ blocks'[c].succs = ss \/ blocks'[c].succs = tt
         /\ blocks'[c].term = blocks[c].term \/ blocks'[c].term = "br"
  <2> SUFFICES ASSUME NEW c \in DOMAIN blocks
               PROVE  /\ \/ blocks'[c].succs = blocks[c].succs
                         \/ blocks'[c].succs = ss \/ blocks'[c].succs = tt
                      /\ blocks'[c].term = blocks[c].term \/ blocks'[c].term = "br"
    OBVIOUS
  <2>1. CASE c # cur /\ c # s
    BY <1>11, <2>1
  <2>2. CASE blocks[c].term # "none"
    BY <1>12, <2>2 DEF Grown
  <2>3. CASE (c = cur \/ c = s) /\ blocks[c].term = "none"
    BY <1>14, <1>15, <2>3
  <2> QED
    BY <2>1, <2>2, <2>3
<1>17. TypeOK'
  <2>1. cur' \in Nat
    BY <1>1, <1>2, <1>6, BlockFacts
  <2>2. excused' \in BOOLEAN
    BY <1>2
  <2>3. live' \in BOOLEAN
    BY <1>2, <1>3 DEF FrameType
  <2> QED
    BY <1>1, <1>2, <1>4, <1>11, <2>1, <2>2, <2>3 DEF TypeOK, Statuses
<1>18. cur' \in Slot(Top) /\ cur' # None
  BY <1>2, <1>5, <1>6
<1>19. StackShape' /\ LoopLink' /\ Layout'
  BY <1>1, <1>3, <1>4, <1>11, <1>18, PoppedShape DEF n
<1>20. DOMAIN frames' = 1..(n - 1) /\ \A k \in 1..(n - 1) : Alike(frames'[k], frames[k])
       /\ k \in DOMAIN frames
  BY <1>3, <1>4 DEF PoppedWith
<1>21. Targets'
  <2>1. \A b \in DOMAIN blocks' : blocks'[b].succs \subseteq DOMAIN blocks'
    BY <1>1, <1>9, <1>11, <1>16 DEF Targets
  <2> QED
    BY <1>1, <1>12, <1>20, <2>1, GrownTargets DEF Alike
<1>22. Filled => blocks[s].term = "none" /\ blocks[e].term = "none"
  BY <1>3, <1>5, <1>6 DEF Filled
<1>23. ASSUME ~excused' PROVE Clean' /\ ReturnsFit'
  <2>1. Clean /\ ReturnsFit /\ Filled /\ live
    BY <1>1, <1>2, <1>23
  <2>2. blocks[cur].term = "none" /\ blocks[s].term = "none"
    BY <1>22, <2>1 DEF Filled
  <2>3. \A c \in DOMAIN blocks : blocks'[c].late <=> blocks[c].late
    BY <1>11, <1>14, <1>15, <2>2
  <2>4. Clean'
    BY <1>11, <2>1, <2>3 DEF Clean
  <2>5. ReturnsFit'
    BY <1>2, <1>11, <1>16, <2>1 DEF ReturnsFit
  <2> QED
    BY <2>4, <2>5
<1>24. ASSUME Clean' PROVE Filled' /\ Flags' /\ Unreached'
  <2>1. Filled /\ Flags /\ Unreached
    BY <1>1, <1>12, <1>24, GrownClean
  <2>2. Top.liveBefore
    BY <1>2, <1>3, <2>1 DEF Flags
  <2>3. blocks[cur].term = "none"
    BY <1>6, <1>11, <1>13, <1>24 DEF Clean
  <2>4. Filled'
    <3>1. \A b \in DOMAIN blocks :
            /\ b # cur /\ b \notin Slot(Top) => blocks'[b].term = blocks[b].term
            /\ b \in Slot(Top) /\ b # cur' => blocks'[b].term # "none"
      BY <1>2, <1>5, <1>11, <1>15, <1>22, <2>1
    <3>2. blocks'[cur'].term = "none" <=> live'
      BY <1>2, <1>5, <1>6, <1>11, <1>22, <2>1, <2>2
    <3>3. blocks'[cur].term # "none"
      BY <1>14, <2>3
    <3> QED
      BY <1>1, <1>3, <1>4, <1>11, <1>18, <2>1, <3>1, <3>2, <3>3, PoppedFilled DEF n
  <2>5. Flags'
    <3>1. \A k \in 1..(n - 1) : ~frames[k].is_terminated
      BY <1>1, <1>2, <2>1, TopFlags DEF n
    <3>2. \A k \in 1..(n - 1) : k \in 1..(n - 2) \/ k = n - 1
      BY <1>3
    <3>3. \A k \in 1..(n - 1) : ~frames'[k].is_terminated
      BY <1>4, <3>1, <3>2 DEF PoppedWith
    <3>4. live' <=> \A k \in 1..(n - 1) : ~frames'[k].is_terminated
      BY <1>2, <2>2, <3>3
    <3> QED
      BY <1>1, <1>3, <1>4, <2>1, <3>4, PoppedFlags DEF n
  <2>6. Unreached'
    <3> DEFINE More == ss \cup tt
    <3>1. \A c \in DOMAIN blocks' : \A x \in blocks'[c].succs :
            (c \in DOMAIN blocks /\ x \in blocks[c].succs) \/ x \in More
      BY <1>11, <1>16
    <3>2. \A b \in DOMAIN blocks' :
            blocks'[b].term = "unreachable" => NoWayTo(b) /\ b \notin More
      <4>1. \A b \in DOMAIN blocks' : blocks'[b].term = "unreachable" =>
              b \in DOMAIN blocks /\ blocks[b].term = "unreachable"
        BY <1>11, <1>16
      <4>2. \A b \in DOMAIN blocks : blocks[b].term = "unreachable" => b # s /\ b # l
        BY <1>7, <1>22, <2>1
      <4> QED
        BY <1>10, <2>1, <4>1, <4>2 DEF Unreached
    <3>3. ASSUME NEW k \in DOMAIN frames', Sealed(frames'[k])
          PROVE  NoWayTo(frames'[k].exit_block) /\ frames'[k].exit_block \notin More
      <4>1. /\ NoWayTo(frames'[k].exit_block)
            /\ frames'[k].exit_block \notin Slot(Top)
            /\ \E j \in DOMAIN frames : frames'[k].exit_block \in Slot(frames[j])
        BY <1>1, <1>3, <1>4, <2>1, <3>3, PoppedSealed DEF n
      <4>2. l = cur \/ blocks[l].term # "none"
        BY <1>7
      <4>3. frames'[k].exit_block # l
        <5>1. \A j \in DOMAIN frames : cur \notin Slot(frames[j])
          BY <1>1 DEF Layout
        <5>2. \A j \in DOMAIN frames : l \notin Slot(frames[j])
          BY <1>7, <2>1, <5>1 DEF Filled
        <5> QED
          BY <4>1, <5>2
      <4> QED
        BY <1>5, <1>10, <4>1, <4>3
    <3> HIDE DEF More
    <3> QED
      BY <3>1, <3>2, <3>3, StillUnreached
  <2> QED
    BY <2>4, <2>5, <2>6
<1> QED
  BY <1>2, <1>17, <1>19, <1>21, <1>23, <1>24, Together

\* An if or a loop is begun with the frame g: the current block, of m, branches to blocks
\* that are added, up to l, and the flow goes on in one of those.
Begins(g, m, l) ==
  /\ m = Len(blocks) /\ l = Len(blocks') /\ m < l
  /\ blocks' \in Seq(BlockType) /\ DOMAIN blocks' = 1..l
  /\ g.kind \in {"then", "loop"} /\ ~g.is_terminated /\ g.liveBefore = live
  /\ g.exit_block \in (m + 1)..l
  /\ g.kind = "then" => /\ g.continue_block = Top.continue_block
                        /\ g.break_block = Top.break_block
                        /\ g.step_block = None /\ g.false_block # g.exit_block
                        /\ g.false_block \in {None} \cup ((m + 1)..l)
  /\ g.kind = "loop" => /\ g.continue_block = g.step_block
                        /\ g.break_block = g.exit_block
                        /\ g.step_block \in (m + 1)..l /\ g.step_block # g.exit_block
                        /\ g.loop_block \in (m + 1)..l
                        /\ blocks'[g.loop_block].term = "br"
  /\ cur' \in (m + 1)..l /\ cur' \notin Slot(g)
  /\ \A b \in 1..m : b # cur => blocks'[b] = blocks[b]
  /\ blocks[cur].late => blocks'[cur].late
  /\ blocks[cur].term = "none" => /\ blocks'[cur].term = "br"
                                  /\ blocks'[cur].late <=> blocks[cur].late
  /\ blocks[cur].term # "none" => /\ blocks'[cur].term = blocks[cur].term
                                  /\ blocks'[cur].succs = blocks[cur].succs
                                  /\ blocks'[cur].late
  /\ \A x \in blocks'[cur].succs : x \in blocks[cur].succs \/ x \in (m + 1)..l
  /\ \A b \in (m + 1)..l : /\ ~blocks'[b].late /\ blocks'[b].term \in {"none", "br"}
                           /\ blocks'[b].succs \subseteq (m + 1)..l
                           /\ blocks'[b].term = "none" <=> b = cur' \/ b \in Slot(g)
                           /\ Sealed(g) => g.exit_block \notin blocks'[b].succs
  /\ Sealed(g) /\ blocks[cur].term = "none" => g.exit_block \notin blocks'[cur].succs

LEMMA BeginStep ==
  ASSUME StmtInvariant, status = "open", status' = "open", live' = live, isVoid' = isVoid,
         excused' = (excused \/ ~live),
         NEW g \in FrameType, frames' = Append(Begun, g),
         NEW m \in Nat, NEW l \in Nat, Begins(g, m, l)
  PROVE  StmtInvariant'
<1> USE DEF Begins
<1> DEFINE n == Len(frames)
<1>1. /\ TypeOK /\ StackShape /\ LoopLink /\ Layout /\ Targets
      /\ ~excused => Clean /\ ReturnsFit
      /\ Clean => Filled /\ Flags /\ Unreached
  BY DEF StmtInvariant
<1>2. n \in Nat /\ n >= 1 /\ DOMAIN frames = 1..n /\ Top = frames[n]
  BY <1>1, FrameFacts DEF Top
<1>3. DOMAIN blocks = 1..m /\ cur \in 1..m
  BY <1>1, BlockFacts DEF Layout
<1> HIDE DEF n
<1>4. /\ frames' \in Seq(FrameType) /\ frames' # <<>>
      /\ Pushed(n) /\ frames'[n + 1] = g
      /\ \A k \in 1..n : frames'[k].is_terminated <=> frames[k].is_terminated
  BY <1>1, <1>2, PushFacts DEF n
<1>5. \A b \in 1..l : b \in 1..m \/ b \in (m + 1)..l
  OBVIOUS
<1>6. (\A b \in 1..m : b \in 1..l) /\ (\A b \in (m + 1)..l : b \in 1..l /\ b \notin 1..m)
  OBVIOUS
<1>7. TypeOK'
  <2>1. excused' \in BOOLEAN /\ cur' \in Nat
    OBVIOUS
  <2> QED
    BY <1>1, <1>4, <2>1 DEF TypeOK
<1>8. /\ g.exit_block > 1 /\ (g.kind = "loop" => g.step_block # None)
      /\ Slot(g) \subseteq {None} \cup ((m + 1)..l)
  <2>1. \A x \in (m + 1)..l : x # 0
    OBVIOUS
  <2>2. g.exit_block > 1
    BY <1>3
  <2> QED
    BY <2>1, <2>2 DEF None, Slot
<1>9. StackShape'
  BY <1>1, <1>2, <1>4, <1>8, PushedShape
<1>10. LoopLink'
  <2>1. \/ /\ g.kind # "loop" /\ g.continue_block = frames[n].continue_block
           /\ g.break_block = frames[n].break_block
        \/ g.kind = "loop" /\ g.continue_block = g.step_block /\ g.break_block = g.exit_block
    BY <1>2
  <2> HIDE DEF Begins
  <2>2. LoopLink /\ DOMAIN frames' = 1..(n + 1) /\ \A k \in 1..n : Alike(frames'[k], frames[k])
    BY <1>1, <1>4 DEF Pushed
  <2>3. frames'[n + 1] = g
    BY <1>4
  <2>4. \/ /\ frames'[n + 1].kind # "loop"
           /\ frames'[n + 1].continue_block = frames[n].continue_block
           /\ frames'[n + 1].break_block = frames[n].break_block
        \/ /\ frames'[n + 1].kind = "loop"
           /\ frames'[n + 1].continue_block = frames'[n + 1].step_block
           /\ frames'[n + 1].break_block = frames'[n + 1].exit_block
    BY <2>1, <2>3
  <2> QED
    BY <1>2, <2>2, <2>4, LinkPushed
<1>11. Layout'
  <2>1. m <= l
    OBVIOUS
  <2> QED
    BY <1>1, <1>2, <1>3, <1>4, <1>8, <2>1, PushedLayout
<1>12. Grown
  <2>1. \A b \in 1..m : /\ blocks[b].late => blocks'[b].late
                        /\ blocks[b].term # "none" => blocks'[b].term = blocks[b].term
                                                      /\ blocks'[b].succs = blocks[b].succs
    <3> SUFFICES ASSUME NEW b \in 1..m
                 PROVE  /\ blocks[b].late => blocks'[b].late
                        /\ blocks[b].term # "none" => blocks'[b].term = blocks[b].term
                                                      /\ blocks'[b].succs = blocks[b].succs
      OBVIOUS
    <3>1. CASE b = cur
      BY <3>1
    <3>2. CASE b # cur
      BY <3>2
    <3> QED
      BY <3>1, <3>2
  <2> QED
    BY <1>3, <1>6, <2>1 DEF Grown
<1>13. Targets'
  <2>1. \A b \in DOMAIN blocks' : blocks'[b].succs \subseteq DOMAIN blocks'
    <3>1. \A b \in 1..m : \A x \in blocks[b].succs : x \in 1..l
      BY <1>1, <1>3, <1>6 DEF Targets
    <3>2. \A b \in 1..m : \A x \in blocks'[b].succs : x \in 1..l
      BY <1>6, <3>1
    <3>3. \A b \in (m + 1)..l : \A x \in blocks'[b].succs : x \in 1..l
      BY <1>6
    <3> QED
      BY <1>5, <3>2, <3>3
  <2>2. \A k \in DOMAIN frames' : k \in 1..n \/ k = n + 1
    BY <1>2, <1>4 DEF Pushed
  <2>3. \A k \in 1..n : k \in DOMAIN frames /\ Alike(frames'[k], frames[k])
    BY <1>4 DEF Pushed
  <2>4. g.kind = "loop" => g.loop_block \in DOMAIN blocks' /\ blocks'[g.loop_block].term = "br"
    BY <1>6
  <2>5. \A k \in DOMAIN frames' : frames'[k].kind = "loop" =>
           \/ /\ k \in DOMAIN frames /\ frames[k].kind = "loop"
              /\ frames'[k].loop_block = frames[k].loop_block
           \/ /\ frames'[k].loop_block \in DOMAIN blocks'
              /\ blocks'[frames'[k].loop_block].term = "br"
    BY <1>4, <2>2, <2>3, <2>4 DEF Alike
  <2> QED
    BY <1>1, <1>12, <2>1, <2>5, GrownTargets
<1>14. ASSUME ~excused' PROVE Clean' /\ ReturnsFit'
  <2>1. Clean /\ ReturnsFit /\ live
    BY <1>1, <1>14
  <2>2. blocks[cur].term = "none"
    BY <1>1, <2>1 DEF Filled
  <2>3. \A b \in 1..l : ~blocks'[b].late
    BY <1>3, <1>5, <2>1, <2>2 DEF Clean
  <2>4. \A b \in 1..l : \/ b \in 1..m /\ blocks'[b].term = blocks[b].term
                        \/ blocks'[b].term \in {"none", "br"}
    BY <1>5, <2>2
  <2>5. Clean'
    BY <2>3 DEF Clean
  <2>6. ReturnsFit'
    BY <1>3, <2>1, <2>4 DEF ReturnsFit
  <2> QED
    BY <2>5, <2>6
<1>15. ASSUME Clean' PROVE Filled' /\ Flags' /\ Unreached'
  <2>1. Filled /\ Flags /\ Unreached
    BY <1>1, <1>12, <1>15, GrownClean
  <2>2. blocks[cur].term = "none" /\ live
    <3>1. ~blocks'[cur].late
      BY <1>3, <1>6, <1>15 DEF Clean
    <3> QED
      BY <2>1, <3>1 DEF Filled
  <2>3. Filled'
    <3>1. \A b \in 1..m : b # cur => blocks'[b].term = blocks[b].term
      OBVIOUS
    <3>2. \A b \in (m + 1)..l :
            blocks'[b].term = "none" <=> b = cur' \/ b \in Slot(frames'[n + 1])
      BY <1>4
    <3>3. blocks'[cur].term # "none" /\ live'
          /\ Slot(frames'[n + 1]) \subseteq {None} \cup ((m + 1)..l)
      BY <1>4, <1>8, <2>2
    <3>4. cur' \in (m + 1)..l /\ m = Len(blocks) /\ DOMAIN blocks' = 1..l
      OBVIOUS
    <3> HIDE DEF Begins
    <3> QED
      BY <1>1, <1>2, <1>3, <1>4, <2>1, <3>1, <3>2, <3>3, <3>4, PushedFilled
  <2>4. Flags'
    BY <1>2, <1>4, <2>1, <2>2, PushedFlags
  <2>5. Unreached'
    <3>1. ASSUME NEW b \in 1..m, NoWayTo(b)
          PROVE  b # 1 /\ \A c \in DOMAIN blocks' : b \notin blocks'[c].succs
      <4>1. \A c \in 1..m : b \notin blocks'[c].succs
        BY <1>3, <1>6, <3>1 DEF NoWayTo
      <4>2. \A c \in (m + 1)..l : b \notin blocks'[c].succs
        BY <1>6
      <4> QED
        BY <1>5, <3>1, <4>1, <4>2 DEF NoWayTo
    <3>2. ASSUME NEW b \in DOMAIN blocks', blocks'[b].term = "unreachable"
          PROVE  b # 1 /\ \A c \in DOMAIN blocks' : b \notin blocks'[c].succs
      <4>1. b \in 1..m /\ b # cur
        BY <1>5, <2>2, <3>2
      <4>2. NoWayTo(b)
        BY <1>3, <2>1, <3>2, <4>1 DEF Unreached
      <4> QED
        BY <3>1, <4>1, <4>2
    <3>3. ASSUME NEW k \in DOMAIN frames', Sealed(frames'[k])
          PROVE  /\ frames'[k].exit_block # 1
                 /\ \A c \in DOMAIN blocks' : frames'[k].exit_block \notin blocks'[c].succs
      <4>1. k \in 1..n \/ k = n + 1
        BY <1>2, <1>4 DEF Pushed
      <4>2. CASE k = n + 1
        <5>1. \A c \in 1..m : c # cur => g.exit_block \notin blocks'[c].succs
          BY <1>1, <1>3, <1>6, SMTT(30) DEF Targets
        <5>2. \A c \in 1..l : g.exit_block \notin blocks'[c].succs
          BY <1>4, <1>5, <2>2, <3>3, <4>2, <5>1
        <5>3. g.exit_block # 1
          BY <1>8
        <5> QED
          BY <1>4, <4>2, <5>2, <5>3
      <4>3. CASE k \in 1..n
        <5>1. k \in DOMAIN frames /\ Sealed(frames[k])
              /\ frames'[k].exit_block = frames[k].exit_block
          <6> HIDE DEF Begins
          <6>1. k \in DOMAIN frames /\ Alike(frames'[k], frames[k])
            BY <1>4, <4>3 DEF Pushed
          <6> QED
            BY <3>3, <6>1, AlikeSealed
        <5>2. NoWayTo(frames[k].exit_block)
          BY <2>1, <5>1 DEF Unreached
        <5>3. frames[k].exit_block > 1
          BY <1>1, <5>1 DEF StackShape, Sealed
        <5>4. frames[k].exit_block \in 0..m
          BY <1>1, <5>1 DEF Layout, Slot
        <5>5. frames[k].exit_block \in 1..m
          BY <5>3, <5>4
        <5> QED
          BY <3>1, <5>1, <5>2, <5>5
      <4> QED
        BY <4>1, <4>2, <4>3
    <3> QED
      BY <3>2, <3>3 DEF Unreached, NoWayTo, Sealed, None
  <2> QED
    BY <2>3, <2>4, <2>5
<1> QED
  BY <1>7, <1>9, <1>10, <1>11, <1>13, <1>14, <1>15, Together

LEMMA IfStep ==
  ASSUME StmtInvariant, NEW hasElse \in BOOLEAN, codegen_if(hasElse)
  PROVE  StmtInvariant'
<1> DEFINE m == Len(blocks)
           l == IF hasElse THEN m + 3 ELSE m + 2
           o == IF hasElse THEN m + 2 ELSE None
           ss == {m + 1, IF hasElse THEN o ELSE l}
           bs == AppendBlocks(blocks, l - m)
           g == Frame("then", l, None, None, o)
<1>1. /\ TypeOK /\ status = "open" /\ status' = "open" /\ live' = live /\ isVoid' = isVoid
      /\ excused' = (excused \/ ~live) /\ Layout
  BY DEF StmtInvariant, codegen_if, Room, StartStatement
<1>2. /\ blocks' = Terminate(bs, cur, "br", ss) /\ cur' = m + 1 /\ frames' = Append(Begun, g)
  BY DEF codegen_if
<1>3. m \in Nat /\ DOMAIN blocks = 1..m /\ blocks \in Seq(BlockType) /\ cur \in 1..m
  BY <1>1, BlockFacts DEF Layout
<1>4. /\ l \in Nat /\ l - m \in Nat /\ m + (l - m) = l /\ m + 2 <= l /\ m < l
      /\ o \in {None} \cup ((m + 1)..l) /\ o # l /\ o # m + 1 /\ o \in Nat
      /\ l \in (m + 1)..l /\ m + 1 \in (m + 1)..l /\ l # m + 1
  BY <1>3 DEF None
<1>5. /\ ss \in SUBSET Nat /\ ss \subseteq (m + 1)..l
      /\ o # None => l \notin ss
  BY <1>3 DEF None
<1>6. \A b \in (m + 1)..l : b = m + 1 \/ b = l \/ b = o
  BY <1>3 DEF None
<1>7. /\ g \in FrameType /\ g.kind = "then" /\ ~g.is_terminated
      /\ g.exit_block = l /\ g.step_block = None /\ g.false_block = o
      /\ g.continue_block = Top.continue_block /\ g.break_block = Top.break_block
      /\ g.liveBefore = live
  <2>1. Top \in FrameType /\ live \in BOOLEAN
    BY <1>1, FrameFacts DEF TypeOK
  <2> HIDE DEF l, o
  <2> QED
    BY <1>4, <2>1 DEF Frame, FrameType, Kinds, None
<1> HIDE DEF m, l, o, ss, bs, g
<1>8. /\ bs \in Seq(BlockType) /\ Len(bs) = l /\ DOMAIN bs = 1..l
      /\ \A c \in 1..m : bs[c] = blocks[c]
      /\ \A c \in (m + 1)..l : bs[c] = Fresh
  BY <1>3, <1>4, AppendFacts DEF bs, m
<1>9. Fresh.term = "none" /\ Fresh.succs = {} /\ Fresh.late = FALSE
  BY DEF Fresh
<1>10. cur \in DOMAIN bs /\ bs[cur] = blocks[cur] /\ "br" \in Terms
       /\ \A c \in 1..m : c \in DOMAIN bs
  BY <1>3, <1>4, <1>8 DEF Terms
<1>11. blocks' \in Seq(BlockType) /\ Len(blocks') = l /\ DOMAIN blocks' = 1..l
       /\ \A c \in DOMAIN bs : c # cur => blocks'[c] = bs[c]
  BY <1>2, <1>5, <1>8, <1>10, TerminateFacts
<1>12. blocks[cur].late => blocks'[cur].late
  BY <1>2, <1>5, <1>8, <1>10, TerminateFacts
<1>13. blocks[cur].term = "none" => blocks'[cur].term = "br" /\ blocks'[cur].succs = ss
                                    /\ (blocks'[cur].late <=> blocks[cur].late)
  BY <1>2, <1>5, <1>8, <1>10, TerminateFacts
<1>14. blocks[cur].term # "none" => /\ blocks'[cur].term = blocks[cur].term
                                    /\ blocks'[cur].succs = blocks[cur].succs
                                    /\ blocks'[cur].late
  BY <1>2, <1>5, <1>8, <1>10, TerminateFacts
<1>15. \A b \in 1..m : b # cur => blocks'[b] = blocks[b]
  BY <1>8, <1>10, <1>11
<1>16. \A b \in (m + 1)..l : blocks'[b] = Fresh
  <2>1. \A b \in (m + 1)..l : b \in 1..l /\ b # cur
    BY <1>3, <1>4
  <2> QED
    BY <1>8, <1>11, <2>1
<1>17. Slot(g) = {l, None, o}
  BY <1>7 DEF Slot
<1>18. cur' \in (m + 1)..l /\ cur' \notin Slot(g)
  <2>1. m + 1 # None
    BY <1>3 DEF None
  <2> QED
    BY <1>2, <1>4, <1>17, <2>1
<1>19. \A x \in blocks'[cur].succs : x \in blocks[cur].succs \/ x \in (m + 1)..l
  BY <1>5, <1>13, <1>14
<1>20. \A b \in (m + 1)..l : /\ ~blocks'[b].late /\ blocks'[b].term \in {"none", "br"}
                             /\ blocks'[b].succs \subseteq (m + 1)..l
                             /\ blocks'[b].term = "none" <=> b = cur' \/ b \in Slot(g)
                             /\ Sealed(g) => g.exit_block \notin blocks'[b].succs
  BY <1>2, <1>6, <1>9, <1>16, <1>17
<1>21. Sealed(g) /\ blocks[cur].term = "none" => g.exit_block \notin blocks'[cur].succs
  BY <1>5, <1>7, <1>13 DEF Sealed
<1>22. Begins(g, m, l)
  <2>1. m = Len(blocks) /\ l = Len(blocks')
    BY <1>11 DEF m
  <2> QED
    BY <1>4, <1>7, <1>11, <1>12, <1>13, <1>14, <1>15, <1>18, <1>19, <1>20, <1>21, <2>1
       DEF Begins
<1> QED
  BY <1>1, <1>2, <1>3, <1>4, <1>7, <1>22, BeginStep

LEMMA ForStep ==
  ASSUME StmtInvariant, NEW hasCondition \in BOOLEAN, codegen_for(hasCondition)
  PROVE  StmtInvariant'
<1> DEFINE m == Len(blocks)
           l == m + 4
           ss == {m + 1}
           tt == IF hasCondition THEN {m + 2, m + 4} ELSE {m + 2}
           bs == AppendBlocks(blocks, l - m)
           g == LoopFrame(m)
<1>1. /\ TypeOK /\ status = "open" /\ status' = "open" /\ live' = live /\ isVoid' = isVoid
      /\ excused' = (excused \/ ~live) /\ Layout
  BY DEF StmtInvariant, codegen_for, Room, StartStatement
<1>2. /\ blocks' = Terminate(Terminate(bs, cur, "br", ss), m + 1, "br", tt)
      /\ cur' = m + 2 /\ frames' = Append(Begun, g)
  <2>1. l - m = 4
    BY <1>1, BlockFacts
  <2> QED
    BY <2>1 DEF codegen_for
<1>3. m \in Nat /\ DOMAIN blocks = 1..m /\ blocks \in Seq(BlockType) /\ cur \in 1..m
  BY <1>1, BlockFacts DEF Layout
<1>4. /\ l \in Nat /\ l - m \in Nat /\ m + (l - m) = l /\ m < l /\ m + 1 \in (m + 1)..l /\ m + 2 \in (m + 1)..l
      /\ m + 3 \in (m + 1)..l /\ m + 4 \in (m + 1)..l
      /\ m + 1 \in Nat /\ m + 3 \in Nat /\ m + 4 \in Nat
  BY <1>3
<1>5. ss \in SUBSET Nat /\ tt \in SUBSET Nat /\ ss \subseteq (m + 1)..l /\ tt \subseteq (m + 1)..l
  BY <1>3
<1>6. \A b \in (m + 1)..l : b = m + 1 \/ b = m + 2 \/ b = m + 3 \/ b = m + 4
  BY <1>3
<1>7. /\ g \in FrameType /\ g.kind = "loop" /\ ~g.is_terminated
      /\ g.exit_block = m + 4 /\ g.step_block = m + 3 /\ g.loop_block = m + 1
      /\ g.continue_block = m + 3 /\ g.break_block = m + 4
      /\ g.liveBefore = live
  <2>1. Top \in FrameType /\ live \in BOOLEAN
    BY <1>1, FrameFacts DEF TypeOK
  <2> HIDE DEF l, m
  <2> QED
    BY <1>4, <2>1 DEF LoopFrame, Frame, FrameType, Kinds, None
<1> HIDE DEF m, l, ss, tt, bs, g
<1>8. /\ bs \in Seq(BlockType) /\ Len(bs) = l /\ DOMAIN bs = 1..l
      /\ \A c \in 1..m : bs[c] = blocks[c]
      /\ \A c \in (m + 1)..l : bs[c] = Fresh
  <2>1. /\ l \in Nat /\ l - m \in Nat /\ m + (l - m) = l /\ m + 2 <= l /\ m < l
        /\ l \in (m + 1)..l /\ m + 1 \in (m + 1)..l
    BY <1>3 DEF l
  <2>2. bs \in Seq(BlockType) /\ Len(bs) = l /\ DOMAIN bs = 1..l
    BY <1>3, <2>1, AppendFacts DEF bs, m
  <2>3. \A c \in 1..m : bs[c] = blocks[c]
    BY <1>3, <2>1, AppendFacts DEF bs, m
  <2>4. \A c \in (m + 1)..l : bs[c] = Fresh
    BY <1>3, <2>1, AppendFacts DEF bs, m
  <2> QED
    BY <2>2, <2>3, <2>4
<1>9. Fresh.term = "none" /\ Fresh.succs = {} /\ Fresh.late = FALSE
  BY DEF Fresh
<1>10. cur \in DOMAIN bs /\ bs[cur] = blocks[cur] /\ m + 1 \in DOMAIN bs /\ cur # m + 1
       /\ bs[m + 1].term = "none" /\ bs[m + 1].late = FALSE
       /\ \A c \in 1..m : c \in DOMAIN bs /\ c # m + 1
  BY <1>3, <1>4, <1>8, <1>9
<1>11. blocks' \in Seq(BlockType) /\ Len(blocks') = l /\ DOMAIN blocks' = 1..l
       /\ \A c \in DOMAIN bs : c # cur /\ c # m + 1 => blocks'[c] = bs[c]
  BY <1>2, <1>5, <1>8, <1>10, TwoTerminators, SMTT(30)
<1>12. blocks[cur].late => blocks'[cur].late
  BY <1>2, <1>5, <1>8, <1>10, TwoTerminators, SMTT(30)
<1>13. blocks[cur].term = "none" => blocks'[cur].term = "br" /\ blocks'[cur].succs = ss
                                    /\ (blocks'[cur].late <=> blocks[cur].late)
  BY <1>2, <1>5, <1>8, <1>10, TwoTerminators, SMTT(30)
<1>14. blocks[cur].term # "none" => /\ blocks'[cur].term = blocks[cur].term
                                    /\ blocks'[cur].succs = blocks[cur].succs
                                    /\ blocks'[cur].late
  <2>1. blocks[cur].term # "none" => blocks'[cur].late
    BY <1>2, <1>5, <1>8, <1>10, TwoTerminators, SMTT(30)
  <2>2. blocks[cur].term # "none" => /\ blocks'[cur].term = blocks[cur].term
                                     /\ blocks'[cur].succs = blocks[cur].succs
    BY <1>2, <1>5, <1>8, <1>10, TwoTerminators, SMTT(30)
  <2> QED
    BY <2>1, <2>2
<1>15. blocks'[m + 1].term = "br" /\ blocks'[m + 1].succs = tt /\ ~blocks'[m + 1].late
  BY <1>2, <1>5, <1>8, <1>10, TwoTerminators, SMTT(30)
<1>16. \A b \in 1..m : b # cur => blocks'[b] = blocks[b]
  BY <1>8, <1>10, <1>11
<1>17. \A b \in (m + 1)..l : b # m + 1 => blocks'[b] = Fresh
  <2>1. \A b \in (m + 1)..l : b \in 1..l /\ b # cur
    BY <1>3, <1>4
  <2> QED
    BY <1>8, <1>11, <2>1
<1>18. Slot(g) = {m + 4, m + 3}
  BY <1>7 DEF Slot
<1>19. cur' \in (m + 1)..l /\ cur' \notin Slot(g) /\ m + 1 \notin Slot(g) /\ m + 3 # m + 4
       /\ m + 1 # m + 2
  BY <1>2, <1>3, <1>4, <1>18
<1>20. \A x \in blocks'[cur].succs : x \in blocks[cur].succs \/ x \in (m + 1)..l
  BY <1>5, <1>13, <1>14
<1>21. ~Sealed(g)
  BY <1>7 DEF Sealed
<1>22. ASSUME NEW b \in (m + 1)..l
       PROVE  /\ ~blocks'[b].late /\ blocks'[b].term \in {"none", "br"}
              /\ blocks'[b].succs \subseteq (m + 1)..l
              /\ blocks'[b].term = "none" <=> b = cur' \/ b \in Slot(g)
  <2>1. CASE b = m + 1
    BY <1>2, <1>5, <1>15, <1>19, <2>1
  <2>2. CASE b # m + 1
    BY <1>2, <1>6, <1>9, <1>17, <1>18, <2>2
  <2> QED
    BY <2>1, <2>2
<1>23. Begins(g, m, l)
  <2>1. m = Len(blocks) /\ l = Len(blocks')
    BY <1>11 DEF m
  <2> QED
    BY <1>4, <1>7, <1>11, <1>12, <1>13, <1>14, <1>15, <1>16, <1>19, <1>20, <1>21, <1>22, <2>1
       DEF Begins
<1> QED
  BY <1>1, <1>2, <1>3, <1>4, <1>7, <1>23, BeginStep

LEMMA SameFrames ==
  ASSUME frames' = frames, StackShape, LoopLink
  PROVE  StackShape' /\ LoopLink'
BY DEF StackShape, LoopLink, None

LEMMA AbortStep == StmtInvariant /\ codegen_abort => StmtInvariant'
<1> SUFFICES ASSUME StmtInvariant, codegen_abort PROVE StmtInvariant'
  OBVIOUS
<1>1. TypeOK /\ StackShape /\ LoopLink
  BY DEF StmtInvariant
<1>2. status' = "abort" /\ UNCHANGED <<isVoid, blocks, cur, frames, live, excused>>
  BY DEF codegen_abort
<1>3. TypeOK'
  BY <1>1, <1>2 DEF TypeOK, Statuses
<1> QED
  BY <1>1, <1>2, <1>3, SameFrames DEF StmtInvariant

LEMMA SkipStep == StmtInvariant /\ skip_body => StmtInvariant'
<1> SUFFICES ASSUME StmtInvariant, skip_body PROVE StmtInvariant'
  OBVIOUS
<1>1. TypeOK /\ StackShape /\ LoopLink
  BY DEF StmtInvariant
<1>2. /\ status' = "declared" /\ blocks' = <<>>
      /\ UNCHANGED <<isVoid, cur, frames, live, excused>>
  BY DEF skip_body
<1>3. blocks' \in Seq(BlockType)
  BY <1>2
<1>4. TypeOK'
  BY <1>1, <1>2, <1>3 DEF TypeOK, Statuses
<1> QED
  BY <1>1, <1>2, <1>4, SameFrames DEF StmtInvariant

LEMMA EndFunctionStep == StmtInvariant /\ end_function => StmtInvariant'
<1> SUFFICES ASSUME StmtInvariant, end_function PROVE StmtInvariant'
  OBVIOUS
<1> DEFINE returns == isVoid /\ ~Top.is_terminated
<1>1. /\ TypeOK /\ StackShape /\ LoopLink /\ Layout /\ Targets
      /\ ~excused => Clean /\ ReturnsFit
      /\ Clean => Filled /\ Flags /\ Unreached
  BY DEF StmtInvariant, end_function
<1>2. /\ Top.kind = "func"
      /\ blocks' = IF returns THEN Terminate(blocks, cur, "retvoid", {}) ELSE blocks
      /\ status' = IF ~Top.is_terminated /\ ~isVoid THEN "missing return"
                   ELSE IF Verifies(blocks') THEN "ok" ELSE "invalid"
      /\ UNCHANGED <<isVoid, cur, frames, live, excused>>
  BY DEF end_function
<1>3. Len(frames) = 1 /\ DOMAIN frames = {1} /\ Top = frames[1]
  <2>1. Len(frames) \in Nat /\ Len(frames) >= 1 /\ DOMAIN frames = 1..Len(frames)
        /\ Len(frames) \in DOMAIN frames
    BY <1>1, FrameFacts
  <2>2. Len(frames) = 1
    BY <1>1, <1>2, <2>1 DEF StackShape, Top
  <2> QED
    BY <2>1, <2>2 DEF Top
<1>4. cur \in DOMAIN blocks /\ blocks \in Seq(BlockType) /\ isVoid \in BOOLEAN
  BY <1>1 DEF Layout, TypeOK
<1>5. /\ blocks' \in Seq(BlockType) /\ DOMAIN blocks' = DOMAIN blocks
      /\ \A c \in DOMAIN blocks : c # cur => blocks'[c] = blocks[c]
      /\ \A c \in DOMAIN blocks : blocks'[c].succs = blocks[c].succs \/ blocks'[c].succs = {}
      /\ \A c \in DOMAIN blocks : blocks'[c].term = blocks[c].term \/ blocks'[c].term = "retvoid"
      /\ Grown
  <2>1. CASE returns
    <3>1. "retvoid" \in Terms /\ "retvoid" # "none" /\ {} \in SUBSET Nat
      BY DEF Terms
    <3>2. blocks' = Terminate(blocks, cur, "retvoid", {})
      BY <1>2, <2>1
    <3> QED
      BY <1>1, <1>4, <3>1, <3>2, TerminateStep
  <2>2. CASE ~returns
    BY <1>2, <1>4, <2>2 DEF Grown
  <2> QED
    BY <2>1, <2>2
<1>6. status' \in Statuses /\ status' # "open"
  BY <1>2 DEF Statuses
<1>7. TypeOK'
  BY <1>1, <1>2, <1>5, <1>6 DEF TypeOK
<1>8. StackShape' /\ LoopLink'
  BY <1>1, <1>2, SameFrames
<1>9. ASSUME status' = "invalid", ~excused PROVE FALSE
  <2>1. Clean /\ ReturnsFit /\ Filled /\ Flags
    BY <1>1, <1>9
  <2>2. live <=> ~Top.is_terminated
    BY <1>3, <2>1 DEF Flags
  <2>3. returns \/ Top.is_terminated
    BY <1>2, <1>9
  <2>4. Slot(Top) = {None}
    BY <1>1, <1>2, <1>3 DEF StackShape, Slot
  <2>5. \A b \in DOMAIN blocks : b # cur => blocks[b].term # "none"
    <3>1. \A b \in DOMAIN blocks : b # None
      BY <1>1, BlockFacts DEF None
    <3> QED
      BY <1>3, <2>1, <2>4, <3>1 DEF Filled
  <2>6. blocks'[cur].term # "none" /\ ~blocks'[cur].late
        /\ (blocks'[cur].term = "ret" => ~isVoid) /\ (blocks'[cur].term = "retvoid" => isVoid)
    <3>1. CASE returns
      <4>1. "retvoid" \in Terms /\ "retvoid" # "none" /\ {} \in SUBSET Nat
        BY DEF Terms
      <4>2. blocks' = Terminate(blocks, cur, "retvoid", {})
        BY <1>2, <3>1
      <4>3. blocks[cur].term = "none"
        BY <2>1, <2>2, <3>1 DEF Filled
      <4>4. blocks'[cur].term = "retvoid" /\ (blocks'[cur].late <=> blocks[cur].late)
        BY <1>1, <1>4, <4>1, <4>2, <4>3, TerminateStep
      <4> QED
        BY <1>4, <2>1, <3>1, <4>4 DEF Clean
    <3>2. CASE ~returns
      <4>1. blocks' = blocks
        BY <1>2, <3>2
      <4>2. ~live
        BY <2>2, <2>3, <3>2
      <4> QED
        BY <1>4, <2>1, <4>1, <4>2 DEF Filled, Clean, ReturnsFit
    <3> QED
      BY <3>1, <3>2
  <2>7. \A b \in DOMAIN blocks' :
          /\ blocks'[b].term # "none" /\ ~blocks'[b].late
          /\ (blocks'[b].term = "ret" => ~isVoid) /\ (blocks'[b].term = "retvoid" => isVoid)
    BY <1>5, <2>1, <2>5, <2>6 DEF Clean, ReturnsFit
  <2>8. Verifies(blocks')
    BY <2>7 DEF Verifies
  <2> QED
    BY <1>2, <1>9, <2>8
<1>10. ASSUME status' = "ok"
       PROVE  Verifies(blocks)' /\ Targets' /\ Unreached' /\ blocks' # <<>>
  <2>1. Verifies(blocks')
    BY <1>2, <1>10
  <2>2. Verifies(blocks)'
    BY <1>2, <2>1 DEF Verifies
  <2>3. Clean'
    BY <2>1 DEF Verifies, Clean
  <2>4. Unreached
    BY <1>1, <1>5, <2>3, GrownClean
  <2>5. Targets'
    <3>1. \A b \in DOMAIN blocks' : blocks'[b].succs \subseteq DOMAIN blocks'
      BY <1>1, <1>5 DEF Targets
    <3> QED
      BY <1>1, <1>2, <1>5, <3>1, GrownTargets
  <2>6. Unreached'
    <3> DEFINE More == {}
    <3>1. \A c \in DOMAIN blocks' : \A x \in blocks'[c].succs :
            (c \in DOMAIN blocks /\ x \in blocks[c].succs) \/ x \in More
      BY <1>5
    <3>2. \A b \in DOMAIN blocks' :
            blocks'[b].term = "unreachable" => NoWayTo(b) /\ b \notin More
      BY <1>5, <2>4 DEF Unreached
    <3>3. \A k \in DOMAIN frames' :
            Sealed(frames'[k]) => NoWayTo(frames'[k].exit_block)
                                  /\ frames'[k].exit_block \notin More
      BY <1>2, <2>4 DEF Unreached
    <3> HIDE DEF More
    <3> QED
      BY <3>1, <3>2, <3>3, StillUnreached
  <2>7. blocks' # <<>>
    BY <1>4, <1>5
  <2> QED
    BY <2>2, <2>5, <2>6, <2>7
<1> QED
  BY <1>2, <1>6, <1>7, <1>8, <1>9, <1>10 DEF StmtInvariant

LEMMA StutterStep == StmtInvariant /\ UNCHANGED vars => StmtInvariant'
<1> SUFFICES ASSUME StmtInvariant, UNCHANGED vars PROVE StmtInvariant'
  OBVIOUS
<1>1. UNCHANGED <<isVoid, blocks, cur, frames, status, live, excused>>
  BY DEF vars
<1>2. TypeOK => TypeOK'
  BY <1>1 DEF TypeOK
<1>3. StackShape /\ LoopLink => StackShape' /\ LoopLink'
  BY <1>1, SameFrames
<1>4. Layout => Layout'
  <2>1. cur' = cur /\ frames' = frames /\ blocks' = blocks
    BY <1>1
  <2> QED
    BY <2>1, Zenon DEF Layout
<1>5. (Targets => Targets') /\ (Clean => Clean') /\ (Clean' => Clean)
      /\ (ReturnsFit => ReturnsFit')
  BY <1>1 DEF Targets, Clean, ReturnsFit
<1>6. Filled => Filled'
  BY <1>1 DEF Filled, Slot, None
<1>7. (Flags => Flags') /\ (Unreached => Unreached')
  BY <1>1 DEF Flags, Unreached, Sealed, NoWayTo, None
<1>8. Verifies(blocks) => Verifies(blocks)'
  BY <1>1 DEF Verifies
<1> QED
  BY <1>1, <1>2, <1>3, <1>4, <1>5, <1>6, <1>7, <1>8 DEF StmtInvariant

LEMMA NextStmt == StmtInvariant /\ [Next]_vars => StmtInvariant'
<1> SUFFICES ASSUME StmtInvariant, [Next]_vars PROVE StmtInvariant'
  OBVIOUS
<1>1. CASE codegen_simple
  BY <1>1, SimpleStep
<1>2. CASE codegen_compound
  BY <1>2, CompoundStep
<1>3. CASE end_compound
  BY <1>3, EndCompoundStep
<1>4. ASSUME NEW hasElse \in BOOLEAN, codegen_if(hasElse) PROVE StmtInvariant'
  BY <1>4, IfStep
<1>5. CASE end_then
  BY <1>5, EndThenStep
<1>6. CASE end_else
  BY <1>6, EndElseStep
<1>7. ASSUME NEW hasCondition \in BOOLEAN, codegen_for(hasCondition) PROVE StmtInvariant'
  BY <1>7, ForStep
<1>8. CASE end_for
  BY <1>8, EndForStep
<1>9. CASE codegen_continue
  BY <1>9, ContinueStep
<1>10. CASE codegen_break
  BY <1>10, BreakStep
<1>11. ASSUME NEW hasExpr \in BOOLEAN, codegen_return(hasExpr) PROVE StmtInvariant'
  BY <1>11, ReturnStep
<1>12. CASE codegen_abort
  BY <1>12, AbortStep
<1>13. CASE skip_body
  BY <1>13, SkipStep
<1>14. CASE end_function
  BY <1>14, EndFunctionStep
<1>15. CASE Done
  BY <1>15, StutterStep DEF Done
<1>16. CASE UNCHANGED vars
  BY <1>16, StutterStep
<1> QED
  BY <1>1, <1>2, <1>3, <1>4, <1>5, <1>6, <1>7, <1>8, <1>9, <1>10, <1>11, <1>12, <1>13, <1>14,
     <1>15, <1>16 DEF Next

-----------------------------------------------------------------------------
\* The invariant holds in every state of every translation.
THEOREM StmtInvariantHolds == Spec => []StmtInvariant
<1>1. Init => StmtInvariant
  BY InitStmt
<1>2. StmtInvariant /\ [Next]_vars => StmtInvariant'
  BY NextStmt
<1> QED
  BY <1>1, <1>2, PTL DEF Spec

\* continue and break jump to the blocks of the innermost loop around them, however
\* deep the statements nest (codegen.c:369-371, 400-410).
THEOREM JumpsReachTheirLoop == Spec => []JumpsStayInLoop
<1>1. StmtInvariant => JumpsStayInLoop
  BY LinkGives DEF StmtInvariant
<1> QED
  BY <1>1, StmtInvariantHolds, PTL

\* While a function is translated every block gets exactly one terminator, and a
\* function that the verifier rejects was none the compiler could be expected to
\* translate (codegen.c:274-352, 400-420, 558-563).
THEOREM BlocksAreWellFormed == Spec => []BlocksInOrder
<1>1. StmtInvariant => BlocksInOrder
  <2> SUFFICES ASSUME StmtInvariant PROVE BlocksInOrder
    OBVIOUS
  <2>1. status = "invalid" => excused
    BY DEF StmtInvariant
  <2>2. ASSUME status = "open", ~excused
        PROVE  /\ \A b \in DOMAIN blocks :
                    /\ ~blocks[b].late
                    /\ b \notin Pending => blocks[b].term # "none"
                    /\ b \in Pending \ {cur} => blocks[b].term = "none"
               /\ (blocks[cur].term = "none") <=> live
    <3>1. Clean /\ Filled
      BY <2>2 DEF StmtInvariant
    <3>2. \A b \in DOMAIN blocks :
            /\ b \notin Pending => blocks[b].term # "none"
            /\ b \in Pending \ {cur} => blocks[b].term = "none"
      BY <3>1, PendingSlots DEF Filled
    <3> QED
      BY <3>1, <3>2 DEF Clean, Filled
  <2> QED
    BY <2>1, <2>2 DEF BlocksInOrder
<1> QED
  BY <1>1, StmtInvariantHolds, PTL

-----------------------------------------------------------------------------
(***************************************************************************)
(* A function that is accepted returns on every way out.  Reached is a     *)
(* recursive function: that it satisfies its equation is shown by the ends *)
(* of the paths of n steps, what holds of all its values by the smallest   *)
(* number for which it would not.                                          *)
(***************************************************************************)
\* Ways through the function of n steps, some of which may stay where they are.
Paths(n) ==
  { p \in [0..n -> DOMAIN blocks] :
      p[0] = 1 /\ \A i \in 0..(n - 1) : p[i + 1] = p[i] \/ p[i + 1] \in blocks[p[i]].succs }
Ends == [n \in Nat |-> { p[n] : p \in Paths(n) }]

\* What a set of blocks and the ones they lead to are.
Further(S) == S \cup UNION { blocks[b].succs : b \in S }

LEMMA NoSteps ==
  ASSUME 1 \in DOMAIN blocks
  PROVE  Ends[0] = {1}
<1> DEFINE q == [i \in 0..0 |-> 1]
<1>1. q \in Paths(0) /\ q[0] = 1
  BY DEF Paths
<1>2. \A p \in Paths(0) : p[0] = 1
  BY DEF Paths
<1>3. Ends[0] = { p[0] : p \in Paths(0) }
  BY DEF Ends
<1> HIDE DEF q
<1> QED
  BY <1>1, <1>2, <1>3

LEMMA OneStepMore ==
  ASSUME \A b \in DOMAIN blocks : blocks[b].succs \subseteq DOMAIN blocks,
         NEW n \in Nat, n # 0
  PROVE  Ends[n] = Further(Ends[n - 1])
<1>1. n - 1 \in Nat /\ n - 1 \in 0..n /\ n \in 0..n /\ (n - 1) + 1 = n
  OBVIOUS
<1>2. /\ Ends[n] = { p[n] : p \in Paths(n) }
      /\ Ends[n - 1] = { p[n - 1] : p \in Paths(n - 1) }
  BY <1>1 DEF Ends
<1>3. ASSUME NEW p \in Paths(n) PROVE p[n] \in Further(Ends[n - 1])
  <2> DEFINE q == [i \in 0..(n - 1) |-> p[i]]
  <2>1. p \in [0..n -> DOMAIN blocks] /\ p[0] = 1
        /\ \A i \in 0..(n - 1) : p[i + 1] = p[i] \/ p[i + 1] \in blocks[p[i]].succs
    BY DEF Paths
  <2>2. \A i \in 0..(n - 1) : i \in 0..n /\ q[i] = p[i]
    OBVIOUS
  <2>3. q \in [0..(n - 1) -> DOMAIN blocks]
    BY <2>1, <2>2
  <2>4. q[0] = 1
    BY <2>1, <2>2
  <2>5. \A i \in 0..((n - 1) - 1) : i \in 0..(n - 1) /\ i + 1 \in 0..(n - 1)
    OBVIOUS
  <2>6. \A i \in 0..((n - 1) - 1) : q[i + 1] = q[i] \/ q[i + 1] \in blocks[q[i]].succs
    BY <2>1, <2>2, <2>5
  <2>7. q \in Paths(n - 1)
    BY <2>3, <2>4, <2>6 DEF Paths
  <2>8. q[n - 1] = p[n - 1] /\ (p[n] = p[n - 1] \/ p[n] \in blocks[p[n - 1]].succs)
    <3>1. n - 1 \in 0..(n - 1)
      OBVIOUS
    <3> QED
      BY <1>1, <2>1, <2>2, <3>1
  <2> HIDE DEF q
  <2>9. p[n - 1] \in Ends[n - 1]
    BY <1>2, <2>7, <2>8
  <2> QED
    BY <2>8, <2>9 DEF Further
<1>4. ASSUME NEW x \in Further(Ends[n - 1]) PROVE x \in Ends[n]
  <2>1. PICK b \in Ends[n - 1] : x = b \/ x \in blocks[b].succs
    BY DEF Further
  <2>2. PICK p \in Paths(n - 1) : b = p[n - 1]
    BY <1>2
  <2>3. p \in [0..(n - 1) -> DOMAIN blocks] /\ p[0] = 1
        /\ \A i \in 0..((n - 1) - 1) : p[i + 1] = p[i] \/ p[i + 1] \in blocks[p[i]].succs
    BY DEF Paths
  <2>4. b \in DOMAIN blocks /\ x \in DOMAIN blocks
    BY <2>1, <2>2, <2>3
  <2> DEFINE q == [i \in 0..n |-> IF i = n THEN x ELSE p[i]]
  <2>5. q \in [0..n -> DOMAIN blocks]
    <3>1. \A i \in 0..n : i # n => i \in 0..(n - 1)
      OBVIOUS
    <3> QED
      BY <2>3, <2>4, <3>1
  <2>6. q[0] = 1 /\ q[n] = x
    BY <2>3
  <2>7. ASSUME NEW i \in 0..(n - 1) PROVE q[i + 1] = q[i] \/ q[i + 1] \in blocks[q[i]].succs
    <3>1. CASE i = n - 1
      <4>1. q[i + 1] = x /\ q[i] = p[n - 1]
        BY <3>1
      <4> QED
        BY <2>1, <2>2, <4>1
    <3>2. CASE i # n - 1
      <4>1. i \in 0..((n - 1) - 1) /\ q[i] = p[i] /\ q[i + 1] = p[i + 1]
        BY <3>2
      <4> QED
        BY <2>3, <4>1
    <3> QED
      BY <3>1, <3>2
  <2> HIDE DEF q
  <2>8. q \in Paths(n)
    BY <2>5, <2>6, <2>7 DEF Paths
  <2> QED
    BY <1>2, <2>6, <2>8
<1>5. ASSUME NEW x \in Ends[n] PROVE x \in Further(Ends[n - 1])
  BY <1>2, <1>3, <1>5
<1> QED
  BY <1>4, <1>5

\* Reached is the function that its definition says.
LEMMA ReachedUnfolds ==
  ASSUME 1 \in DOMAIN blocks, \A b \in DOMAIN blocks : blocks[b].succs \subseteq DOMAIN blocks
  PROVE  /\ Reached[0] = {1}
         /\ \A n \in Nat : n # 0 => Reached[n] = Further(Reached[n - 1])
<1> DEFINE Good(g) == g = [n \in Nat |->
             IF n = 0 THEN {1}
             ELSE LET S == g[n - 1] IN S \cup UNION { blocks[b].succs : b \in S }]
<1>1. Good(Ends)
  <2> DEFINE G == [n \in Nat |->
               IF n = 0 THEN {1}
               ELSE LET S == Ends[n - 1] IN S \cup UNION { blocks[b].succs : b \in S }]
  <2>1. Ends = [n \in Nat |-> Ends[n]]
    BY DEF Ends
  <2>2. \A n \in Nat : Ends[n] = G[n]
    BY NoSteps, OneStepMore DEF Further
  <2> QED
    BY <2>1, <2>2
<1>2. Reached = CHOOSE g : Good(g)
  BY Zenon DEF Reached
<1>3. Good(CHOOSE g : Good(g))
  <2> HIDE DEF Good
  <2> QED
    BY <1>1, Zenon
<1>4. Good(Reached)
  BY <1>2, <1>3, Zenon
<1> QED
  BY <1>4 DEF Further

\* A block that is reached is the first one or some block leads to it.
LEMMA ReachedInside ==
  ASSUME 1 \in DOMAIN blocks, \A b \in DOMAIN blocks : blocks[b].succs \subseteq DOMAIN blocks,
         NEW l \in Nat, NEW x \in Reached[l]
  PROVE  x \in DOMAIN blocks /\ ~NoWayTo(x)
<1> DEFINE In == { b \in DOMAIN blocks : ~NoWayTo(b) }
           Bad == { n \in Nat : ~(Reached[n] \subseteq In) }
<1>1. 1 \in In
  BY DEF NoWayTo
<1>2. \A b \in DOMAIN blocks : blocks[b].succs \subseteq In
  BY DEF NoWayTo
<1>3. Bad = {}
  <2> SUFFICES ASSUME Bad # {} PROVE FALSE
    OBVIOUS
  <2>1. PICK m \in Bad : \A k \in Bad : m <= k
    <3>1. Bad \in SUBSET Nat
      OBVIOUS
    <3> HIDE DEF Bad
    <3> QED
      BY <3>1, LeastNumber
  <2>2. m \in Nat /\ ~(Reached[m] \subseteq In)
    OBVIOUS
  <2> HIDE DEF In
  <2>3. CASE m = 0
    BY <1>1, <2>2, <2>3, ReachedUnfolds
  <2>4. CASE m # 0
    <3>1. m - 1 \in Nat /\ ~(m <= m - 1)
      BY <2>2, <2>4
    <3>2. Reached[m - 1] \subseteq In
      BY <2>1, <3>1
    <3>3. Reached[m] = Further(Reached[m - 1])
      BY <2>2, <2>4, ReachedUnfolds
    <3>4. Further(Reached[m - 1]) \subseteq In
      BY <1>2, <3>2 DEF Further, In
    <3> QED
      BY <2>2, <3>3, <3>4
  <2> QED
    BY <2>3, <2>4
<1> QED
  BY <1>3

-----------------------------------------------------------------------------
\* A branch goes somewhere.
BranchesLead(bs) == \A b \in DOMAIN bs : bs[b].term = "br" => bs[b].succs # {}

LEMMA TerminateLeads ==
  ASSUME NEW bs \in Seq(BlockType), NEW b \in DOMAIN bs, NEW t \in Terms,
         NEW ss \in SUBSET Nat, t = "br" => ss # {}, BranchesLead(bs),
         NEW r, r = Terminate(bs, b, t, ss)
  PROVE  r \in Seq(BlockType) /\ DOMAIN r = DOMAIN bs /\ BranchesLead(r)
<1>1. r \in Seq(BlockType) /\ DOMAIN r = DOMAIN bs
      /\ \A c \in DOMAIN bs : c # b => r[c] = bs[c]
  BY TerminateFacts
<1>2. bs[b].term = "none" => r[b].term = t /\ r[b].succs = ss
  BY TerminateFacts
<1>3. bs[b].term # "none" => r[b].term = bs[b].term /\ r[b].succs = bs[b].succs
  BY TerminateFacts
<1> QED
  BY <1>1, <1>2, <1>3 DEF BranchesLead

LEMMA InstrLeads ==
  ASSUME NEW bs \in Seq(BlockType), NEW b \in DOMAIN bs, BranchesLead(bs),
         NEW r, r = Instr(bs, b)
  PROVE  BranchesLead(r)
<1>1. DOMAIN r = DOMAIN bs
      /\ \A c \in DOMAIN bs : r[c].term = bs[c].term /\ r[c].succs = bs[c].succs
  BY InstrFacts
<1> QED
  BY <1>1 DEF BranchesLead

LEMMA AppendLeads ==
  ASSUME NEW bs \in Seq(BlockType), NEW n \in Nat, BranchesLead(bs),
         NEW r, r = AppendBlocks(bs, n)
  PROVE  /\ r \in Seq(BlockType) /\ DOMAIN r = 1..(Len(bs) + n) /\ DOMAIN bs \subseteq DOMAIN r
         /\ BranchesLead(r)
<1> DEFINE m == Len(bs)
           q == AppendBlocks(bs, n)
<1>1. m \in Nat /\ DOMAIN bs = 1..m /\ q = r
  BY LenProperties
<1>2. r \in Seq(BlockType) /\ DOMAIN r = 1..(m + n)
  BY AppendFacts
<1>3. \A c \in 1..m : r[c] = bs[c]
  <2>1. \A c \in 1..m : q[c] = bs[c]
    BY <1>1, AppendFacts DEF m, q
  <2> QED
    BY <1>1, <2>1
<1>4. \A c \in (m + 1)..(m + n) : r[c] = Fresh
  <2> DEFINE f == [k \in 1..n |-> Fresh]
  <2>1. Fresh \in BlockType
    BY DEF Fresh, BlockType, Terms
  <2>2. f \in Seq(BlockType)
    BY <2>1, SeqDef
  <2>3. Len(f) = n
    BY <2>2, LenProperties
  <2>4. r = bs \o f
    BY DEF AppendBlocks
  <2>5. \A c \in 1..(m + n) : r[c] = IF c <= m THEN bs[c] ELSE f[c - m]
    BY <2>2, <2>3, <2>4, ConcatProperties
  <2>6. ASSUME NEW c \in (m + 1)..(m + n) PROVE r[c] = Fresh
    <3>1. c \in 1..(m + n) /\ ~(c <= m) /\ c - m \in 1..n
      BY <1>1
    <3> QED
      BY <2>5, <3>1
  <2> QED
    BY <2>6
<1> HIDE DEF m, q
<1>5. \A c \in 1..(m + n) : c \in 1..m \/ c \in (m + 1)..(m + n)
  BY <1>1
<1>6. Fresh.term = "none"
  BY DEF Fresh
<1>7. BranchesLead(r)
  BY <1>1, <1>2, <1>3, <1>4, <1>5, <1>6 DEF BranchesLead
<1>8. DOMAIN bs \subseteq DOMAIN r
  BY <1>1, <1>2
<1> QED
  BY <1>2, <1>7, <1>8 DEF m

LEMMA OpenFacts ==
  ASSUME StmtInvariant, status = "open"
  PROVE  /\ TypeOK /\ StackShape /\ LoopLink /\ Layout /\ Targets
         /\ blocks \in Seq(BlockType) /\ cur \in DOMAIN blocks
         /\ Len(blocks) \in Nat /\ DOMAIN blocks = 1..Len(blocks)
         /\ Top \in FrameType
BY BlockFacts, FrameFacts DEF StmtInvariant, Layout

\* The blocks of the if or the loop on top.
LEMMA TopBlocks ==
  ASSUME StmtInvariant, status = "open", Top.kind \in {"then", "else", "loop"}
  PROVE  /\ Top.exit_block \in DOMAIN blocks
         /\ Top.kind = "loop" => Top.step_block \in DOMAIN blocks
<1> DEFINE n == Len(frames)
           m == Len(blocks)
<1>1. TypeOK /\ StackShape /\ Layout /\ m \in Nat /\ DOMAIN blocks = 1..m
  BY OpenFacts
<1>2. n \in DOMAIN frames /\ Top = frames[n]
  BY <1>1, FrameFacts DEF Top
<1>3. Top.exit_block \in 0..m /\ Top.step_block \in 0..m
  BY <1>1, <1>2 DEF Layout, Slot
<1>4. Top.exit_block > 1 /\ (Top.kind = "loop" => Top.step_block # None)
  BY <1>1, <1>2 DEF StackShape
<1> HIDE DEF n, m
<1> QED
  BY <1>1, <1>3, <1>4 DEF None

LEMMA LeadsStep ==
  ASSUME StmtInvariant, BranchesLead(blocks), [Next]_vars
  PROVE  BranchesLead(blocks')
<1>0. /\ "br" \in Terms /\ "ret" \in Terms /\ "retvoid" \in Terms /\ "unreachable" \in Terms
      /\ {} \in SUBSET Nat
  BY DEF Terms
<1>1. CASE codegen_simple
  <2>1. status = "open" /\ blocks' = Instr(blocks, cur)
    BY <1>1 DEF codegen_simple, Room
  <2> QED
    BY <2>1, OpenFacts, InstrLeads
<1>2. CASE UNCHANGED blocks
  BY <1>2
<1>3. ASSUME NEW hasElse \in BOOLEAN, codegen_if(hasElse) PROVE BranchesLead(blocks')
  <2> DEFINE m == Len(blocks)
             l == IF hasElse THEN m + 3 ELSE m + 2
             o == IF hasElse THEN m + 2 ELSE None
             ss == {m + 1, IF hasElse THEN o ELSE l}
             bs == AppendBlocks(blocks, l - m)
  <2>1. status = "open" /\ blocks' = Terminate(bs, cur, "br", ss)
    BY <1>3 DEF codegen_if, Room
  <2>2. m \in Nat /\ blocks \in Seq(BlockType) /\ cur \in DOMAIN blocks
    BY <2>1, OpenFacts
  <2>3. l - m \in Nat /\ ss \in SUBSET Nat /\ ss # {}
    BY <2>2
  <2> HIDE DEF l, ss
  <2>4. bs \in Seq(BlockType) /\ cur \in DOMAIN bs /\ BranchesLead(bs)
    BY <2>2, <2>3, AppendLeads
  <2> HIDE DEF bs
  <2> QED
    BY <1>0, <2>1, <2>3, <2>4, TerminateLeads
<1>4. ASSUME NEW hasCondition \in BOOLEAN, codegen_for(hasCondition) PROVE BranchesLead(blocks')
  <2> DEFINE m == Len(blocks)
             w == 4
             ss == {m + 1}
             tt == IF hasCondition THEN {m + 2, m + 4} ELSE {m + 2}
             bs == AppendBlocks(blocks, w)
             r == Terminate(bs, cur, "br", ss)
  <2>1. status = "open" /\ blocks' = Terminate(r, m + 1, "br", tt)
    BY <1>4 DEF codegen_for, Room
  <2>2. m \in Nat /\ blocks \in Seq(BlockType) /\ cur \in DOMAIN blocks
    BY <2>1, OpenFacts
  <2>3. ss \in SUBSET Nat /\ ss # {} /\ tt \in SUBSET Nat /\ tt # {} /\ w \in Nat
        /\ m + 1 \in 1..(m + w)
    BY <2>2
  <2> HIDE DEF ss, tt, w
  <2>4. bs \in Seq(BlockType) /\ cur \in DOMAIN bs /\ BranchesLead(bs) /\ m + 1 \in DOMAIN bs
    BY <2>2, <2>3, AppendLeads
  <2> HIDE DEF bs
  <2>5. r \in Seq(BlockType) /\ m + 1 \in DOMAIN r /\ BranchesLead(r)
    BY <1>0, <2>3, <2>4, TerminateLeads
  <2> HIDE DEF r, m
  <2> QED
    BY <1>0, <2>1, <2>3, <2>5, TerminateLeads
<1>5. ASSUME NEW e \in DOMAIN blocks, status = "open",
             NEW r, r = IF Top.is_terminated THEN blocks ELSE Terminate(blocks, cur, "br", {e})
      PROVE  r \in Seq(BlockType) /\ DOMAIN r = DOMAIN blocks /\ BranchesLead(r)
  <2>1. blocks \in Seq(BlockType) /\ cur \in DOMAIN blocks
    BY <1>5, OpenFacts
  <2> DEFINE ss == {e}
  <2>2. ss \in SUBSET Nat /\ ss # {}
    BY <1>5, OpenFacts
  <2>3. CASE Top.is_terminated
    BY <1>5, <2>1, <2>3
  <2>4. CASE ~Top.is_terminated
    <3>1. r = Terminate(blocks, cur, "br", ss)
      BY <1>5, <2>4
    <3> HIDE DEF ss
    <3> QED
      BY <1>0, <2>1, <2>2, <3>1, TerminateLeads
  <2> QED
    BY <2>3, <2>4
<1>6. CASE end_then
  <2>1. status = "open" /\ Top.kind = "then"
        /\ blocks' = IF Top.is_terminated THEN blocks
                     ELSE Terminate(blocks, cur, "br", {Top.exit_block})
    BY <1>6 DEF end_then
  <2>2. Top.exit_block \in DOMAIN blocks
    BY <2>1, TopBlocks
  <2> QED
    BY <1>5, <2>1, <2>2
<1>7. CASE end_else
  <2> DEFINE r == IF Top.is_terminated THEN blocks
                  ELSE Terminate(blocks, cur, "br", {Top.exit_block})
  <2>1. status = "open" /\ Top.kind = "else"
        /\ (blocks' = Terminate(r, Top.exit_block, "unreachable", {}) \/ blocks' = r)
    BY <1>7 DEF end_else
  <2>2. Top.exit_block \in DOMAIN blocks
    BY <2>1, TopBlocks
  <2>3. r \in Seq(BlockType) /\ DOMAIN r = DOMAIN blocks /\ BranchesLead(r)
    BY <1>5, <2>1, <2>2
  <2> HIDE DEF r
  <2>4. ASSUME blocks' = Terminate(r, Top.exit_block, "unreachable", {})
        PROVE  BranchesLead(blocks')
    BY <1>0, <2>2, <2>3, <2>4, TerminateLeads
  <2> QED
    BY <2>1, <2>3, <2>4
<1>8. CASE end_for
  <2> DEFINE ss == {Top.step_block}
             tt == {Top.loop_block}
             r == Terminate(blocks, cur, "br", ss)
  <2>1. status = "open" /\ Top.kind = "loop"
        /\ blocks' = Terminate(r, Top.step_block, "br", tt)
    BY <1>8 DEF end_for
  <2>2. blocks \in Seq(BlockType) /\ cur \in DOMAIN blocks /\ Top \in FrameType
    BY <2>1, OpenFacts
  <2>3. Top.step_block \in DOMAIN blocks
    BY <2>1, TopBlocks
  <2>4. ss \in SUBSET Nat /\ ss # {} /\ tt \in SUBSET Nat /\ tt # {}
    BY <2>2 DEF FrameType
  <2> HIDE DEF ss, tt
  <2>5. r \in Seq(BlockType) /\ DOMAIN r = DOMAIN blocks /\ BranchesLead(r)
    BY <1>0, <2>2, <2>4, TerminateLeads
  <2> HIDE DEF r
  <2> QED
    BY <1>0, <2>1, <2>3, <2>4, <2>5, TerminateLeads
<1>9. ASSUME NEW t \in Terms, NEW ss \in SUBSET Nat, Jump(t, ss), t = "br" => ss # {}
      PROVE  BranchesLead(blocks')
  <2>1. status = "open" /\ blocks' = Terminate(blocks, cur, t, ss)
    BY <1>9 DEF Jump, Room
  <2>2. blocks \in Seq(BlockType) /\ cur \in DOMAIN blocks
    BY <2>1, OpenFacts
  <2> QED
    BY <1>9, <2>1, <2>2, TerminateLeads
<1>10. CASE codegen_continue
  <2> DEFINE ss == {Top.continue_block}
  <2>1. Jump("br", ss) /\ status = "open"
    BY <1>10 DEF codegen_continue, Jump, Room
  <2>2. ss \in SUBSET Nat /\ ss # {}
    BY <2>1, OpenFacts DEF FrameType
  <2> HIDE DEF ss
  <2> QED
    BY <1>0, <1>9, <2>1, <2>2
<1>11. CASE codegen_break
  <2> DEFINE ss == {Top.break_block}
  <2>1. Jump("br", ss) /\ status = "open"
    BY <1>11 DEF codegen_break, Jump, Room
  <2>2. ss \in SUBSET Nat /\ ss # {}
    BY <2>1, OpenFacts DEF FrameType
  <2> HIDE DEF ss
  <2> QED
    BY <1>0, <1>9, <2>1, <2>2
<1>12. ASSUME NEW hasExpr \in BOOLEAN, codegen_return(hasExpr) PROVE BranchesLead(blocks')
  <2> DEFINE t == IF hasExpr THEN "ret" ELSE "retvoid"
  <2>1. Jump(t, {})
    BY <1>12 DEF codegen_return
  <2>2. t \in Terms /\ t # "br"
    BY <1>0
  <2> HIDE DEF t
  <2> QED
    BY <1>0, <1>9, <2>1, <2>2
<1>13. CASE skip_body
  <2>1. blocks' = <<>>
    BY <1>13 DEF skip_body
  <2> QED
    BY <2>1 DEF BranchesLead
<1>14. CASE end_function
  <2>1. status = "open"
        /\ (blocks' = Terminate(blocks, cur, "retvoid", {}) \/ blocks' = blocks)
    BY <1>14 DEF end_function
  <2>2. blocks \in Seq(BlockType) /\ cur \in DOMAIN blocks
    BY <2>1, OpenFacts
  <2>3. ASSUME blocks' = Terminate(blocks, cur, "retvoid", {}) PROVE BranchesLead(blocks')
    BY <1>0, <2>2, <2>3, TerminateLeads
  <2> QED
    BY <2>1, <2>3
<1> QED
  BY <1>1, <1>2, <1>3, <1>4, <1>6, <1>7, <1>8, <1>10, <1>11, <1>12, <1>13, <1>14
     DEF Next, codegen_compound, end_compound, codegen_abort, Done, vars

-----------------------------------------------------------------------------
\* In a function that is accepted no execution runs into an "unreachable", and every
\* way out returns, with a value exactly if the function has one (codegen.c:345-348,
\* 547-552).
THEOREM AcceptedFunctionsReturn == Spec => []EveryWayOutReturns
<1>1. Init => BranchesLead(blocks)
  <2> SUFFICES ASSUME Init PROVE BranchesLead(blocks)
    OBVIOUS
  <2>1. blocks = <<Fresh>> /\ Fresh.term = "none"
    BY DEF Init, Fresh
  <2> QED
    BY <2>1 DEF BranchesLead
<1>2. StmtInvariant /\ BranchesLead(blocks) /\ [Next]_vars => BranchesLead(blocks)'
  BY LeadsStep DEF BranchesLead
<1>3. StmtInvariant /\ BranchesLead(blocks) => EveryWayOutReturns
  <2> SUFFICES ASSUME StmtInvariant, BranchesLead(blocks), status = "ok",
                      NEW b \in Reached[Len(blocks)]
               PROVE  /\ blocks[b].term # "unreachable"
                      /\ blocks[b].succs = {} =>
                           blocks[b].term = IF isVoid THEN "retvoid" ELSE "ret"
    BY DEF EveryWayOutReturns
  <2>1. TypeOK /\ Verifies(blocks) /\ Targets /\ Unreached /\ blocks # <<>>
    BY DEF StmtInvariant
  <2>2. Len(blocks) \in Nat /\ DOMAIN blocks = 1..Len(blocks)
        /\ \A c \in DOMAIN blocks : blocks[c] \in BlockType
    BY <2>1, BlockFacts
  <2>3. 1 \in DOMAIN blocks
    <3>1. Len(blocks) # 0
      BY <2>1, EmptySeq DEF TypeOK
    <3> QED
      BY <2>2, <3>1
  <2>4. \A c \in DOMAIN blocks : blocks[c].succs \subseteq DOMAIN blocks
    BY <2>1 DEF Targets
  <2>5. b \in DOMAIN blocks /\ ~NoWayTo(b)
    BY <2>2, <2>3, <2>4, ReachedInside
  <2>6. blocks[b].term # "unreachable"
    BY <2>1, <2>5 DEF Unreached
  <2>7. ASSUME blocks[b].succs = {}
        PROVE  blocks[b].term = IF isVoid THEN "retvoid" ELSE "ret"
    <3>1. blocks[b].term \in Terms /\ blocks[b].term # "none" /\ blocks[b].term # "br"
      BY <2>1, <2>2, <2>5, <2>7 DEF BlockType, Verifies, BranchesLead
    <3>2. blocks[b].term \in {"ret", "retvoid"}
      BY <2>6, <3>1 DEF Terms
    <3> QED
      BY <2>1, <2>5, <3>2 DEF Verifies
  <2> QED
    BY <2>6, <2>7
<1> QED
  BY <1>1, <1>2, <1>3, StmtInvariantHolds, PTL DEF Spec

=============================================================================
