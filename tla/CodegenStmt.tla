----------------------------- MODULE CodegenStmt -----------------------------
(***************************************************************************)
(* Control flow of a function: how codegen_stmt (codegen.c) turns a body   *)
(* into basic blocks, and how codegen_unit ends and verifies the function. *)
(*                                                                         *)
(* The recursion of codegen_stmt over the syntax tree is a stack of        *)
(* frames, one per call that is under way; the tree itself is not stored:  *)
(* the next statement is any the grammar allows at this point.  A frame is *)
(* the codegen_t the call was given (where continue and break go) and the  *)
(* context its inner statements write is_terminated to.                    *)
(*                                                                         *)
(* Two variables are not in the code.  "live" says whether execution can   *)
(* get to this point of the body, as the language means it: not past a     *)
(* jump, past an if when it can get past one of its branches, past a loop  *)
(* always.  "excused" becomes true for a body the compiler is known not to *)
(* translate: a statement after a jump, a loop whose body ends in a jump   *)
(* (the branch at line 386 is built in any case), a return that does not   *)
(* fit the function.                                                       *)
(***************************************************************************)
EXTENDS Integers, Sequences, FiniteSets

CONSTANTS MaxStmts,  \* bound on the statements of a body
          MaxDepth   \* bound on the frames

ASSUME BoundsAssumption == MaxStmts \in Nat /\ MaxDepth \in Nat

VARIABLES isVoid,    \* the function's return type is void
          body,      \* what the source gives it: "none", "empty" ({}), "block"
          blocks,    \* the basic blocks of the function, by number
          cur,       \* the block the builder is positioned at the end of
          frames,    \* the calls of codegen_stmt under way, outermost first
          stmts,     \* statements generated so far
          status,    \* "open", "declared", "ok", "missing return", "invalid", "abort"
          live, excused

vars == <<isVoid, body, blocks, cur, frames, stmts, status, live, excused>>

None == 0            \* the null block; real blocks are numbered from 1
Fresh == [term |-> "none", succs |-> {}, late |-> FALSE]
Top == frames[Len(frames)]
Below == frames[Len(frames) - 1]
SetTop(fs, f) == [fs EXCEPT ![Len(fs)] = f]
Popped == SubSeq(frames, 1, Len(frames) - 1)

\* LLVMBuild...: an instruction goes to the end of the block even when the
\* block has its terminator already, which is what the verifier objects to.
Instr(bs, b) ==
  IF bs[b].term = "none" THEN bs ELSE [bs EXCEPT ![b].late = TRUE]
Terminate(bs, b, term, succs) ==
  IF bs[b].term = "none"
  THEN [bs EXCEPT ![b].term = term, ![b].succs = succs]
  ELSE [bs EXCEPT ![b].late = TRUE]

AppendBlocks(bs, n) == bs \o [k \in 1..n |-> Fresh]

\* A call of codegen_stmt inherits continue and break from its caller.
Frame(kind, exit, step, cond, other) ==
  [kind |-> kind, is_terminated |-> FALSE, filled |-> FALSE,
   continue_block |-> Top.continue_block, break_block |-> Top.break_block,
   exit_block |-> exit, step_block |-> step, loop_block |-> cond,
   false_block |-> other, true_terminated |-> FALSE,
   liveBefore |-> live, liveTrue |-> FALSE]

Init ==
  /\ isVoid \in BOOLEAN
  /\ body \in {"none", "empty", "block"}
  /\ blocks = << Fresh >>
  /\ cur = 1
  /\ frames = << [kind |-> "func", is_terminated |-> FALSE, filled |-> FALSE,
                  continue_block |-> None, break_block |-> None,
                  exit_block |-> None, step_block |-> None, loop_block |-> None,
                  false_block |-> None, true_terminated |-> FALSE,
                  liveBefore |-> TRUE, liveTrue |-> FALSE] >>
  /\ stmts = 0
  /\ status = "open"
  /\ live = TRUE
  /\ excused = FALSE

(***************************************************************************)
(* Statements.                                                             *)
(***************************************************************************)
\* Where the grammar has room for a statement: anywhere in a block, once in
\* an else branch (an empty one is no else branch to the code); a function, an
\* if and a loop have a block for their body, which in the last two may be {}.
Room(isBlock) ==
  /\ status = "open"
  /\ body = "block"
  /\ \/ Top.kind = "block"
     \/ Top.kind = "else" /\ ~Top.filled
     \/ Top.kind \in {"func", "then", "loop"} /\ ~Top.filled /\ isBlock

\* The statements that else branches under way have still to come to.
Owed ==
  Cardinality({ k \in DOMAIN frames :
                  \/ frames[k].kind = "then" /\ frames[k].false_block # None
                  \/ frames[k].kind = "else" /\ ~frames[k].filled /\ k < Len(frames) })
Affordable(more) == stmts + Owed + more < MaxStmts

Begun == SetTop(frames, [Top EXCEPT !.filled = TRUE])
StartStatement ==
  /\ Affordable(0)
  /\ stmts' = stmts + 1
  /\ excused' = (excused \/ ~live)
  /\ UNCHANGED <<isVoid, body>>

\* An expression or a variable declaration; neither ends a block.
codegen_simple ==
  /\ Room(FALSE)
  /\ StartStatement
  /\ blocks' = Instr(blocks, cur)
  /\ frames' = Begun
  /\ UNCHANGED <<cur, status, live>>

codegen_compound ==
  /\ Room(TRUE)
  /\ Len(frames) < MaxDepth
  /\ StartStatement
  /\ frames' = Append(Begun, Frame("block", None, None, None, None))
  /\ UNCHANGED <<blocks, cur, status, live>>

\* The end of the compound case: is_terminated moves to the outer context.
\* Mutant: it does not.
end_compound_forget ==
  /\ status = "open"
  /\ Top.kind = "block"
  /\ frames' = Popped
  /\ UNCHANGED <<isVoid, body, blocks, cur, stmts, status, live, excused>>

end_compound ==
  /\ status = "open"
  /\ Top.kind = "block"
  /\ frames' = SetTop(Popped, [Below EXCEPT !.is_terminated = @ \/ Top.is_terminated])
  /\ UNCHANGED <<isVoid, body, blocks, cur, stmts, status, live, excused>>

\* An if appends its blocks, branches on the condition and goes on in "iftrue".
codegen_if(hasElse) ==
  /\ Room(FALSE)
  /\ Len(frames) + 1 < MaxDepth
  /\ hasElse => Affordable(1)
  /\ StartStatement
  /\ LET n == Len(blocks)
         exit == IF hasElse THEN n + 3 ELSE n + 2
         other == IF hasElse THEN n + 2 ELSE None
     IN  /\ blocks' = Terminate(AppendBlocks(blocks, exit - n), cur, "br",
                                {n + 1, IF hasElse THEN other ELSE exit})
         /\ cur' = n + 1
         /\ frames' = Append(Begun, Frame("then", exit, None, None, other))
  /\ UNCHANGED <<status, live>>

\* The end of the true branch: on to "iffalse", or out of the statement.
end_then ==
  /\ status = "open"
  /\ Top.kind = "then"
  /\ blocks' = IF Top.is_terminated THEN blocks
               ELSE Terminate(blocks, cur, "br", {Top.exit_block})
  /\ \/ /\ Top.false_block # None
        /\ cur' = Top.false_block
        /\ frames' = SetTop(frames, [Top EXCEPT !.kind = "else", !.filled = FALSE,
                                       !.true_terminated = Top.is_terminated,
                                       !.is_terminated = FALSE, !.liveTrue = live])
     \/ /\ Top.false_block = None
        /\ cur' = Top.exit_block
        /\ frames' = Popped
  /\ live' = Top.liveBefore
  /\ UNCHANGED <<isVoid, body, stmts, status, excused>>

\* Mutant: one terminated branch is taken for two.
end_else_either ==
  /\ status = "open"
  /\ Top.kind = "else" /\ Top.filled
  /\ LET both == Top.true_terminated \/ Top.is_terminated
         closed == IF Top.is_terminated THEN blocks
                   ELSE Terminate(blocks, cur, "br", {Top.exit_block})
     IN  /\ blocks' = IF both THEN Terminate(closed, Top.exit_block, "unreachable", {})
                      ELSE closed
         /\ frames' = SetTop(Popped, [Below EXCEPT !.is_terminated = @ \/ both])
  /\ cur' = Top.exit_block
  /\ live' = (Top.liveTrue \/ live)
  /\ UNCHANGED <<isVoid, body, stmts, status, excused>>

\* The end of the if: when neither branch goes on, "ifexit" is unreachable.
end_else ==
  /\ status = "open"
  /\ Top.kind = "else" /\ Top.filled
  /\ LET both == Top.true_terminated /\ Top.is_terminated
         closed == IF Top.is_terminated THEN blocks
                   ELSE Terminate(blocks, cur, "br", {Top.exit_block})
     IN  /\ blocks' = IF both THEN Terminate(closed, Top.exit_block, "unreachable", {})
                      ELSE closed
         /\ frames' = SetTop(Popped, [Below EXCEPT !.is_terminated = @ \/ both])
  /\ cur' = Top.exit_block
  /\ live' = (Top.liveTrue \/ live)
  /\ UNCHANGED <<isVoid, body, stmts, status, excused>>

\* Mutant: the body is generated with the codegen_t of the enclosing code.
LoopFrameShared(n) == Frame("loop", n + 4, n + 3, n + 1, None)

\* The codegen_t and the context of a loop's body, whose blocks start after n.
LoopFrame(n) ==
  [Frame("loop", n + 4, n + 3, n + 1, None) EXCEPT
     !.continue_block = n + 3, !.break_block = n + 4]

\* A loop: the blocks "loopcond", "loopbody", "loopstep" and "loopexit".
codegen_for(hasCondition) ==
  /\ Room(FALSE)
  /\ Len(frames) + 1 < MaxDepth
  /\ StartStatement
  /\ LET n == Len(blocks)
         entered == Terminate(AppendBlocks(blocks, 4), cur, "br", {n + 1})
     IN  /\ blocks' = Terminate(entered, n + 1, "br",
                                IF hasCondition THEN {n + 2, n + 4} ELSE {n + 2})
         /\ cur' = n + 2
         /\ frames' = Append(Begun, LoopFrame(n))
  /\ UNCHANGED <<status, live>>

\* The end of the loop: the body goes to the step whether or not it has a
\* terminator, the step goes back to the condition.
end_for ==
  /\ status = "open"
  /\ Top.kind = "loop"
  /\ blocks' = Terminate(Terminate(blocks, cur, "br", {Top.step_block}),
                         Top.step_block, "br", {Top.loop_block})
  /\ cur' = Top.exit_block
  /\ frames' = Popped
  /\ excused' = (excused \/ ~live)
  /\ live' = Top.liveBefore
  /\ UNCHANGED <<isVoid, body, stmts, status>>

\* continue, break and return: a terminator, and is_terminated.
Jump(term, succs) ==
  /\ Room(FALSE)
  /\ Affordable(0)
  /\ stmts' = stmts + 1
  /\ blocks' = Terminate(blocks, cur, term, succs)
  /\ frames' = SetTop(frames, [Top EXCEPT !.filled = TRUE, !.is_terminated = TRUE])
  /\ live' = FALSE
  /\ UNCHANGED <<isVoid, body, cur, status>>

codegen_continue ==
  /\ Top.continue_block # None
  /\ Jump("br", {Top.continue_block})
  /\ excused' = (excused \/ ~live)

codegen_break ==
  /\ Top.break_block # None
  /\ Jump("br", {Top.break_block})
  /\ excused' = (excused \/ ~live)

codegen_return(hasExpr) ==
  /\ Jump(IF hasExpr THEN "ret" ELSE "retvoid", {})
  /\ excused' = (excused \/ ~live \/ hasExpr = isVoid)

\* The assertions "nowhere to continue to" and "nowhere to break to", and the
\* statements that are parsed but not implemented.
codegen_abort ==
  /\ Room(FALSE)
  /\ status' = "abort"
  /\ UNCHANGED <<isVoid, body, blocks, cur, frames, stmts, live, excused>>

(***************************************************************************)
(* The function, in codegen_unit.                                          *)
(***************************************************************************)
\* Without a body only the declaration is made.  The reduction of "{ }" leaves
\* a null pointer (REDUCE_DEFAULT), so an empty body is no body.
skip_body ==
  /\ status = "open"
  /\ body # "block"
  /\ status' = "declared"
  /\ blocks' = <<>>
  /\ UNCHANGED <<isVoid, body, cur, frames, stmts, live, excused>>

\* LLVMVerifyFunction, as far as blocks and returns go.
Verifies(bs) ==
  \A b \in DOMAIN bs :
    /\ bs[b].term # "none"
    /\ ~bs[b].late
    /\ bs[b].term = "ret" => ~isVoid
    /\ bs[b].term = "retvoid" => isVoid

end_function ==
  /\ status = "open"
  /\ Top.kind = "func" /\ Top.filled
  /\ blocks' = IF isVoid /\ ~Top.is_terminated
               THEN Terminate(blocks, cur, "retvoid", {}) ELSE blocks
  /\ status' = IF ~Top.is_terminated /\ ~isVoid THEN "missing return"
               ELSE IF Verifies(blocks') THEN "ok" ELSE "invalid"
  /\ UNCHANGED <<isVoid, body, cur, frames, stmts, live, excused>>

Done == status # "open" /\ UNCHANGED vars

Next ==
  \/ codegen_simple \/ codegen_compound \/ end_compound
  \/ (\E hasElse \in BOOLEAN : codegen_if(hasElse)) \/ end_then \/ end_else
  \/ (\E hasCondition \in BOOLEAN : codegen_for(hasCondition)) \/ end_for
  \/ codegen_continue \/ codegen_break
  \/ (\E hasExpr \in BOOLEAN : codegen_return(hasExpr))
  \/ codegen_abort \/ skip_body \/ end_function \/ Done

Spec == Init /\ [][Next]_vars

(***************************************************************************)
(* Properties.                                                             *)
(***************************************************************************)
\* The blocks that some call under way has still to fill.
Pending ==
  {cur} \cup UNION { {frames[k].exit_block, frames[k].step_block} \cup
                     (IF frames[k].kind = "then" THEN {frames[k].false_block} ELSE {}) :
                       k \in DOMAIN frames }

\* While the function is being built, every block but the pending ones has one
\* terminator with nothing after it, the pending ones have none yet, and the
\* current one has one exactly when the flow has ended there: the flag
\* is_terminated, which is passed from context to context, never lets a second
\* terminator be built nor one be left out (codegen.c:274-352, 400-420).  A
\* function the verifier rejects was none the compiler could be expected to
\* translate (codegen.c:558-563).
BlocksInOrder ==
  /\ status = "open" /\ ~excused =>
       /\ \A b \in DOMAIN blocks :
            /\ ~blocks[b].late
            /\ b \notin Pending => blocks[b].term # "none"
            /\ b \in Pending \ {cur} => blocks[b].term = "none"
       /\ (blocks[cur].term = "none") <=> live
  /\ status = "invalid" => excused

\* continue and break jump to the blocks of the innermost loop around them
\* (codegen.c:369-371, 400-410).
JumpsStayInLoop ==
  \A k \in DOMAIN frames :
    LET loops == { j \in 1..k : frames[j].kind = "loop" }
        inner == frames[CHOOSE j \in loops : \A i \in loops : i <= j]
    IN  /\ loops = {} => frames[k].continue_block = None /\ frames[k].break_block = None
        /\ loops # {} => /\ frames[k].continue_block = inner.step_block
                         /\ frames[k].break_block = inner.exit_block

\* The blocks that execution can get to in n steps.
Reached[n \in Nat] ==
  IF n = 0 THEN {1}
  ELSE LET S == Reached[n - 1] IN S \cup UNION { blocks[b].succs : b \in S }

\* In a compiled function no execution runs into the "unreachable" that ends an
\* if both of whose branches jump (codegen.c:345-348), and a function that
\* returns a value returns one on every way out of it (codegen.c:547-552).
EveryWayOutReturns ==
  status = "ok" =>
    \A b \in Reached[Len(blocks)] :
      /\ blocks[b].term # "unreachable"
      /\ blocks[b].succs = {} => blocks[b].term = IF isVoid THEN "retvoid" ELSE "ret"
==============================================================================
