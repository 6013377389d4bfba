------------------------------ MODULE SyntaxTree ------------------------------
(***************************************************************************)
(* The memory of the syntax tree: how the reducers (grammar_rules.c) build  *)
(* it while the parser reduces, how the code generator completes it, and    *)
(* how main.c and ast.c dispose of it in the end.                          *)
(*                                                                         *)
(* The heap is a sequence of blocks; a block holds the structs that lie in  *)
(* it one after the other (a node, the items of a list; none for a string). *)
(* A struct is its kind and its fields, a field is a pointer (the number of *)
(* a block, Null) or a struct.  A list under construction is a block with   *)
(* an array_t, whose items are in another block (its growth is LowArray's).  *)
(*                                                                         *)
(* Which tokens are read is Parser's subject.  Here a sentence is derived   *)
(* as it is parsed: "todo" holds the symbols that are still to be read and  *)
(* the reductions that are due after them, "stack" the values of the        *)
(* symbols on the parser's stack that are not terminals.                   *)
(***************************************************************************)
EXTENDS SyntaxTables, FiniteSets, FiniteSetsExt

CONSTANTS Topics   \* the sentences considered: the reducers of their rules, the
                   \* variants <<reducer, tag>> that are not used, and a bound on
                   \* the reductions of a sentence

VARIABLES topic,   \* [reducers, without, fuel]
          todo, stack,
          heap,    \* [blocks, faults]
          phase,   \* "parse", "generate", "disposed"
          lost     \* the blocks known to stay behind (see Forgotten)

vars == <<topic, todo, stack, heap, phase, lost>>

Null == 0
Struct(kind, f) == [kind |-> kind, f |-> f]
Block(structs) == [live |-> TRUE, of |-> structs]
TypeOf(kind) ==
  IF kind = "array_t" THEN "array_t" ELSE CHOOSE t \in DOMAIN Shapes : kind \in DOMAIN Shapes[t]
ShapeOf(kind) == Shapes[TypeOf(kind)][kind]

----------------------------------------------------------------------------
(* The C library, as far as the tree uses it.                              *)

Fault(h, what) == [h EXCEPT !.faults = @ \cup {what}]
Alloc(h, structs) == [h EXCEPT !.blocks = Append(@, Block(structs))]
Newest(h) == Len(h.blocks)

\* free; what the block held is gone.
Free(h, p) ==
  IF p = Null THEN h
  ELSE IF ~h.blocks[p].live THEN Fault(h, "double free")
  ELSE [h EXCEPT !.blocks[p] = [live |-> FALSE, of |-> <<>>]]

\* Whether the memory at p can be read as a struct of the given type.
Readable(h, p, type) ==
  /\ p # Null
  /\ h.blocks[p].live
  /\ h.blocks[p].of # <<>>
  /\ TypeOf(h.blocks[p].of[1].kind) = type

----------------------------------------------------------------------------
(* Building.                                                               *)

\* malloc and bzero: pointers are null, a type inside has no kind yet.
Zeroed(kind) ==
  LET shape == ShapeOf(kind)
  IN Struct(kind, [x \in DOMAIN shape |->
                     IF shape[x].inline THEN Struct("NO_TYPE", NoFields) ELSE Null])

Put(h, p, field, value) == [h EXCEPT !.blocks[p].of[1].f[field] = value]

\* Mutant: a node that was copied into its parent is not freed.
SetFieldNoFree(h, p, field, source, in) ==
  LET from == in[source.at + 1]
      what == ShapeOf(h.blocks[p].of[1].kind)[field].type
  IN CASE source.at >= Len(in) -> Fault(h, "token outside the rule")
       [] source.how = "own" -> Put(h, p, field, from)
       [] source.how = "name" -> Put(Alloc(h, <<>>), p, field, Newest(h) + 1)
       [] source.how \in {"copy", "keep"} /\ Readable(h, from, what) ->
            Put(h, p, field, h.blocks[from].of[1])
       [] source.how = "items" /\ Readable(h, from, "array_t") ->
            Free(Put(h, p, field, h.blocks[from].of[1].f.items), from)
       [] OTHER -> Fault(h, "not a node of this type")

\* One field of the node at p, from the tokens of the rule.
SetField(h, p, field, source, in) ==
  LET from == in[source.at + 1]
      what == ShapeOf(h.blocks[p].of[1].kind)[field].type
  IN CASE source.at >= Len(in) -> Fault(h, "token outside the rule")
       [] source.how = "own" -> Put(h, p, field, from)
       [] source.how = "name" -> Put(Alloc(h, <<>>), p, field, Newest(h) + 1)
       [] source.how = "copy" /\ Readable(h, from, what) ->
            Free(Put(h, p, field, h.blocks[from].of[1]), from)
       [] source.how = "keep" /\ Readable(h, from, what) ->
            Put(h, p, field, h.blocks[from].of[1])
       [] source.how = "items" /\ Readable(h, from, "array_t") ->
            Free(Put(h, p, field, h.blocks[from].of[1].f.items), from)
       [] OTHER -> Fault(h, "not a node of this type")

SetFields(h, p, from, in) ==
  FoldSet(LAMBDA field, g : SetField(g, p, field, from[field], in), h, DOMAIN from)

\* array_add to the list at p and free of the added node.
AddItem(h, p, type, in, i) ==
  IF i >= Len(in) THEN Fault(h, "token outside the rule")
  ELSE LET node == in[i + 1]
       IN IF ~Readable(h, p, "array_t") \/ ~Readable(h, node, type)
          THEN Fault(h, "not a node of this type")
          ELSE Free([h EXCEPT !.blocks[h.blocks[p].of[1].f.items].of = Append(@, h.blocks[node].of[1])],
                    node)

\* array_init: the header, and its items with the first addition.
NewList(h) ==
  LET g == Alloc(h, <<>>)
  IN Alloc(g, <<Struct("array_t", [items |-> Newest(g)])>>)

\* expr_comma: a third expression joins the two of a comma expression.
AddComma(h, in) ==
  LET first == in[1]
      second == in[3]
      is == h.blocks[first].of[1].kind = "COMMA_EXPR"
      exprs == h.blocks[first].of[1].f.exprs
      two == Alloc(h, <<h.blocks[first].of[1], h.blocks[second].of[1]>>)
      made == Alloc(two, <<Struct("COMMA_EXPR", [exprs |-> Newest(two)])>>)
  IN IF ~Readable(h, first, "expr") \/ ~Readable(h, second, "expr")
     THEN [h |-> Fault(h, "not a node of this type"), ptr |-> Null]
     ELSE IF is
     THEN [h |-> Free([h EXCEPT !.blocks[exprs].of = Append(@, h.blocks[second].of[1])], second),
           ptr |-> first]
     ELSE [h |-> Free(Free(made, first), second), ptr |-> Newest(made)]

\* A reducer: the new heap and the value of the reduced symbol.  Unless the
\* reducer sets it, the value is the one of the first token (parser.c:69).
Reduce(h, step, in) ==
  LET result(g, p) == [h |-> g, ptr |-> p]
      made == Alloc(h, <<Zeroed(step.kind)>>)
      listed == NewList(h)
      skipped == step.at < Len(in) /\ in[step.at + 1] = Null
  IN CASE step.does = "make" -> result(SetFields(made, Newest(made), step.from, in), Newest(made))
       [] step.does = "pass" -> result(h, in[step.at + 1])
       [] step.does = "fill" ->
            IF step.from # NoFields /\ ~Readable(h, in[1], TypeOf(step.kind))
            THEN result(Fault(h, "not a node of this type"), in[1])
            ELSE result(SetFields(h, in[1], step.from, in), in[1])
       [] step.does = "comma" -> AddComma(h, in)
       [] step.does = "sparse list" /\ skipped -> result(listed, Newest(listed))
       [] step.does = "sparse add" /\ skipped -> result(h, in[1])
       [] step.does \in {"list", "sparse list"} ->
            result(AddItem(listed, Newest(listed), step.kind, in, 0), Newest(listed))
       [] step.does \in {"add", "sparse add"} -> result(AddItem(h, in[1], step.kind, in, step.at), in[1])

----------------------------------------------------------------------------
(* type_copy, which gives `x := e` the type of e and a function's symbol    *)
(* the types of its signature.  An interface member is copied without its   *)
(* kind (ast.c:407-420), which whoever looks at the copy reads.            *)

Copied(kind) ==
  IF TypeOf(kind) \in {"type", "struct_member", "interface_member"} THEN DOMAIN ShapeOf(kind) ELSE {}

RECURSIVE CopyAll(_, _)

\* A new block with copies of the structs.
CopyBlock(h, p) == CopyAll(h, h.blocks[p].of)

CopyStruct(h, s) ==
  LET copied == FoldSet(LAMBDA field, c :
                          IF s.f[field] = Null THEN c
                          ELSE [h |-> CopyBlock(c.h, s.f[field]),
                                s |-> [c.s EXCEPT !.f[field] = Newest(c.h) + 1]],
                        [h |-> h, s |-> s], Copied(s.kind))
  IN IF TypeOf(s.kind) = "interface_member"
     THEN [copied EXCEPT !.h = Fault(@, "undefined kind")]
     ELSE copied

CopyAll(h, structs) ==
  LET q == Newest(h) + 1
  IN FoldSet(LAMBDA i, g :
               LET c == CopyStruct(g, g.blocks[q].of[i])
               IN [c.h EXCEPT !.blocks[q].of[i] = c.s],
             Alloc(h, structs), 1..Len(structs))

----------------------------------------------------------------------------
(* Disposing: expr_dispose, stmt_dispose, block_item_dispose, decl_dispose, *)
(* type_dispose and unit_dispose.                                          *)

RECURSIVE DisposeStruct(_, _)

\* Every struct in the block at p.
DisposeBlock(h, p) ==
  IF p = Null THEN h
  ELSE IF ~h.blocks[p].live THEN Fault(h, "use after free")
  ELSE FoldSet(LAMBDA i, g : DisposeStruct(g, h.blocks[p].of[i]), h, 1..Len(h.blocks[p].of))

\* Mutant: the node is freed before its parts.
DiscardFirst(h, p) == DisposeBlock(Free(h, p), p)

Discard(h, p) == Free(DisposeBlock(h, p), p)

\* Any other kind ends in die() or abort().
DisposeStruct(h, s) ==
  IF s.kind \notin DOMAIN Disposal THEN Fault(h, "no disposal for this kind")
  ELSE LET how == Disposal[s.kind]
           inline(field) == ShapeOf(s.kind)[field].inline
       IN FoldSet(LAMBDA field, g :
                    CASE how[field] = "free" -> Free(g, s.f[field])
                      [] how[field] = "both" -> Discard(g, s.f[field])
                      [] how[field] = "dispose" /\ inline(field) -> DisposeStruct(g, s.f[field])
                      [] how[field] = "dispose" /\ ~inline(field) -> DisposeBlock(g, s.f[field]),
                  h, DOMAIN how)

\* main.c: unit_dispose for every unit, array_dispose and free of the list.
DisposeUnits(h, p) ==
  LET items == h.blocks[p].of[1].f.items
  IN Free(Discard(h, items), p)

----------------------------------------------------------------------------
(* Structs inside structs, pointers and what they reach.                   *)

RECURSIVE Inside(_)
Inside(s) ==
  {s} \cup UNION {Inside(s.f[x]) : x \in {y \in DOMAIN s.f : s.kind # "array_t" /\ ShapeOf(s.kind)[y].inline}}

StructsIn(h, p) == UNION {Inside(h.blocks[p].of[i]) : i \in 1..Len(h.blocks[p].of)}

\* The pointers of the structs in a block: the block they are in, the field
\* and where they point to.
PointersIn(h, p) ==
  UNION {{[from |-> p, in |-> s, field |-> x, to |-> s.f[x]] :
            x \in {y \in DOMAIN s.f : (s.kind = "array_t" \/ ~ShapeOf(s.kind)[y].inline) /\ s.f[y] # Null}} :
           s \in StructsIn(h, p)}

RECURSIVE Reach(_, _)
Reach(h, set) ==
  LET next == set \cup {r.to : r \in UNION {PointersIn(h, p) : p \in set}}
  IN IF next = set THEN set ELSE Reach(h, next)

Live(h) == {p \in 1..Len(h.blocks) : h.blocks[p].live}
Roots == {stack[i] : i \in 1..Len(stack)} \ {Null}
Tree == Reach(heap, Roots)
TreeStructs == UNION {StructsIn(heap, p) : p \in Tree}

----------------------------------------------------------------------------
Init ==
  /\ topic \in Topics
  /\ todo = <<[need |-> "unit_list"]>>
  /\ stack = <<>>
  /\ heap = [blocks |-> <<>>, faults |-> {}]
  /\ phase = "parse"
  /\ lost = {}

\* The text goes on with a variant of the symbol that is to be read next.
\* Every symbol takes one reduction at least, which the fuel must allow for.
Needs(work) == Cardinality({i \in 1..Len(work) : "need" \in DOMAIN work[i]})
Predict(v) ==
  /\ phase = "parse" /\ todo # <<>>
  /\ "need" \in DOMAIN Head(todo)
  /\ Head(todo).need = v.lhs
  /\ v.reducer \in topic.reducers \cup {Default} /\ <<v.reducer, v.tag>> \notin topic.without
  /\ topic.fuel > Needs(todo) - 1 + Cardinality({j \in 1..Len(v.rhs) : v.rhs[j] # "_"})
  /\ topic' = [topic EXCEPT !.fuel = @ - 1]
  /\ todo' = [i \in 1..Cardinality({j \in 1..Len(v.rhs) : v.rhs[j] # "_"}) |->
                [need |-> SelectSeq(v.rhs, LAMBDA sym : sym # "_")[i]]]
             \o <<[reduce |-> v]>> \o Tail(todo)
  /\ UNCHANGED <<stack, heap, phase, lost>>

\* A reduction of parse(): the values of the right side are replaced by one.
ReduceVariant ==
  /\ phase = "parse" /\ todo # <<>>
  /\ "reduce" \in DOMAIN Head(todo)
  /\ LET v == Head(todo).reduce
         values(i) == Cardinality({j \in 1..i : v.rhs[j] # "_"})
         base == Len(stack) - values(Len(v.rhs))
         in == [i \in 1..Len(v.rhs) |-> IF v.rhs[i] = "_" THEN Null ELSE stack[base + values(i)]]
         result == Reduce(heap, Reducers[v.reducer][v.tag + 1], in)
     IN /\ heap' = result.h
        /\ stack' = Append(SubSeq(stack, 1, base), result.ptr)
  /\ todo' = Tail(todo)
  /\ UNCHANGED <<topic, phase, lost>>

Accept ==
  /\ phase = "parse" /\ todo = <<>>
  /\ phase' = "generate"
  /\ UNCHANGED <<topic, todo, stack, heap, lost>>

\* codegen_unit, stage 1, unit by unit: the type of a function is made of
\* copies of the types in its declaration (malloc(0) gives a block, too).
UnitBlock == heap.blocks[stack[1]].of[1].f.items
Undeclared == {i \in 1..Len(heap.blocks[UnitBlock].of) :
                 /\ heap.blocks[UnitBlock].of[i].kind = "FUNC_UNIT"
                 /\ heap.blocks[UnitBlock].of[i].f.type.kind = "NO_TYPE"}

DeclareFunction ==
  /\ phase = "generate" /\ heap.faults = {}
  /\ Undeclared # {}
  /\ LET i == Min(Undeclared)
         func == heap.blocks[UnitBlock].of[i].f
         params == IF func.params = Null THEN <<>> ELSE heap.blocks[func.params].of
         returns == CopyAll(heap, <<func.return_type>>)
         takes == CopyAll(returns, [n \in 1..Len(params) |-> params[n].f.type])
         type == Struct("FUNC_TYPE", [return_type |-> Newest(heap) + 1, args |-> Newest(returns) + 1])
     IN heap' = [takes EXCEPT !.blocks[UnitBlock].of[i].f.type = type]
  /\ UNCHANGED <<topic, todo, stack, phase, lost>>

\* codegen_decl: a variable without a type gets a copy of the type of its
\* initial value, which is the type of something the file declares.
Untyped == {<<p, i>> \in Tree \X (1..8) :
              /\ i <= Len(heap.blocks[p].of)
              /\ heap.blocks[p].of[i].kind = "VARIABLE_DECL"
              /\ heap.blocks[p].of[i].f.type.kind = "NO_TYPE"}

InferType ==
  /\ phase = "generate" /\ heap.faults = {} /\ Undeclared = {}
  /\ \E place \in Untyped, type \in {s \in TreeStructs : TypeOf(s.kind) = "type"} :
       /\ type.kind \notin {"NO_TYPE", "VOID_TYPE", "PLACEHOLDER_TYPE"}
       /\ LET copied == CopyStruct(heap, type)
          IN heap' = [copied.h EXCEPT !.blocks[place[1]].of[place[2]].f.type = copied.s]
  /\ UNCHANGED <<topic, todo, stack, phase, lost>>

\* What no dispose function frees: the node of an expression statement (only
\* its parts are), the count of new, the type made for a function, and the
\* node of make's type, which its reducer has copied and let go of.
Forgotten ==
  {s.f.expr : s \in {t \in TreeStructs : t.kind = "EXPR_STMT"}}
  \cup Reach(heap, {s.f.expr : s \in {t \in TreeStructs : t.kind = "NEW_BUILTIN"}} \ {Null})
  \cup Reach(heap, UNION {{s.f.type.f.return_type, s.f.type.f.args} :
                            s \in {t \in TreeStructs : t.kind = "FUNC_UNIT"}})
  \cup {p \in Live(heap) \ Tree : heap.blocks[p].of # <<>> /\ TypeOf(heap.blocks[p].of[1].kind) = "type"}

\* The end of compile(), once every function and variable has a type.
Dispose ==
  /\ phase = "generate" /\ heap.faults = {}
  /\ Undeclared = {} /\ Untyped = {}
  /\ heap' = DisposeUnits(heap, stack[1])
  /\ stack' = <<>>
  /\ lost' = Forgotten
  /\ phase' = "disposed"
  /\ UNCHANGED <<topic, todo>>

Next == ReduceVariant \/ Accept \/ DeclareFunction \/ InferType \/ Dispose \/ \E v \in Variants : Predict(v)

Spec == Init /\ [][Next]_vars

----------------------------------------------------------------------------
\* No reducer reads a token its rule does not have or takes a node for one of
\* another type, and no dispose function frees memory twice, reads what is
\* freed or meets a kind it has no case for (grammar_rules.c, ast.c).
MemorySafe == heap.faults = {}

\* The fields that the code generator takes to be absent sometimes.
Optional ==
  {<<"CALL_EXPR", "args">>, <<"INDEX_SLICE_EXPR", "start">>, <<"INDEX_SLICE_EXPR", "end">>,
   <<"NEW_BUILTIN", "expr">>, <<"IF_STMT", "stmt">>, <<"IF_STMT", "else_stmt">>,
   <<"RETURN_STMT", "expr">>, <<"STMT_BLOCK_ITEM", "stmt">>, <<"VARIABLE_DECL", "initial">>,
   <<"CONST_DECL", "type">>, <<"FUNC_UNIT", "body">>, <<"FUNC_UNIT", "params">>,
   <<"FUNC_PARAM", "name">>, <<"FUNC_TYPE", "args">>, <<"INTERFACE_TYPE", "members">>}
  \cup {<<kind, x>> : kind \in {"DO_STMT", "FOR_STMT"}, x \in {"initial", "condition", "step", "stmt"}}
  \cup {<<kind, "stmt">> : kind \in {"SWITCH_STMT", "CASE_STMT", "DEFAULT_STMT"}}
  \cup {<<"SWITCH_STMT", "else_stmt">>}

\* In a finished tree every pointer of a node leads to nodes of the type that
\* ast.h gives the field, though the reducers take them from void pointers,
\* and only the fields the code generator tests for are null.
FieldsFit ==
  phase = "generate" =>
    \A s \in TreeStructs : s.kind # "array_t" =>
      \A x \in DOMAIN s.f :
        LET shape == ShapeOf(s.kind)[x]
        IN IF shape.inline THEN TypeOf(s.f[x].kind) = shape.type
           ELSE /\ s.f[x] = Null => <<s.kind, x>> \in Optional
                /\ s.f[x] # Null => \A i \in 1..Len(heap.blocks[s.f[x]].of) :
                                      TypeOf(heap.blocks[s.f[x]].of[i].kind) = shape.type

\* At every moment the nodes form a tree: every block that can be reached is
\* live and has one owner, a token of the parser or one field of one node,
\* and no live block is out of reach but the node of a type given to make.
OneOwner ==
  phase # "disposed" =>
    LET refs == UNION {PointersIn(heap, p) : p \in Tree}
        owners(p) == Cardinality({i \in 1..Len(stack) : stack[i] = p})
                     + Cardinality({r \in refs : r.to = p})
    IN /\ \A p \in Tree : heap.blocks[p].live /\ owners(p) = 1
       /\ \A p \in Live(heap) \ Tree :
            heap.blocks[p].of # <<>> /\ TypeOf(heap.blocks[p].of[1].kind) = "type"

\* When a file has been compiled, what its tree holds is freed completely but
\* for the four things that are known to be forgotten (ast.c, and
\* codegen.c:488-498 for a function's type).  The types of expressions are not
\* in the model, and the trees of imported files are never disposed of.
DisposalIsComplete == phase = "disposed" => Live(heap) = lost
===============================================================================
