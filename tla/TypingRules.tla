----------------------------- MODULE TypingRules -----------------------------
(***************************************************************************)
(* Which expressions are well typed, by rules instead of by a walk with     *)
(* hints: Typings(e) is the set of all ways to give every node of e a type. *)
(* A number may have any numeric type, a constant every type its value may  *)
(* have, sizeof every integer type; everything else follows from the        *)
(* operands, which must have exactly the same type where they meet: no      *)
(* value changes its type without a cast.                                  *)
(***************************************************************************)
EXTENDS Expressions

IntTypes == {Integer(w) : w \in {8, 32, 64}}
NumTypes == IntTypes \cup {Float(32)}

Types(set) == {k.type : k \in set}
\* Where the context wants t, an expression that may have this type has it.
Preferring(set, t) == IF t \in Types(set) THEN {k \in set : k.type = t} ELSE set
Indices(set) == {k \in Preferring(set, Integer(64)) : k.type \in IntTypes}

\* What has an address.  A call has one, of a copy of its result.
IsPlace(e) ==
  \/ e.op \in {"*", "index", "member", "call"}
  \/ e.op = "ident" /\ e.name \in DOMAIN Scope /\ Scope[e.name].is = "var"

Comparable(t) == t \in NumTypes \/ (t.ptr > 0 /\ t.kind = "INTEGER_TYPE")
Equatable(t) == Comparable(t) \/ t.kind = "BOOLEAN_TYPE"

Resolve(t) == resolve_type_name(Scope, t)
IR(t) == codegen_type(Scope, t)
Castable(a, b) == Resolve(a) = Resolve(b) \/ CastClass(Resolve(b)) \in CastsTo(CastClass(Resolve(a)))

RECURSIVE Typings(_)

\* All ways to type a sequence of expressions.
Each(es) == {ks \in [1..Len(es) -> UNION {Typings(es[i]) : i \in 1..Len(es)}] :
               \A i \in 1..Len(es) : ks[i] \in Typings(es[i])}

As(e, t) == [e EXCEPT !.type = t]
Of(e, ks, t) == [e EXCEPT !.kids = ks, !.type = t]

UnaryTypings(e) ==
  LET all == Typings(e.kids[1])
      from(set, t(_)) == {Of(e, <<k>>, t(k.type)) : k \in set}
      same(t) == t
  IN CASE e.op = "&" -> from({k \in all : IsPlace(k) /\ k.type # Void}, PtrTo)
       [] e.op = "*" -> from({k \in all : k.type.ptr > 0 /\ Sized(Pointee(k.type))}, Pointee)
       [] e.op = "+x" -> from(all, same)
       [] e.op = "-x" -> from({k \in all : k.type \in NumTypes}, same)
       [] e.op = "~" -> from({k \in all : k.type \in IntTypes}, same)
       [] e.op = "!" -> from({k \in all : k.type = Bool}, same)
       [] e.op = "incdec" -> from({k \in all : IsPlace(k) /\ k.type \in IntTypes}, same)

BinaryTypings(e) ==
  LET met == {<<a, b>> \in Typings(e.kids[1]) \X Typings(e.kids[2]) : a.type = b.type}
      allowed(t) == CASE e.op \in Arithmetic -> t \in NumTypes
                      [] e.op \in Bitwise -> t \in IntTypes
                      [] e.op \in Order -> Comparable(t)
                      [] e.op \in Equality -> Equatable(t)
                      [] e.op \in Logic -> t = Bool
                      [] e.op \in {"+=", "%="} -> t \in NumTypes
                      [] e.op = "=" -> t # Void
      place == e.op \in {"=", "+=", "%="}
  IN {Of(e, ks, IF place \/ e.op \in Hinted THEN ks[1].type ELSE Bool) :
        ks \in {m \in met : allowed(m[1].type) /\ (place => IsPlace(m[1]))}}

ContainerTypings(e) ==
  LET all == Typings(e.kids[1])
      bare(t) == Resolve(t).ptr = 0
      bounds == {ks \in Each(Tail(e.kids)) : \A i \in DOMAIN ks : ks[i] \in Indices(Typings(e.kids[i + 1]))}
      inside(kind) == {k \in all : bare(k.type) /\ Resolve(k.type).kind = kind}
      arrays == {k \in inside("ARRAY_TYPE") : IsPlace(k)}
      structs == {k \in all : (bare(k.type) => IsPlace(k)) /\ Resolve(k.type).ptr <= 1}
      struct(k) == IF bare(k.type) THEN Resolve(k.type) ELSE Resolve(Pointee(k.type))
  IN CASE e.op = "index" ->
            {Of(e, <<k>> \o ks, Resolve(k.type).of) : k \in arrays \cup inside("SLICE_TYPE"), ks \in bounds}
            \cup {Of(e, <<k>> \o ks, Pointee(k.type)) : k \in {j \in all : j.type.ptr > 0 /\ Sized(Pointee(j.type))},
                                                        ks \in bounds}
       [] e.op = "slice" ->
            {Of(e, <<k>> \o ks, k.type) : k \in inside("SLICE_TYPE"), ks \in bounds}
            \cup {Of(e, <<k>> \o ks, Slice(Resolve(k.type).of)) : k \in arrays, ks \in bounds}
       [] e.op = "member" ->
            {Of(e, <<k>>, struct(k).members[MemberAt(struct(k), e.name)].type) :
               k \in {j \in structs : /\ struct(j).ptr = 0 /\ struct(j).kind = "STRUCT_TYPE"
                                      /\ \E i \in DOMAIN struct(j).members : struct(j).members[i].name = e.name}}
       [] e.op = "len" -> {Of(e, <<k>>, Integer(64)) : k \in inside("SLICE_TYPE")}
       [] e.op = "dispose" -> {Of(e, <<k>>, Void) : k \in {j \in inside("SLICE_TYPE") : IsPlace(j)}}

\* The arguments of a call are compared by LLVM, which does not know names.
CallTypings(e) ==
  LET name == e.kids[1].name
      t == Scope[name].type
      args == {ks \in Each(Tail(e.kids)) :
                 /\ Len(ks) = Len(t.args)
                 /\ \A i \in DOMAIN ks : /\ ks[i] \in Preferring(Typings(e.kids[i + 1]), t.args[i])
                                         /\ IR(ks[i].type) = IR(t.args[i])}
  IN IF /\ name \in DOMAIN Scope /\ Scope[name].is \in {"func", "var"} /\ t.kind = "FUNC_TYPE"
        /\ t.ptr = (IF Scope[name].is = "func" THEN 0 ELSE 1)
     THEN {Of(e, <<e.kids[1]>> \o ks, t.of) : ks \in args} ELSE {}

IdentTypings(e) ==
  LET sym == Scope[e.name]
  IN CASE e.name = "true" -> {As(e, Bool)}
       [] e.name # "true" /\ e.name \notin DOMAIN Scope -> {}
       [] e.name \in DOMAIN Scope ->
            CASE sym.is = "var" -> {As(e, sym.type)}
              [] sym.is = "func" -> {As(e, PtrTo(sym.type))}
              [] sym.is = "const" -> {As(e, t) : t \in Types(Typings(sym.value))}
              [] sym.is = "type" -> {}

Typings(e) ==
  CASE e.op = "number" -> {As(e, t) : t \in NumTypes \cup (IF e.name \in {"0", "1"} THEN {Bool} ELSE {})}
    [] e.op = "string" -> {As(e, PtrTo(Integer(8)))}
    [] e.op = "ident" -> IdentTypings(e)
    [] e.op \in {"&", "*", "+x", "-x", "~", "!", "incdec"} -> UnaryTypings(e)
    [] e.op \in Operators \cup {"=", "+=", "%="} -> BinaryTypings(e)
    [] e.op = "?:" -> {Of(e, ks, ks[2].type) :
                         ks \in {js \in Each(e.kids) : js[1].type = Bool /\ js[2].type = js[3].type /\ js[2].type # Void}}
    [] e.op = "comma" -> {Of(e, ks, ks[Len(ks)].type) :
                            ks \in {js \in Each(e.kids) : \A i \in DOMAIN js :
                                      js[i] \in Preferring(Typings(e.kids[i]), js[Len(js)].type)}}
    [] e.op = "cast" -> {Of(e, <<k>>, e.to) : k \in {j \in Preferring(Typings(e.kids[1]), e.to) : Castable(j.type, e.to)}}
    [] e.op = "sizeof" -> {Of(e, ks, t) : ks \in {js \in Each(e.kids) : \A i \in DOMAIN js : js[i].type # Void},
                                          t \in IntTypes}
    [] e.op = "call" -> CallTypings(e)
    [] e.op \in {"index", "slice", "member", "len", "dispose"} -> ContainerTypings(e)
    [] e.op = "new" -> {Of(e, ks, PtrTo(e.to)) : ks \in {js \in Each(e.kids) : \A i \in DOMAIN js : js[i] \in Indices(Typings(e.kids[i]))}}
    [] e.op = "make" -> {Of(e, <<k>>, e.to) : k \in {j \in Indices(Typings(e.kids[1])) : IsSlice(Resolve(e.to))}}
    [] e.op = "free" -> {Of(e, <<k>>, Void) : k \in {j \in Typings(e.kids[1]) : j.type.ptr > 0}}

\* The typings a statement leaves to its expression.
Fits(st) ==
  LET all == Typings(st.e)
      right(t) == CASE st.does = "decl" -> t = st.to
                    [] st.does = "infer" -> Sized(t)
                    [] st.does = "expr" -> TRUE
                    [] st.does = "return" -> IR(t) = IR(st.to)
                    [] st.does \in {"if", "for"} -> t = Bool
  IN {k \in (IF st.does = "return" THEN Preferring(all, st.to) ELSE all) : right(k.type)}

----------------------------------------------------------------------------
(* The known limits of the code generator: what it does not check itself    *)
(* (LLVM may, or may not), what it checks with an assertion, and what it    *)
(* generates wrongly.  Each is a condition on a node of the prepared tree.  *)

RECURSIVE Nodes(_)
Nodes(e) == {e} \cup UNION {Nodes(e.kids[i]) : i \in DOMAIN e.kids}

KidPtr(n) == \E i \in DOMAIN n.kids : n.kids[i].type.ptr > 0
Moves(e) == \E n \in Nodes(e) :   \* the builder goes on to another block
  \/ n.op = "?:"
  \/ n.op \in {"new", "make"} /\ n.kids # <<>>
  \/ n.op \in {"index", "slice"} /\ Resolve(n.kids[1].type).kind = "SLICE_TYPE"
Flexible(e) == Cardinality(Types(Typings(e))) > 1

\* The constants an expression names, or the values of those name.
RECURSIVE Consts(_)
Consts(e) ==
  IF e.op = "ident" /\ e.name \in DOMAIN Scope /\ Scope[e.name].is = "const"
  THEN {e.name} \cup UNION {Consts(n) : n \in Nodes(Scope[e.name].value)}
  ELSE {}

\* Operators look at the kind of a type and not at its pointers.
PointerTakenForNumber(n) ==
  \/ (n.op = "number" \/ Consts(n) # {}) /\ n.type.ptr > 0
  \/ n.op \in {"-x", "~", "!", "incdec", "+=", "%="} \cup Operators /\ KidPtr(n)
  \/ n.op = "index" /\ n.kids[2].type.ptr > 0
  \/ n.op \in {"new", "make"} /\ KidPtr(n)
\* An lvalue is wanted of what has none: an assertion, a null pointer or a
\* value that is taken for its address.
NotAPlace(n) ==
  \/ n.op \in {"&", "=", "+=", "%=", "incdec", "dispose"} /\ ~IsPlace(n.kids[1])
  \/ n.op \in {"index", "slice", "member"} /\ ~IsPlace(n.kids[1]) /\ Resolve(n.kids[1].type).ptr = 0
BoolArithmetic(n) ==
  n.op \in {"+=", "%="} \cup (Operators \ (Equality \cup Logic)) /\ n.kids[1].type.kind = "BOOLEAN_TYPE"
AssignmentOperator(n) == n.op = "%=" \/ (n.op = "+=" /\ n.kids[1].type.kind # "INTEGER_TYPE")
\* codegen_call_expr.c:4
UncheckedCall(n) ==
  /\ n.op = "call" /\ n.kids[1].name \in DOMAIN Scope /\ Scope[n.kids[1].name].is # "const"
  /\ LET t == Scope[n.kids[1].name].type
     IN /\ t.kind = "FUNC_TYPE"
        /\ \/ Len(t.args) # Len(n.kids) - 1
           \/ \E i \in DOMAIN t.args :
                \/ n.kids[i + 1].type.kind # "NO_TYPE" /\ IR(n.kids[i + 1].type) # IR(t.args[i])
                \/ t.args[i].kind = "NAMED_TYPE" /\ Flexible(n.kids[i + 1])
UncheckedCondition(n) == n.op = "?:" /\ n.kids[1].type # Bool
\* The phi of a conditional names the wrong block (codegen_conditional_expr.c:42).
BlockMoved(n) == n.op = "?:" /\ (Moves(n.kids[2]) \/ Moves(n.kids[3]))
\* A branch is not told the type of the other one, operands of && not that
\* they are to be bool, operands of a comma not the type of the last.
UntypedBranch(n) == n.op = "?:" /\ Flexible(n.kids[2]) # Flexible(n.kids[3])
UntypedOperand(n) ==
  \/ n.op \in Logic /\ Flexible(n.kids[1]) /\ Flexible(n.kids[2])
  \/ n.op = "comma" /\ ~Flexible(n.kids[Len(n.kids)]) /\ \E i \in DOMAIN n.kids : Flexible(n.kids[i])
UncheckedSlice(n) ==
  \/ n.op = "slice" /\ Len(n.kids) = 1 /\ Resolve(n.kids[1].type).kind = "SLICE_TYPE"
  \/ n.op = "slice" /\ Resolve(n.kids[1].type).kind = "ARRAY_TYPE"
     /\ (n.kids[1].type.kind = "NAMED_TYPE" \/ \E i \in 2..Len(n.kids) : n.kids[i].type # Integer(64))
  \/ n.op \in {"slice", "len", "dispose"} /\ n.kids[1].type.ptr > 0
  \/ n.op = "make" /\ n.to.ptr > 0
UncheckedCount(n) == n.op \in {"new", "make"} /\ n.kids # <<>> /\ n.kids[1].type \notin IntTypes
UncheckedSizeof(n) ==
  n.op = "sizeof" /\ (n.type \notin IntTypes \/ \E i \in DOMAIN n.kids : n.kids[i].type = Void)
VoidTaken(n) == n.op \in {"&", "?:"} /\ \E i \in DOMAIN n.kids : n.kids[i].type = Void
FunctionTaken(n) == n.op = "*" /\ ~Sized(n.type)
\* Arrays of equal length are equal types, whatever they hold (ast.c:473).
ArraysTakenAsEqual(a, b) == type_equal(Resolve(a), Resolve(b)) /\ Resolve(a) # Resolve(b)
ArrayMismatch(n) ==
  \/ n.op \in {"=", "?:"} /\ \E i, j \in DOMAIN n.kids : ArraysTakenAsEqual(n.kids[i].type, n.kids[j].type)
  \/ n.op = "cast" /\ ArraysTakenAsEqual(n.kids[1].type, n.to)

Limit(n) ==
  \/ PointerTakenForNumber(n) \/ NotAPlace(n) \/ BoolArithmetic(n) \/ AssignmentOperator(n)
  \/ UncheckedCall(n) \/ UncheckedCondition(n) \/ BlockMoved(n) \/ UntypedBranch(n) \/ UntypedOperand(n)
  \/ UncheckedSlice(n)
  \/ UncheckedCount(n) \/ UncheckedSizeof(n) \/ VoidTaken(n) \/ FunctionTaken(n) \/ ArrayMismatch(n)

Done == past # <<>>
stmt == past[Len(past)]

\* The statement itself: what is returned and the condition of a loop are not
\* checked, a number has no type that has a name.
StmtLimit ==
  \/ stmt.does = "return" /\ IR(tree.type) # IR(stmt.to)
  \/ stmt.does = "for" /\ tree.type # Bool
  \/ stmt.does = "infer" /\ ~Sized(tree.type)
  \/ stmt.does = "decl" /\ ArraysTakenAsEqual(tree.type, stmt.to)
  \/ stmt.does = "return" /\ stmt.to.kind = "NAMED_TYPE" /\ Flexible(stmt.e)

\* There is one node for the value of a constant, and every use of the constant
\* gives it a type (codegen_ident_expr.c:23): a later use finds that of an
\* earlier one, an earlier one in the same statement that of the last.
ConstShared ==
  \/ \E i \in 1..(Len(past) - 1) : \E m \in Nodes(past[i].e), n \in Nodes(tree) : Consts(m) \cap Consts(n) # {}
  \/ \E m, n \in Nodes(tree) : m.type # n.type /\ Consts(m) \cap Consts(n) # {}

Limited == StmtLimit \/ ConstShared \/ \E n \in Nodes(tree) : Limit(n)

----------------------------------------------------------------------------

\* A statement that the compiler accepts can be typed in exactly one way, and
\* that is how its nodes have been typed: no operand has been converted and
\* no type has been guessed (README.md:4, "no lossy implicit casts").
AcceptedIsTyped == Done /\ state.outcome = "ok" /\ ~Limited => Fits(stmt) = {tree}

\* A statement that can be typed in exactly one way is accepted: hints reach
\* every number, however deep (test/binop_typehint.low).
TypedIsAccepted == Done /\ ~Limited /\ Cardinality(Fits(stmt)) = 1 => state.outcome = "ok"

\* Apart from the known limits the compiler never runs into an assertion, nor
\* LLVM, nor memory that is not there: what it refuses it refuses with a
\* message.
RefusedWithMessage == Done /\ ~Limited => state.outcome \in {"ok", "error"}
===============================================================================
