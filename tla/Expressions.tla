----------------------------- MODULE Expressions -----------------------------
(***************************************************************************)
(* How the compiler types expressions and generates code for them:          *)
(* prepare_expr walks down with the type the context wants (the hint) and   *)
(* gives every node of the tree a type, codegen_expr then builds LLVM       *)
(* instructions and relies on those types.  Both are operators here that    *)
(* thread a state: the symbols (an untyped constant holds its value's node, *)
(* which every use prepares again), the outcome so far, and the basic       *)
(* blocks.  Of a value only its LLVM type is kept.                         *)
(*                                                                         *)
(* Outcomes: "ok", "error" (derror), "abort" (assert, die, abort), "llvm"   *)
(* (LLVM is given what it does not allow and stops, at once or when the     *)
(* function is verified) and "undefined" (memory that holds no such value   *)
(* is read).  After the first one that is not "ok" nothing happens any      *)
(* more.  Interfaces are left out.                                         *)
(***************************************************************************)
EXTENDS LowTypes, FiniteSets, SequencesExt

CONSTANTS Scope,      \* the symbols of the file: name -> symbol
          Programs    \* sequences of statements

VARIABLES program,    \* the statements that are still to be compiled
          state,      \* [scope, outcome, cur, next]
          past,       \* the statements that have been compiled
          tree        \* the expression of the last one as prepare_expr has left it

vars == <<program, state, past, tree>>

----------------------------------------------------------------------------
(* Expressions, symbols and statements.                                    *)

Node(op, kids) == [op |-> op, kids |-> kids, type |-> NoType]
NamedNode(op, kids, name) == [op |-> op, kids |-> kids, type |-> NoType, name |-> name]
Number(text) == NamedNode("number", <<>>, text)
String == Node("string", <<>>)
Ident(name) == NamedNode("ident", <<>>, name)
Unary(op, e) == Node(op, <<e>>)           \* & * + - ~ ! incdec sizeof free len dispose
Binary(op, e, f) == Node(op, <<e, f>>)    \* and =, +=, %=, index
Cond(c, e, f) == Node("?:", <<c, e, f>>)
Comma(es) == Node("comma", es)
To(op, t, es) == [op |-> op, kids |-> es, type |-> NoType, to |-> t]   \* cast, sizeof type, new, make
Call(name, es) == Node("call", <<Ident(name)>> \o es)
SliceOf(e, es) == Node("slice", <<e>> \o es)
Member(e, name) == NamedNode("member", <<e>>, name)

Var(t) == [is |-> "var", type |-> t]
Fun(t) == [is |-> "func", type |-> t]
Const(e) == [is |-> "const", value |-> e]
TypeName(t) == [is |-> "type", type |-> t]

Arithmetic == {"+", "/"}                  \* + - * / %
Bitwise == {"<<", "|"}                    \* << >> & ^ |
Order == {"<"}                            \* < > <= >=
Equality == {"=="}                        \* == !=
Logic == {"&&"}                           \* && ||
Hinted == Arithmetic \cup Bitwise
Operators == Hinted \cup Order \cup Equality \cup Logic

----------------------------------------------------------------------------
(* prepare_expr.  An argument beyond the parameters of a function gets a    *)
(* hint that lies behind the array of its types.                           *)

NoHint == [kind |-> "no hint", ptr |-> 0]
Beyond == [kind |-> "beyond", ptr |-> 0]

Ok(r) == r.s.outcome = "ok"
Fail(r, outcome) == IF Ok(r) THEN [r EXCEPT !.s.outcome = outcome] ELSE r
Require(r, holds, outcome) == IF Ok(r) /\ ~holds THEN Fail(r, outcome) ELSE r
Typed(r, t) == IF Ok(r) THEN [r EXCEPT !.e.type = t] ELSE r
KidType(r, i) == r.e.kids[i].type
Resolved(r, t) == resolve_type_name(r.s.scope, t)
Lookup(r, name) == r.s.scope[name]

\* The hint is read where it says what type the node has.
FromHint(r, hint) ==
  IF hint = NoHint THEN r
  ELSE Typed(Require(r, hint # Beyond, "undefined"), hint)

RECURSIVE prepare_expr(_, _, _)

Kid(r, i, hint) ==
  IF ~Ok(r) THEN r
  ELSE LET k == prepare_expr(r.s, r.e.kids[i], hint)
       IN [s |-> k.s, e |-> [r.e EXCEPT !.kids[i] = k.e]]

Kids(r, from, hints(_)) ==
  FoldLeft(LAMBDA q, i : Kid(q, i, hints(i)), r, [j \in 1..(Len(r.e.kids) - from + 1) |-> from + j - 1])

prepare_ident_expr(r, hint) ==
  LET name == r.e.name
      known == name \in DOMAIN r.s.scope
      sym == Lookup(r, name)
      used == prepare_expr(r.s, sym.value, hint)
  IN CASE name = "true" -> Typed(r, Bool)
       [] name # "true" /\ ~known -> Fail(r, "error")
       [] known /\ sym.is = "func" -> Typed(r, PtrTo(sym.type))
       [] known /\ sym.is = "var" -> Typed(r, sym.type)
       [] known /\ sym.is = "const" ->
            Typed([r EXCEPT !.s = [used.s EXCEPT !.scope[name].value = used.e]], used.e.type)
       [] known /\ sym.is = "type" -> Fail(r, "error")

prepare_unary_expr(r, hint) ==
  LET read == IF hint = Beyond THEN Fail(r, "undefined") ELSE r
      inner == CASE r.e.op = "&" -> IF hint # NoHint /\ hint.ptr > 0 THEN Pointee(hint) ELSE NoHint
                 [] r.e.op = "*" -> IF hint = NoHint THEN NoHint ELSE PtrTo(hint)
                 [] r.e.op = "!" -> Bool
                 [] r.e.op \in {"+x", "-x", "~"} -> hint
      k == Kid(IF r.e.op \in {"&", "*"} THEN read ELSE r, 1, inner)
  IN CASE r.e.op = "&" -> Typed(k, PtrTo(KidType(k, 1)))
       [] r.e.op = "*" -> LET p == Require(k, KidType(k, 1).ptr # 0, "error")
                          IN Typed(p, Pointee(KidType(k, 1)))
       [] r.e.op = "!" -> Typed(k, Bool)
       [] r.e.op \in {"+x", "-x", "~"} -> Typed(k, KidType(k, 1))

\* Mutant: an operand without a type is not given the type of the right one.
PrepareBinaryLeftOnly(r, hint) ==
  LET untyped(q, i) == KidType(q, i) = NoType
      down == IF r.e.op \in Hinted THEN hint ELSE NoHint
      alone == Kid(Kid(r, 1, NoHint), 2, NoHint)
      hinted == IF Ok(alone) /\ untyped(alone, 1) /\ untyped(alone, 2)
                THEN Kid(Kid(alone, 1, down), 2, down) ELSE alone
      right == IF Ok(hinted) /\ untyped(hinted, 2) /\ ~untyped(hinted, 1)
               THEN Kid(hinted, 2, KidType(hinted, 1)) ELSE hinted
  IN Typed(right, IF r.e.op \in Hinted THEN KidType(right, 1) ELSE Bool)

\* The operands alone, then with the hint, then each with the other's type.
prepare_binary_expr(r, hint) ==
  LET untyped(q, i) == KidType(q, i).kind = "NO_TYPE"
      down == IF r.e.op \in Hinted THEN hint ELSE NoHint
      alone == Kid(Kid(r, 1, NoHint), 2, NoHint)
      hinted == IF Ok(alone) /\ untyped(alone, 1) /\ untyped(alone, 2)
                THEN Kid(Kid(alone, 1, down), 2, down) ELSE alone
      left == IF Ok(hinted) /\ untyped(hinted, 1) /\ ~untyped(hinted, 2)
              THEN Kid(hinted, 1, KidType(hinted, 2)) ELSE hinted
      right == IF Ok(left) /\ untyped(left, 2) /\ ~untyped(left, 1)
               THEN Kid(left, 2, KidType(left, 1)) ELSE left
  IN Typed(right, IF r.e.op \in Hinted THEN KidType(right, 1) ELSE Bool)

prepare_assignment_expr(r, hint) ==
  LET target == Kid(r, 1, hint)
      both == Kid(target, 2, KidType(target, 1))
  IN Typed(Require(both, type_equal(KidType(both, 1), KidType(both, 2)), "error"), KidType(both, 1))

prepare_conditional_expr(r, hint) ==
  LET k == Kid(Kid(Kid(r, 1, Bool), 2, hint), 3, hint)
  IN Typed(Require(k, type_equal(KidType(k, 2), KidType(k, 3)), "error"), KidType(k, 2))

\* Only names are called.
prepare_call_expr(r, hint) ==
  LET name == r.e.kids[1].name
      sym == Lookup(r, name)
      callable == /\ r.e.kids[1].op = "ident"
                  /\ name \in DOMAIN r.s.scope
                  /\ sym.is # "const"
                  /\ sym.type.kind = "FUNC_TYPE"
      parameter(i) == IF i - 1 <= Len(sym.type.args) THEN sym.type.args[i - 1] ELSE Beyond
      called == Require(r, callable, "error")
  IN IF Ok(called) THEN Kids(Typed(called, sym.type.of), 2, parameter) ELSE called

prepare_index_access_expr(r, hint) ==
  LET k == Kid(Kid(r, 1, NoHint), 2, Integer(64))
      t == Resolved(k, KidType(k, 1))
  IN IF ~Ok(k) THEN k
     ELSE IF t.ptr > 0 THEN Typed(k, Pointee(t))
     ELSE IF t.kind \in {"ARRAY_TYPE", "SLICE_TYPE"} THEN Typed(k, t.of)
     ELSE Fail(k, "error")

prepare_index_slice_expr(r, hint) ==
  LET k == Kids(Kid(r, 1, NoHint), 2, LAMBDA i : Integer(64))
      t == Resolved(k, KidType(k, 1))
  IN CASE ~Ok(k) -> k
       [] Ok(k) /\ t.kind = "SLICE_TYPE" -> Typed(k, KidType(k, 1))
       [] Ok(k) /\ t.kind = "ARRAY_TYPE" -> Typed(k, Slice(t.of))
       [] OTHER -> Fail(k, "error")

StructOf(r, t) == IF t.ptr > 0 THEN Resolved(r, Pointee(t)) ELSE t
MemberAt(st, name) == CHOOSE i \in 1..Len(st.members) : st.members[i].name = name

prepare_member_access_expr(r, hint) ==
  LET k == Kid(r, 1, NoHint)
      st == StructOf(k, Resolved(k, KidType(k, 1)))
      has == st.kind = "STRUCT_TYPE" /\ \E i \in 1..Len(st.members) : st.members[i].name = r.e.name
      found == Require(k, has, "error")
  IN Typed(found, st.members[MemberAt(st, r.e.name)].type)

\* new, free, make, len and dispose.
prepare_builtin_expr(r) ==
  LET counted == Kids(r, 1, LAMBDA i : Integer(64))
      k == Kid(r, 1, NoHint)
      sliced == Require(k, Resolved(k, KidType(k, 1)).kind = "SLICE_TYPE", "error")
  IN CASE r.e.op = "new" -> Typed(counted, PtrTo(r.e.to))
       [] r.e.op = "make" ->
            Typed(Kids(Require(r, Resolved(r, r.e.to).kind = "SLICE_TYPE", "error"), 1, LAMBDA i : Integer(64)),
                  r.e.to)
       [] r.e.op = "free" -> Typed(Require(k, KidType(k, 1).ptr # 0, "error"), Void)
       [] r.e.op = "len" -> Typed(sliced, Integer(64))
       [] r.e.op = "dispose" -> Typed(sliced, Void)

prepare_expr(s, e, hint) ==
  LET r == [s |-> s, e |-> e]
      same(i) == hint
  IN IF s.outcome # "ok" THEN r
     ELSE CASE e.op = "number" -> FromHint(r, hint)
            [] e.op = "string" -> Typed(r, PtrTo(Integer(8)))
            [] e.op = "ident" -> prepare_ident_expr(r, hint)
            [] e.op \in {"&", "*", "+x", "-x", "~", "!"} -> prepare_unary_expr(r, hint)
            [] e.op \in Operators -> prepare_binary_expr(r, hint)
            [] e.op \in {"=", "+=", "%="} -> prepare_assignment_expr(r, hint)
            [] e.op = "incdec" -> LET k == Kid(r, 1, hint) IN Typed(k, KidType(k, 1))
            [] e.op = "?:" -> prepare_conditional_expr(r, hint)
            [] e.op = "comma" -> LET k == Kids(r, 1, same) IN Typed(k, KidType(k, Len(e.kids)))
            [] e.op = "cast" -> Typed(Kid(r, 1, e.to), e.to)
            [] e.op = "sizeof" -> FromHint(Kids(r, 1, LAMBDA i : NoHint), hint)
            [] e.op = "call" -> prepare_call_expr(r, hint)
            [] e.op = "index" -> prepare_index_access_expr(r, hint)
            [] e.op = "slice" -> prepare_index_slice_expr(r, hint)
            [] e.op = "member" -> prepare_member_access_expr(r, hint)
            [] e.op \in {"new", "free", "make", "len", "dispose"} -> prepare_builtin_expr(r)

----------------------------------------------------------------------------
(* codegen_expr: the LLVM type of the value, or of a pointer to it when an  *)
(* lvalue is wanted.                                                       *)

Give(s, ir) == [s |-> s, ir |-> ir]
Wrong(s, outcome) == Give([s EXCEPT !.outcome = outcome], Void)
Then(v, f(_)) == IF v.s.outcome = "ok" THEN f(v) ELSE v
Check(v, holds, outcome) == IF v.s.outcome = "ok" /\ ~holds THEN Wrong(v.s, outcome) ELSE v

\* LLVM's own conditions on loads and stores: a pointer to something that has
\* a size.
Sized(ir) == ir.ptr > 0 \/ ir.kind \notin {"VOID_TYPE", "FUNC_TYPE"}
Load(v) == Then(v, LAMBDA u : IF u.ir.ptr > 0 /\ Sized(Pointee(u.ir)) THEN Give(u.s, Pointee(u.ir))
                              ELSE Wrong(u.s, "llvm"))
Place(v, lvalue) == IF lvalue THEN v ELSE Load(v)
Stored(v, place, ir) == Check(v, place = PtrTo(ir), "llvm")

\* LLVMAppendBasicBlock n times; the builder goes to the last of them.
NewBlocks(v, n) == [v EXCEPT !.s.next = @ + n, !.s.cur = v.s.next + n - 1]

RECURSIVE codegen_expr(_, _, _)

codegen_number_literal_expr(s, e) ==
  CASE e.type.kind \in {"INTEGER_TYPE", "FLOAT_TYPE"} -> Check(Give(s, e.type), e.type.ptr = 0, "llvm")
    [] e.type.kind = "BOOLEAN_TYPE" -> Check(Give(s, Bool), e.name \in {"0", "1"}, "error")
    [] OTHER -> Wrong(s, "error")

codegen_ident_expr(s, e, lvalue) ==
  LET sym == s.scope[e.name]
      ir == codegen_type(s.scope, sym.type)
  IN CASE e.name = "true" -> Check(Give(s, Bool), ~lvalue, "error")
       [] e.name # "true" /\ sym.is = "func" -> Give(s, PtrTo(ir))
       [] e.name # "true" /\ sym.is = "var" -> Place(Give(s, PtrTo(ir)), lvalue)
       [] e.name # "true" /\ sym.is = "const" ->
            IF lvalue THEN Wrong(s, "abort") ELSE codegen_expr(s, sym.value, FALSE)

\* + - ~ ! give a value, whether an lvalue is wanted or not.
codegen_unary_expr(s, e, lvalue) ==
  LET kid == e.kids[1]
      target(lv) == codegen_expr(s, kid, lv)
  IN CASE e.op = "&" -> target(TRUE)
       [] e.op = "*" -> Place(target(FALSE), lvalue)
       [] e.op = "+x" -> target(FALSE)
       [] e.op = "-x" /\ kid.type.kind = "INTEGER_TYPE" -> Check(target(FALSE), IsInt(target(FALSE).ir), "llvm")
       [] e.op = "-x" /\ kid.type.kind = "FLOAT_TYPE" -> Check(target(FALSE), IsFloat(target(FALSE).ir), "llvm")
       [] e.op = "~" /\ kid.type.kind = "INTEGER_TYPE" -> Check(target(FALSE), IsInt(target(FALSE).ir), "llvm")
       [] e.op = "!" /\ kid.type.kind = "BOOLEAN_TYPE" -> Check(target(FALSE), IsInt(target(FALSE).ir), "llvm")
       [] e.op = "-x" /\ kid.type.kind \notin {"INTEGER_TYPE", "FLOAT_TYPE"} -> Check(target(FALSE), FALSE, "error")
       [] OTHER -> Wrong(s, "error")

\* Whether an operator can be had for a kind of operands: LLVM's condition on
\* them, "error" or "abort".
BinaryFor(op, kind) ==
  CASE kind = "BOOLEAN_TYPE" -> IF op \in Equality THEN "ints or pointers" ELSE IF op \in Logic THEN "ints" ELSE "abort"
    [] kind = "INTEGER_TYPE" ->
         IF op \in Order \cup Equality THEN "ints or pointers" ELSE IF op \in Logic THEN "error" ELSE "ints"
    [] kind = "FLOAT_TYPE" -> IF op \in Arithmetic \cup Order \cup Equality THEN "floats" ELSE "error"
    [] OTHER -> "error"

\* Mutant: the types of the operands are not compared.
CodegenBinaryUnchecked(s, e, lvalue) ==
  LET t == e.kids[1].type
      lhs == codegen_expr(s, e.kids[1], FALSE)
      rhs == codegen_expr(lhs.s, e.kids[2], FALSE)
      need == BinaryFor(e.op, t.kind)
      fits(ir) == CASE need = "ints" -> IsInt(ir) [] need = "floats" -> IsFloat(ir)
                    [] need = "ints or pointers" -> IsInt(ir) \/ ir.ptr > 0
  IN IF lvalue THEN Wrong(s, "abort")
     ELSE Then(rhs, LAMBDA v :
            IF need \in {"error", "abort"} THEN Wrong(v.s, need)
            ELSE IF ~fits(lhs.ir) \/ lhs.ir # v.ir THEN Wrong(v.s, "llvm")
            ELSE Give(v.s, IF e.op \in Hinted THEN lhs.ir ELSE Bool))

codegen_binary_expr(s, e, lvalue) ==
  LET t == e.kids[1].type
      lhs == codegen_expr(s, e.kids[1], FALSE)
      rhs == codegen_expr(lhs.s, e.kids[2], FALSE)
      need == BinaryFor(e.op, t.kind)
      fits(ir) == CASE need = "ints" -> IsInt(ir) [] need = "floats" -> IsFloat(ir)
                    [] need = "ints or pointers" -> IsInt(ir) \/ ir.ptr > 0
  IN IF t.kind = "NO_TYPE" \/ ~type_equal(t, e.kids[2].type) THEN Wrong(s, "error")
     ELSE IF lvalue THEN Wrong(s, "abort")
     ELSE Then(rhs, LAMBDA v :
            IF need \in {"error", "abort"} THEN Wrong(v.s, need)
            ELSE IF ~fits(lhs.ir) \/ lhs.ir # v.ir THEN Wrong(v.s, "llvm")
            ELSE Give(v.s, IF e.op \in Hinted THEN lhs.ir ELSE Bool))

\* The value of an assignment is the right operand, for += too.
codegen_assignment_expr(s, e) ==
  LET lv == codegen_expr(s, e.kids[1], TRUE)
      rv == Then(lv, LAMBDA l : codegen_expr(l.s, e.kids[2], FALSE))
      stored == Stored(rv, lv.ir, rv.ir)
  IN CASE e.op = "=" -> stored
       [] e.op = "+=" -> Check(Check(rv, lv.ir.ptr > 0 /\ IsInt(Pointee(lv.ir)), "llvm"), stored = rv, "llvm")
       [] e.op = "%=" -> Check(Check(rv, lv.ir.ptr > 0, "llvm"), FALSE, "abort")

codegen_incdec_expr(s, e, lvalue) ==
  LET target == codegen_expr(s, e.kids[1], TRUE)
      kind == Check(target, e.type.kind = "INTEGER_TYPE", "error")
      one == Check(kind, e.type.ptr = 0, "llvm")
      added == Check(one, target.ir = PtrTo(e.type), "llvm")
  IN IF lvalue THEN Wrong(s, "error") ELSE Load(added)

\* The phi names the blocks that the branches begin with.
codegen_conditional_expr(s, e) ==
  LET cond == codegen_expr(s, e.kids[1], FALSE)
      branched == Check(cond, cond.ir = Bool, "llvm")
      true_block == branched.s.next
      false_block == branched.s.next + 1
      at(v, block) == [v.s EXCEPT !.cur = block]
      true_value == codegen_expr(at(NewBlocks(branched, 3), true_block), e.kids[2], FALSE)
      false_value == Then(true_value, LAMBDA v : codegen_expr(at(v, false_block), e.kids[3], FALSE))
      ir == codegen_type(s.scope, e.kids[2].type)
      agree == /\ true_value.s.cur = true_block /\ false_value.s.cur = false_block
               /\ true_value.ir = ir /\ false_value.ir = ir /\ ir # Void
  IN Then(branched, LAMBDA b :
       Then(false_value, LAMBDA v : Check(Give(at(v, false_block + 1), ir), agree, "llvm")))

CastClass(t) == IF t.ptr > 0 THEN "pointer" ELSE t.kind
CastsTo(class) ==
  CASE class = "pointer" -> {"pointer", "INTEGER_TYPE"}
    [] class = "INTEGER_TYPE" -> {"pointer", "INTEGER_TYPE", "BOOLEAN_TYPE"}
    [] class = "BOOLEAN_TYPE" -> {"INTEGER_TYPE"}
    [] OTHER -> {}

codegen_cast_expr(s, e) ==
  LET target == codegen_expr(s, e.kids[1], FALSE)
      from == resolve_type_name(s.scope, e.kids[1].type)
      to == resolve_type_name(s.scope, e.to)
      fits(ir) == IF from.ptr > 0 THEN ir.ptr > 0 ELSE IsInt(ir)
  IN Then(target, LAMBDA v :
       IF type_equal(from, to) THEN v
       ELSE IF CastClass(to) \notin CastsTo(CastClass(from)) THEN Wrong(v.s, "error")
       ELSE Check(Give(v.s, codegen_type(s.scope, e.to)), fits(v.ir), "llvm"))

codegen_sizeof_expr(s, e) ==
  LET measured == IF e.kids = <<>> THEN Give(s, codegen_type(s.scope, e.to)) ELSE codegen_expr(s, e.kids[1], FALSE)
      ir == codegen_type(s.scope, e.type)
  IN IF e.type.kind = "NO_TYPE" THEN Wrong(s, "error")
     ELSE Then(measured, LAMBDA v : Check(Give(v.s, ir), v.ir # Void /\ IsInt(ir), "llvm"))

\* Neither the number nor the types of the arguments are looked at.
codegen_call_expr(s, e, lvalue) ==
  LET sym == s.scope[e.kids[1].name]
      fn == codegen_type(s.scope, sym.type)
      callee == IF sym.is = "func" THEN PtrTo(fn) ELSE fn
      args == FoldLeft(LAMBDA done, arg :
                         LET v == codegen_expr(done.s, arg, FALSE)
                         IN IF done.s.outcome = "ok" THEN [s |-> v.s, irs |-> Append(done.irs, v.ir)] ELSE done,
                       [s |-> s, irs |-> <<>>], Tail(e.kids))
      result == Check(Give(args.s, fn.of), callee.ptr = 1 /\ args.irs = fn.args, "llvm")
  IN IF ~lvalue THEN result
     ELSE Then(result, LAMBDA v : Check(Give(v.s, PtrTo(v.ir)), v.ir # Void, "llvm"))

codegen_index_access_expr(s, e, lvalue) ==
  LET t == resolve_type_name(s.scope, e.kids[1].type)
      is_array == t.ptr = 0 /\ t.kind = "ARRAY_TYPE"
      target == codegen_expr(s, e.kids[1], is_array)
      index == Then(target, LAMBDA v : codegen_expr(v.s, e.kids[2], FALSE))
      checked == Check(Check(index, e.kids[2].type.kind = "INTEGER_TYPE", "error"), IsInt(index.ir), "llvm")
      element == codegen_type(s.scope, e.type)
      found == CASE t.ptr > 0 -> Check(Give(checked.s, PtrTo(element)), target.ir = PtrTo(element), "llvm")
                 [] is_array -> Check(Give(checked.s, PtrTo(element)),
                                      target.ir = PtrTo(codegen_type(s.scope, t)), "llvm")
                 [] OTHER -> Check(Give(NewBlocks(checked, 2).s, PtrTo(element)), IsSlice(target.ir), "llvm")
  IN Then(checked, LAMBDA v : Place(found, lvalue))

\* A slice of a slice; with no bounds given, the slice itself is taken for a
\* pointer to one.
slice_slice(s, e) ==
  LET target == codegen_expr(s, e.kids[1], FALSE)
      bound(v, kid) == Then(Check(v, kid.type.kind = "INTEGER_TYPE", "error"),
                            LAMBDA u : codegen_expr(u.s, kid, FALSE))
      bounds == FoldLeft(bound, target, Tail(e.kids))
      casts == \A i \in 2..Len(e.kids) : e.kids[i].type.ptr = 0
  IN IF Len(e.kids) = 1 THEN Load(target)
     ELSE Then(bounds, LAMBDA v : Check(Give(NewBlocks(v, 3).s, target.ir), IsSlice(target.ir) /\ casts, "llvm"))

\* A slice of an array: of whatever the target's lvalue points to.  Bounds
\* are not cast.  The length is read from the type as written, which may be
\* a name.
slice_array(s, e) ==
  LET target == codegen_expr(s, e.kids[1], TRUE)
      bound(v, kid) == Then(v, LAMBDA u : codegen_expr(u.s, kid, FALSE))
      bounds == FoldLeft(bound, Check(target, target.ir.ptr > 0, "llvm"), Tail(e.kids))
      wide == \A i \in 2..Len(e.kids) : e.kids[i].type = Integer(64)
  IN Then(bounds, LAMBDA v :
       Check(Check(Give(v.s, codegen_type(s.scope, e.type)), wide, "llvm"),
             e.kids[1].type.kind = "ARRAY_TYPE", "undefined"))

codegen_index_slice_expr(s, e) ==
  IF resolve_type_name(s.scope, e.kids[1].type).kind = "SLICE_TYPE" THEN slice_slice(s, e) ELSE slice_array(s, e)

codegen_member_access_expr(s, e, lvalue) ==
  LET t == resolve_type_name(s.scope, e.kids[1].type)
      st == StructOf([s |-> s], t)
      target == codegen_expr(s, e.kids[1], t.ptr = 0)
      ir == codegen_type(s.scope, st).members[MemberAt(st, e.name)]
  IN IF t.ptr > 1 THEN Wrong(s, "error")
     ELSE Then(target, LAMBDA v :
            Place(Check(Give(v.s, PtrTo(ir)), v.ir = PtrTo(codegen_type(s.scope, st)), "llvm"), lvalue))

\* new and make run a loop over the elements when they are given a number.
codegen_builtin_expr(s, e) ==
  LET kid(lv) == codegen_expr(s, e.kids[1], lv)
      type == codegen_type(s.scope, IF e.op = "make" THEN resolve_type_name(s.scope, e.to) ELSE e.to)
      counted(ir) == Then(kid(FALSE), LAMBDA v : Check(Give(NewBlocks(v, 3).s, ir), IsInt(v.ir), "llvm"))
  IN CASE e.op = "new" -> IF e.kids = <<>> THEN Give(s, PtrTo(type)) ELSE counted(PtrTo(type))
       [] e.op = "make" -> Check(counted(type), IsSlice(type), "llvm")
       [] e.op = "free" -> Then(kid(FALSE), LAMBDA v : Check(Give(v.s, Void), v.ir.ptr > 0, "llvm"))
       [] e.op = "len" -> Then(kid(FALSE), LAMBDA v : Check(Give(v.s, Integer(64)), IsSlice(v.ir), "llvm"))
       [] e.op = "dispose" -> Then(Load(kid(TRUE)), LAMBDA v : Check(Give(v.s, Void), IsSlice(v.ir), "llvm"))

codegen_expr(s, e, lvalue) ==
  LET never == {"number", "string", "?:", "comma", "cast", "sizeof"}
  IN CASE s.outcome # "ok" -> Give(s, Void)
       [] s.outcome = "ok" /\ lvalue /\ e.op \in never -> Wrong(s, "abort")
       [] OTHER ->
          CASE e.op = "number" -> codegen_number_literal_expr(s, e)
            [] e.op = "string" -> Give(s, PtrTo(Integer(8)))
            [] e.op = "ident" -> codegen_ident_expr(s, e, lvalue)
            [] e.op \in {"&", "*", "+x", "-x", "~", "!"} -> codegen_unary_expr(s, e, lvalue)
            [] e.op \in Operators -> codegen_binary_expr(s, e, lvalue)
            [] e.op \in {"=", "+=", "%="} -> codegen_assignment_expr(s, e)
            [] e.op = "incdec" -> codegen_incdec_expr(s, e, lvalue)
            [] e.op = "?:" -> codegen_conditional_expr(s, e)
            [] e.op = "comma" -> FoldLeft(LAMBDA v, k : Then(v, LAMBDA u : codegen_expr(u.s, k, FALSE)),
                                          Give(s, Void), e.kids)
            [] e.op = "cast" -> codegen_cast_expr(s, e)
            [] e.op = "sizeof" -> codegen_sizeof_expr(s, e)
            [] e.op = "call" -> codegen_call_expr(s, e, lvalue)
            [] e.op = "index" -> codegen_index_access_expr(s, e, lvalue)
            [] e.op = "slice" -> codegen_index_slice_expr(s, e)
            [] e.op = "member" -> codegen_member_access_expr(s, e, lvalue)
            [] e.op \in {"new", "free", "make", "len", "dispose"} -> codegen_builtin_expr(s, e)

----------------------------------------------------------------------------
(* The statements that have an expression.                                 *)

Stmt(does, to, e) == [does |-> does, to |-> to, e |-> e]
Started(scope) == [scope |-> scope, outcome |-> "ok", cur |-> 0, next |-> 1]

Init ==
  /\ program \in Programs
  /\ state = Started(Scope)
  /\ past = <<>> /\ tree = String

\* codegen_expr_top, and what the statement does with the value v of the
\* prepared expression p.
Compile(does, s, hint, Finish(_, _)) ==
  /\ program # <<>> /\ state.outcome = "ok"
  /\ Head(program).does = does
  /\ \E p \in {prepare_expr(s, Head(program).e, hint)} :
       /\ tree' = p.e
       /\ \E end \in {Then(codegen_expr(p.s, p.e, FALSE), LAMBDA v : Finish(p.e, v)).s} :
            state' = [Started(end.scope) EXCEPT !.outcome = end.outcome]
  /\ past' = Append(past, Head(program))
  /\ program' = Tail(program)

Want == Head(program).to
WantIR == codegen_type(state.scope, Want)
Declared(s, t) == [s EXCEPT !.scope = ("v" :> Var(t)) @@ @]

\* v : T = e, v := e
variable_decl ==
  Compile("decl", Declared(state, Want), Want, LAMBDA e, v :
            Stored(Check(v, type_equal(Want, e.type), "error"), PtrTo(WantIR), v.ir))
variable_decl_inferred ==
  Compile("infer", state, NoHint, LAMBDA e, v :
            LET sized == Check(Check(v, e.type.kind # "NO_TYPE", "error"), Sized(v.ir), "llvm")
                stored == Stored(sized, PtrTo(codegen_type(v.s.scope, e.type)), v.ir)
            IN Then(stored, LAMBDA u : [u EXCEPT !.s = Declared(@, e.type)]))
expr_stmt == Compile("expr", state, NoHint, LAMBDA e, v : v)
return_stmt == Compile("return", state, Want, LAMBDA e, v : Check(v, v.ir = WantIR, "llvm"))
if_stmt == Compile("if", state, Bool, LAMBDA e, v :
                     Check(Check(v, type_equal(e.type, Bool), "error"), v.ir = Bool, "llvm"))
for_stmt == Compile("for", state, Bool, LAMBDA e, v : Check(v, v.ir = Bool, "llvm"))

Next == variable_decl \/ variable_decl_inferred \/ expr_stmt \/ return_stmt \/ if_stmt \/ for_stmt

Spec == Init /\ [][Next]_vars
===============================================================================
