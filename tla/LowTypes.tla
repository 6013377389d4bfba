------------------------------- MODULE LowTypes -------------------------------
(***************************************************************************)
(* The types of Low (type_t), when two of them are the same (type_equal),   *)
(* and the LLVM types they become (codegen_type).                          *)
(*                                                                         *)
(* A type is its kind, the number of pointers around it and what its kind   *)
(* has beyond that.  An LLVM type is written like the type it comes from,   *)
(* without names: names of types are resolved, members of structs have a    *)
(* place only.  LLVM has a type i1 for bool, which no integer here has.     *)
(***************************************************************************)
EXTENDS Integers, Sequences, TLC

Plain(kind) == [kind |-> kind, ptr |-> 0]
NoType == Plain("NO_TYPE")
Void == Plain("VOID_TYPE")
Bool == Plain("BOOLEAN_TYPE")
Integer(w) == [kind |-> "INTEGER_TYPE", ptr |-> 0, width |-> w]
Float(w) == [kind |-> "FLOAT_TYPE", ptr |-> 0, width |-> w]
Named(n) == [kind |-> "NAMED_TYPE", ptr |-> 0, name |-> n]
Slice(t) == [kind |-> "SLICE_TYPE", ptr |-> 0, of |-> t]
Array(t, n) == [kind |-> "ARRAY_TYPE", ptr |-> 0, of |-> t, length |-> n]
Func(args, result) == [kind |-> "FUNC_TYPE", ptr |-> 0, args |-> args, of |-> result]
Record(members) == [kind |-> "STRUCT_TYPE", ptr |-> 0, members |-> members]   \* <<[name, type], ...>>

PtrTo(t) == [t EXCEPT !.ptr = @ + 1]
Pointee(t) == [t EXCEPT !.ptr = @ - 1]

RECURSIVE type_equal(_, _)

\* Mutant: the names of types are not compared.
TypeEqualAnyName(a, b) ==
  a.kind = b.kind /\ a.ptr = b.ptr /\ (a.kind = "NAMED_TYPE" \/ a = b)

\* Arrays are equal if their lengths are, or their elements (ast.c:473).
type_equal(a, b) ==
  /\ a.kind = b.kind /\ a.ptr = b.ptr
  /\ CASE a.kind \in {"INTEGER_TYPE", "FLOAT_TYPE"} -> a.width = b.width
       [] a.kind = "NAMED_TYPE" -> a.name = b.name
       [] a.kind = "SLICE_TYPE" -> type_equal(a.of, b.of)
       [] a.kind = "ARRAY_TYPE" -> a.length = b.length \/ type_equal(a.of, b.of)
       [] a.kind = "FUNC_TYPE" ->
            /\ Len(a.args) = Len(b.args) /\ type_equal(a.of, b.of)
            /\ \A i \in 1..Len(a.args) : type_equal(a.args[i], b.args[i])
       [] a.kind = "STRUCT_TYPE" ->
            /\ Len(a.members) = Len(b.members)
            /\ \A i \in 1..Len(a.members) : /\ a.members[i].name = b.members[i].name
                                            /\ type_equal(a.members[i].type, b.members[i].type)
       [] OTHER -> TRUE

\* A scope gives names their symbols; only a bare name is resolved.
RECURSIVE resolve_type_name(_, _)
resolve_type_name(scope, t) ==
  IF t.kind = "NAMED_TYPE" /\ t.ptr = 0 THEN resolve_type_name(scope, scope[t.name].type) ELSE t

\* codegen_type; a name is resolved under pointers too.
RECURSIVE codegen_type(_, _)
codegen_type(scope, t) ==
  LET ir(u) == codegen_type(scope, u)
      under(u) == [u EXCEPT !.ptr = @ + t.ptr]
  IN CASE t.kind = "NAMED_TYPE" -> under(ir(scope[t.name].type))
       [] t.kind \in {"SLICE_TYPE", "ARRAY_TYPE"} -> [t EXCEPT !.of = ir(@)]
       [] t.kind = "FUNC_TYPE" -> [t EXCEPT !.of = ir(@), !.args = [i \in DOMAIN @ |-> ir(@[i])]]
       [] t.kind = "STRUCT_TYPE" -> [t EXCEPT !.members = [i \in DOMAIN @ |-> ir(@[i].type)]]
       [] OTHER -> t

IsInt(ir) == ir.ptr = 0 /\ ir.kind \in {"INTEGER_TYPE", "BOOLEAN_TYPE"}   \* i1 is an LLVM integer
IsFloat(ir) == ir.ptr = 0 /\ ir.kind = "FLOAT_TYPE"
IsSlice(ir) == ir.ptr = 0 /\ ir.kind = "SLICE_TYPE"
===============================================================================
