-------------------------------- MODULE Units --------------------------------
(***************************************************************************)
(* How codegen() (codegen.c) works through the units of a file: the        *)
(* package, then all types (stage 0), then all declarations (stage 1),     *)
(* then all function bodies (stage 2), so that the order in which a file   *)
(* declares its names should not matter.                                   *)
(*                                                                         *)
(* A unit is a record: "kind" ("type", "func", "const", "package"), its    *)
(* "name", the type names its signature or type is made of ("types"), the  *)
(* identifiers in its body or value ("ids"), and "full": whether a         *)
(* function has a body, whether a constant has a type.                     *)
(***************************************************************************)
EXTENDS Integers, Sequences, FiniteSets

CONSTANT Programs     \* the files: sets of units

\* A file has finitely many units and defines no name twice; a function may be
\* declared beside its definition.
ASSUME ProgramsAssumption ==
  \A S \in Programs :
    /\ IsFiniteSet(S)
    /\ \A u \in S : u.name \in STRING /\ u.kind \in {"type", "func", "const", "package"}
    /\ \A u, v \in S :
         u # v /\ u.name = v.name /\ u.kind # "package" /\ v.kind # "package"
           => u.kind = "func" /\ v.kind = "func" /\ ~(u.full /\ v.full)

VARIABLES units,      \* the units in the order of the file
          package,    \* self->package: the package's name, or NoPackage
          stage,      \* -1 (package), 0, 1, 2, or 3 when through
          i,          \* the next unit of this stage
          symbols,    \* context->symbols
          funcs,      \* the functions of the LLVM module
          status      \* "running", "ok", "error" (derror) or "crash"

vars == <<units, package, stage, i, symbols, funcs, status>>

NoPackage == "none"

(***************************************************************************)
(* Looking up names.                                                       *)
(***************************************************************************)
Found(name) == { n \in DOMAIN symbols : symbols[n].name = name }

\* codegen_context_find_symbol: the first symbol with the name.
codegen_context_find_symbol(name) ==
  symbols[CHOOSE n \in Found(name) : \A m \in Found(name) : n <= m]

Untyped(unit) == unit.kind = "const" /\ ~unit.full

\* What a name leads to as a type, sym->type: the types that a type is made of, and
\* likewise the type of a function or a constant, if it has one.
TypesOf(name) ==
  IF Found(name) = {} \/ Untyped(codegen_context_find_symbol(name).unit) THEN {}
  ELSE codegen_context_find_symbol(name).unit.types

\* What a name leads to as a value: a constant without a type to its value.
ValuesOf(name) ==
  IF Found(name) # {} /\ Untyped(codegen_context_find_symbol(name).unit)
  THEN codegen_context_find_symbol(name).unit.ids ELSE {}

\* The names that are used in the file.
Mentioned == UNION { units[n].types \cup units[n].ids : n \in DOMAIN units }

\* The names that names lead to, near or far: what no set can do without that has
\* them and all that its members lead to.
Closure(names, leads) ==
  LET closed == { S \in SUBSET DOMAIN leads : names \subseteq S /\ \A x \in S : leads[x] \subseteq S }
  IN  { x \in DOMAIN leads : \A S \in closed : x \in S }

\* The recursion of codegen_type and of prepare_expr does not come back from a
\* name that leads to itself.
Loops(names, leads) == \E x \in Closure(names, leads) : x \in Closure(leads[x], leads)

\* codegen_type of a signature: "unknown type name", "is not a type name".
codegen_type(names) ==
  LET types == [x \in Mentioned |-> TypesOf(x)]
  IN  IF \E x \in Closure(names, types) :
            Found(x) = {} \/ Untyped(codegen_context_find_symbol(x).unit)
      THEN "error" ELSE IF Loops(names, types) THEN "crash" ELSE "ok"

\* prepare_expr and codegen_expr of the identifiers in an expression:
\* "identifier unknown", "expected identifier to be a const" for a type.  A
\* constant with a type is loaded from its global, for which there must be a
\* builder: outside a function there is none.
codegen_expr(names, builder) ==
  LET values == [x \in Mentioned |-> ValuesOf(x)]
      Unit(x) == codegen_context_find_symbol(x).unit
  IN  IF \E x \in Closure(names, values) : Found(x) = {} \/ Unit(x).kind = "type" THEN "error"
      ELSE IF Loops(names, values) THEN "crash"
      ELSE IF ~builder /\ \E x \in Closure(names, values) : Unit(x).kind = "const" /\ Unit(x).full
      THEN "crash"
      ELSE "ok"

Worse(a, b) == IF a = "ok" THEN b ELSE a

(***************************************************************************)
(* The stages.                                                             *)
(***************************************************************************)
Orders(S) == { s \in [1..Cardinality(S) -> S] : { s[n] : n \in DOMAIN s } = S }

Init ==
  /\ \E S \in Programs : units \in Orders(S)
  /\ package = NoPackage
  /\ stage = -1
  /\ i = 1
  /\ symbols = <<>>
  /\ funcs = <<>>
  /\ status = "running"

Packages == { n \in DOMAIN units : units[n].kind = "package" }

\* The one package unit of the file; a second one is an error.
codegen_package ==
  /\ stage = -1 /\ status = "running"
  /\ IF Cardinality(Packages) > 1
     THEN status' = "error" /\ UNCHANGED package
     ELSE /\ package' = IF Packages = {} THEN NoPackage
                        ELSE units[CHOOSE n \in Packages : TRUE].name
          /\ UNCHANGED status
  /\ stage' = 0
  /\ UNCHANGED <<units, i, symbols, funcs>>

At(s) == status = "running" /\ stage = s /\ i <= Len(units)
Outcome(result) == status' = IF result = "ok" THEN "running" ELSE result
AddSymbol(value) ==
  symbols' = Append(symbols, [name |-> units[i].name, unit |-> units[i], value |-> value])

\* Mutant: types are taken together with the other declarations.
stage_types_late ==
  /\ At(0)
  /\ i' = i + 1
  /\ UNCHANGED <<units, package, stage, symbols, funcs, status>>

\* Stage 0: a type gets its symbol, everything else waits.
stage_types ==
  /\ At(0)
  /\ IF units[i].kind = "type" THEN AddSymbol(0) ELSE UNCHANGED symbols
  /\ i' = i + 1
  /\ UNCHANGED <<units, package, stage, funcs, status>>

\* mangle_func_name: the package goes in front of every name but main's.
mangle_func_name(name) ==
  IF package = NoPackage \/ name = "main" THEN <<name>> ELSE <<package, name>>

\* LLVMAddFunction (external): a name that is taken gets a suffix, which is
\* counted up and taken not to make it the name of another function.
AddedName(name) ==
  IF \E n \in DOMAIN funcs : funcs[n].name = name
  THEN name \o [n \in 1..(Len(funcs) + 1) |-> "suffix"]
  ELSE name

\* Stage 1, a function: its declaration in the module and its symbol.
stage_func ==
  /\ At(1) /\ units[i].kind = "func"
  /\ Outcome(codegen_type(units[i].types))
  /\ funcs' = Append(funcs, [name |-> AddedName(mangle_func_name(units[i].name)), bodies |-> 0])
  /\ AddSymbol(Len(funcs) + 1)
  /\ i' = i + 1
  /\ UNCHANGED <<units, package, stage>>

\* Stage 1, a constant: with a type it becomes a global with its value; without
\* one its value is looked at where it is used.
stage_const ==
  /\ At(1) /\ units[i].kind = "const"
  /\ Outcome(IF ~units[i].full THEN "ok"
             ELSE Worse(codegen_expr(units[i].ids, FALSE), codegen_type(units[i].types)))
  /\ AddSymbol(0)
  /\ i' = i + 1
  /\ UNCHANGED <<units, package, stage, funcs>>

stage_decl_other ==
  /\ At(1) /\ units[i].kind \in {"type", "package"}
  /\ i' = i + 1
  /\ UNCHANGED <<units, package, stage, symbols, funcs, status>>

\* Mutant: the body is given to the function of this unit.
BodyOfUnit ==
  LET mine == { n \in DOMAIN symbols : symbols[n].unit = units[i] }
  IN  symbols[CHOOSE n \in mine : TRUE].value

\* Stage 2: the function is looked up again by its name.
BodyTarget == codegen_context_find_symbol(units[i].name).value

\* Stage 2, a function with a body: an entry block, then the statements.
stage_body ==
  /\ At(2) /\ units[i].kind = "func" /\ units[i].full
  /\ funcs' = [funcs EXCEPT ![BodyTarget].bodies = @ + 1]
  /\ Outcome(codegen_expr(units[i].ids, TRUE))
  /\ i' = i + 1
  /\ UNCHANGED <<units, package, stage, symbols>>

stage_def_other ==
  /\ At(2) /\ (units[i].kind # "func" \/ ~units[i].full)
  /\ i' = i + 1
  /\ UNCHANGED <<units, package, stage, symbols, funcs, status>>

next_stage ==
  /\ status = "running" /\ stage \in 0..2
  /\ i > Len(units)
  /\ stage' = stage + 1
  /\ i' = 1
  /\ status' = IF stage = 2 THEN "ok" ELSE status
  /\ UNCHANGED <<units, package, symbols, funcs>>

Done == status # "running" /\ UNCHANGED vars

Next == codegen_package \/ stage_types \/ stage_func \/ stage_const
          \/ stage_decl_other \/ stage_body \/ stage_def_other \/ next_stage \/ Done

Spec == Init /\ [][Next]_vars

(***************************************************************************)
(* Properties.                                                             *)
(***************************************************************************)
\* The units as a set, whatever their order.
Program == { units[n] : n \in DOMAIN units }

\* A function that is declared and defined, in either order, is one function:
\* calls go by the first symbol, and the body has gone to the function behind
\* it, the one that bears the name in the module (codegen.c:507-519).
OneFunctionPerName ==
  status = "ok" =>
    \A u \in Program :
      u.kind = "func" /\ u.full =>
        LET f == funcs[codegen_context_find_symbol(u.name).value]
        IN  f.bodies = 1 /\ f.name = mangle_func_name(u.name)
==============================================================================
