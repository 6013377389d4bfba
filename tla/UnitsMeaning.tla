----------------------------- MODULE UnitsMeaning -----------------------------
(***************************************************************************)
(* What the units of a file mean, whatever their order, and that the       *)
(* stages of codegen() (codegen.c) find out just that.                     *)
(***************************************************************************)
EXTENDS Units

Named(name) == { u \in Program : u.name = name /\ u.kind # "package" }

\* What the definitions of a name use: a type other types, a constant its value.
DefinedBy(name) ==
  UNION { IF u.kind = "type" THEN u.types ELSE u.ids
            : u \in { v \in Named(name) : v.kind \in {"type", "const"} } }

Uses(names) == Closure(names, [x \in Mentioned |-> DefinedBy(x)])

\* The names and all that they use are declared, as types or as values, and none of
\* them is defined in terms of itself.
Sound(names, asTypes) ==
  \A x \in Uses(names) :
    /\ Named(x) # {}
    /\ \A u \in Named(x) : (u.kind = "type") = asTypes
    /\ x \notin Uses(DefinedBy(x))

Meaningful ==
  /\ Cardinality(Packages) <= 1
  /\ \A u \in Program :
       /\ u.kind = "func" => Sound(u.types, TRUE) /\ (u.full => Sound(u.ids, FALSE))
       /\ u.kind = "const" /\ u.full => Sound(u.types, TRUE) /\ Sound(u.ids, FALSE)

\* Where the order is known to matter: the value of a constant with a type is
\* generated while constants are declared (codegen.c:232-238), and a function or a
\* constant with a type that is declared already is taken for a type
\* (codegen_type.c:87-93).
LiteralConstants == \A u \in Program : u.kind = "const" /\ u.full => u.ids = {}
TypesAreTypes ==
  \A u \in Program : \A x \in u.types : \A v \in Named(x) : v.kind = "type" \/ Untyped(v)

\* "declaration order independence" (README.md:4): whether a file compiles
\* depends on its declarations and not on their order (codegen.c:587-610).
OrderIndependence == status # "running" => (status = "ok" <=> Meaningful)
==============================================================================
