------------------------------- MODULE MCUnits -------------------------------
(* Small files: up to four units with a few names.                           *)
EXTENDS UnitsMeaning

Type(name, types) ==
  [kind |-> "type", name |-> name, types |-> types, ids |-> {}, full |-> TRUE]
Func(name, types, ids, full) ==
  [kind |-> "func", name |-> name, types |-> types, ids |-> ids, full |-> full]
Const(name, types, ids, full) ==
  [kind |-> "const", name |-> name, types |-> types, ids |-> ids, full |-> full]
Package(name) ==
  [kind |-> "package", name |-> name, types |-> {}, ids |-> {}, full |-> TRUE]

Candidates ==
  { Type("T", {}), Type("T", {"U"}), Type("U", {}), Type("U", {"T"}),
    Func("f", {}, {"g", "c"}, TRUE), Func("f", {"T"}, {"f"}, TRUE), Func("f", {"T"}, {}, FALSE),
    Func("g", {}, {"k"}, TRUE), Func("g", {}, {"T"}, TRUE), Func("main", {}, {"f"}, TRUE),
    Const("c", {}, {}, FALSE), Const("c", {}, {"d"}, FALSE), Const("d", {}, {"c"}, FALSE),
    Const("d", {}, {"k"}, FALSE), Const("k", {"T"}, {}, TRUE), Const("k", {}, {}, TRUE),
    Package("p"), Package("q") }

\* No name is defined twice; a function may be declared and defined.
Proper(S) ==
  \A u, v \in S :
    u # v /\ u.name = v.name => u.kind = "func" /\ v.kind = "func" /\ u.full # v.full
                                /\ u.types = v.types
Small(n) == UNION { { S \in SUBSET Candidates : Cardinality(S) = k } : k \in 1..n }

\* Files in which a constant with a type has a literal for its value, and signatures
\* name types (LiteralConstants, TypesAreTypes).
LiteralPrograms == { S \in Small(3) : Proper(S) }
  \cup { { Type("T", {"U"}), Type("U", {}), Func("f", {"T"}, {"f"}, TRUE), Func("f", {"T"}, {}, FALSE) },
         { Const("c", {}, {"d"}, FALSE), Const("d", {}, {"k"}, FALSE), Const("k", {}, {}, TRUE),
           Func("f", {}, {"g", "c"}, TRUE) } }
==============================================================================
