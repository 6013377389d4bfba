----------------------------- MODULE MCSyntaxTree -----------------------------
(* Sentences of Low by topic: the reducers of the rules they are made of.    *)
EXTENDS SyntaxTree

Topic(reducers, fuel) == [reducers |-> reducers, without |-> {}, fuel |-> fuel]
Without(t, variants) == [t EXCEPT !.without = variants]

\* `const c = ...`, `type T: ...` and `func f() void {...}` around what a
\* topic is about.
Const == {"unit_list", "decl_unit", "const_decl", "primary_expr_ident", "type_name"}
Type == {"unit_list", "type_unit", "type_name"}
Body == {"unit_list", "func_unit", "func_unit_decl2", "type_void", "compound_stmt",
         "block_item_list", "block_item_stmt", "primary_expr_ident"}
Jumps == {"jump_stmt_goto", "jump_stmt_continue", "jump_stmt_break"}
Members == {"interface_member_list", "interface_member_field", "interface_member_func"}

Implementations ==
  Topic({"unit_list", "decl_unit", "implementation_decl", "implementation_mapping_list",
         "implementation_mapping", "type_name"}, 9)

\* Variables that get the type of a parameter.
Inference ==
  Without(Topic((Body \ {"block_item_stmt"}) \cup
                {"block_item_decl", "variable_decl2", "parameter_list", "parameter", "type_name",
                 "type_slice", "type_struct", "struct_member_list", "struct_member2"}, 16),
          {<<"unit_list", 1>>, <<"func_unit", 0>>, <<"func_unit_decl2", 0>>, <<"func_unit_decl2", 1>>,
           <<"func_unit_decl2", 3>>, <<"variable_decl2", 1>>, <<"variable_decl2", 0>>, <<"type_name", 0>>,
           <<"parameter", 1>>})

\* The tree of an implementation is built with one mapping; see MappingTopics.
AllTopics ==
  {Topic(Const \cup DOMAIN PostfixReducers, 7),
   Topic(Const \cup DOMAIN UnaryReducers, 7),
   Topic(Const \cup DOMAIN BinaryReducers, 10),
   Topic({"unit_list", "decl_unit", "variable_decl", "builtin_func_new", "builtin_func_make", "expr_comma",
          "type_name", "type_slice", "primary_expr_ident"}, 10),
   Topic(Type \cup (DOMAIN TypeReducers \ Members), 8),
   Topic(Type \cup (DOMAIN TypeReducers \ {"type_struct", "type_func", "type_array"}), 10),
   Topic((Body \cup DOMAIN StmtReducers) \ Jumps, 13),
   Topic(Body \cup Jumps \cup {"expr_stmt", "labeled_stmt_case", "labeled_stmt_default"}, 13),
   Topic((Const \cup DOMAIN DeclReducers) \ {"implementation_mapping_list"}, 8),
   Topic(DOMAIN UnitReducers \cup {"type_void", "type_name"}, 8),
   Without(Implementations, {<<"implementation_mapping_list", 1>>}),
   Inference}

\* An implementation with more than one mapping.
MappingTopics == {Implementations}
===============================================================================
