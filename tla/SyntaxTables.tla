----------------------------- MODULE SyntaxTables -----------------------------
(***************************************************************************)
(* The four descriptions of the syntax tree that C does not relate to each *)
(* other, because a token carries its node as a void pointer:              *)
(*                                                                         *)
(*   Shapes    the fields of every kind of node (ast.h),                   *)
(*   Variants  the right side of every rule and its reducer                *)
(*             (grammar_rules.h),                                          *)
(*   Reducers  which token each field is taken from (grammar_rules.c),     *)
(*   Disposal  what is done to each field in the end (ast.c).              *)
(*                                                                         *)
(* A field that holds no memory (a width, an operator, a location) is left *)
(* out, and so is the type that the code generator copies into an          *)
(* expression: no dispose function looks at it, so each one stays behind.  *)
(* A union is the fields its kind uses; the two modes of sizeof are two    *)
(* kinds.                                                                  *)
(***************************************************************************)
EXTENDS Integers, Sequences, TLC

Ptr(type) == [type |-> type, inline |-> FALSE]   \* a pointer to one or more structs
In(type) == [type |-> type, inline |-> TRUE]     \* a struct inside the struct

Text == Ptr("char")

TypeShapes ==
  [NO_TYPE |-> <<>>, VOID_TYPE |-> <<>>, INTEGER_TYPE |-> <<>>, PLACEHOLDER_TYPE |-> <<>>,
   FUNC_TYPE |-> [return_type |-> Ptr("type"), args |-> Ptr("type")],
   NAMED_TYPE |-> [name |-> Text],
   STRUCT_TYPE |-> [members |-> Ptr("struct_member")],
   ARRAY_TYPE |-> [type |-> Ptr("type")],
   SLICE_TYPE |-> [type |-> Ptr("type")],
   INTERFACE_TYPE |-> [members |-> Ptr("interface_member")]]

InterfaceMemberShapes ==
  [MEMBER_FIELD |-> [name |-> Text, type |-> Ptr("type")],
   MEMBER_FUNCTION |-> [name |-> Text, return_type |-> Ptr("type"), args |-> Ptr("type")]]

StructMemberShapes == [STRUCT_MEMBER |-> [type |-> Ptr("type"), name |-> Text]]

ExprShapes ==
  [IDENT_EXPR |-> [ident |-> Text],
   STRING_LITERAL_EXPR |-> [string_literal |-> Text],
   NUMBER_LITERAL_EXPR |-> [literal |-> Text],
   INDEX_ACCESS_EXPR |-> [target |-> Ptr("expr"), index |-> Ptr("expr")],
   INDEX_SLICE_EXPR |-> [target |-> Ptr("expr"), start |-> Ptr("expr"), end |-> Ptr("expr")],
   CALL_EXPR |-> [target |-> Ptr("expr"), args |-> Ptr("expr")],
   MEMBER_ACCESS_EXPR |-> [target |-> Ptr("expr"), name |-> Text],
   INCDEC_EXPR |-> [target |-> Ptr("expr")],
   UNARY_EXPR |-> [target |-> Ptr("expr")],
   SIZEOF_EXPR |-> [expr |-> Ptr("expr")],
   SIZEOF_TYPE |-> [type |-> In("type")],
   CAST_EXPR |-> [target |-> Ptr("expr"), type |-> In("type")],
   BINARY_EXPR |-> [lhs |-> Ptr("expr"), rhs |-> Ptr("expr")],
   CONDITIONAL_EXPR |-> [condition |-> Ptr("expr"), true_expr |-> Ptr("expr"),
                         false_expr |-> Ptr("expr")],
   ASSIGNMENT_EXPR |-> [target |-> Ptr("expr"), expr |-> Ptr("expr")],
   COMMA_EXPR |-> [exprs |-> Ptr("expr")],
   NEW_BUILTIN |-> [type |-> In("type"), expr |-> Ptr("expr")],
   FREE_BUILTIN |-> [expr |-> Ptr("expr")],
   MAKE_BUILTIN |-> [type |-> In("type"), expr |-> Ptr("expr")],
   LENCAP_BUILTIN |-> [expr |-> Ptr("expr")],
   DISPOSE_BUILTIN |-> [expr |-> Ptr("expr")]]

StmtShapes ==
  LET selection == [condition |-> Ptr("expr"), stmt |-> Ptr("stmt"), else_stmt |-> Ptr("stmt")]
      iteration == [initial |-> Ptr("expr"), condition |-> Ptr("expr"), step |-> Ptr("expr"),
                    stmt |-> Ptr("stmt")]
  IN [EXPR_STMT |-> [expr |-> Ptr("expr")],
      COMPOUND_STMT |-> [items |-> Ptr("block_item")],
      IF_STMT |-> selection, SWITCH_STMT |-> selection,
      DO_STMT |-> iteration, FOR_STMT |-> iteration,
      GOTO_STMT |-> [name |-> Text],
      CONTINUE_STMT |-> <<>>, BREAK_STMT |-> <<>>,
      RETURN_STMT |-> [expr |-> Ptr("expr")],
      CASE_STMT |-> [stmt |-> Ptr("stmt"), expr |-> Ptr("expr")],
      DEFAULT_STMT |-> [stmt |-> Ptr("stmt")]]

BlockItemShapes ==
  [STMT_BLOCK_ITEM |-> [stmt |-> Ptr("stmt")], DECL_BLOCK_ITEM |-> [decl |-> Ptr("decl")]]

DeclShapes ==
  [VARIABLE_DECL |-> [type |-> In("type"), name |-> Text, initial |-> Ptr("expr")],
   CONST_DECL |-> [name |-> Text, type |-> Ptr("type"), value |-> In("expr")],
   IMPLEMENTATION_DECL |-> [interface |-> Ptr("type"), target |-> Ptr("type"),
                            mappings |-> Ptr("implementation_mapping")]]

MappingShapes == [MAPPING |-> [intf |-> Text, func |-> Text]]

UnitShapes ==
  [IMPORT_UNIT |-> [import_name |-> Text],
   DECL_UNIT |-> [decl |-> Ptr("decl")],
   FUNC_UNIT |-> [return_type |-> In("type"), name |-> Text, body |-> Ptr("stmt"),
                  params |-> Ptr("func_param"), type |-> In("type")],
   TYPE_UNIT |-> [type |-> In("type"), name |-> Text],
   PACKAGE_UNIT |-> [name |-> Text]]

ParamShapes == [FUNC_PARAM |-> [type |-> In("type"), name |-> Text]]

Shapes ==
  [type |-> TypeShapes, interface_member |-> InterfaceMemberShapes,
   struct_member |-> StructMemberShapes, expr |-> ExprShapes, stmt |-> StmtShapes,
   block_item |-> BlockItemShapes, decl |-> DeclShapes,
   implementation_mapping |-> MappingShapes, unit |-> UnitShapes, func_param |-> ParamShapes]

----------------------------------------------------------------------------
(* The rules.  Terminals carry no node and are all written "_"; the levels *)
(* of expressions, whose chain reductions hand the node on, are one symbol *)
(* "expr", and so are the groups of statements, declarations and units.    *)
(* Operators of one shape are one variant.                                 *)

V(lhs, rhs, reducer, tag) == [lhs |-> lhs, rhs |-> rhs, reducer |-> reducer, tag |-> tag]
Default == "REDUCE_DEFAULT"

PostfixVariants ==
  {V("expr", <<"_">>, r, 0) : r \in {"primary_expr_ident", "primary_expr_string", "primary_expr_number"}}
  \cup
  {V("expr", <<"_", "expr", "_">>, "primary_expr_paren", 0),
   V("expr", <<"expr", "_", "expr", "_">>, "postfix_expr_index", 0),
   V("expr", <<"expr", "_", "expr", "_", "expr", "_">>, "postfix_expr_slice", 0),
   V("expr", <<"expr", "_", "_", "expr", "_">>, "postfix_expr_slice", 1),
   V("expr", <<"expr", "_", "expr", "_", "_">>, "postfix_expr_slice", 2),
   V("expr", <<"expr", "_", "_", "_">>, "postfix_expr_slice", 3),
   V("expr", <<"expr", "_", "_">>, "postfix_expr_call", 0),
   V("expr", <<"expr", "_", "argument_expr_list", "_">>, "postfix_expr_call", 1),
   V("expr", <<"expr", "_", "_">>, "postfix_expr_member", 0),
   V("expr", <<"expr", "_">>, "postfix_expr_incdec", 0),
   V("argument_expr_list", <<"expr">>, "argument_expr_list", 0),
   V("argument_expr_list", <<"argument_expr_list", "_", "expr">>, "argument_expr_list", 1)}

UnaryVariants ==
  {V("expr", <<"_", "expr">>, "unary_expr_incdec", 0),
   V("expr", <<"unary_op", "expr">>, "unary_expr_op", 0),
   V("unary_op", <<"_">>, "unary_op", 0),
   V("expr", <<"_", "expr">>, "unary_expr_sizeof", 0),
   V("expr", <<"_", "_", "type">>, "unary_expr_sizeof", 1),
   V("expr", <<"_", "_", "type", "_">>, "builtin_func_new", 0),
   V("expr", <<"_", "_", "type", "_", "expr", "_">>, "builtin_func_new", 1),
   V("expr", <<"_", "_", "expr", "_">>, "builtin_func_free", 0),
   V("expr", <<"_", "_", "type", "_", "expr", "_">>, "builtin_func_make", 0),
   V("expr", <<"_", "_", "expr", "_">>, "builtin_func_lencap", 0),
   V("expr", <<"_", "_", "expr", "_">>, "builtin_func_dispose", 0),
   V("expr", <<"_", "_", "type", "_", "expr">>, "cast_expr", 0),
   V("expr", <<"_", "type", "_", "expr", "_">>, "cast_expr2", 0)}

BinaryVariants ==
  {V("expr", <<"expr", "_", "expr">>, "binary_expr", 0),
   V("expr", <<"expr", "_", "expr", "_", "expr">>, "conditional_expr", 0),
   V("expr", <<"expr", "assignment_op", "expr">>, "assignment_expr", 0),
   V("assignment_op", <<"_">>, "assignment_op", 0),
   V("expr", <<"expr", "_", "expr">>, "expr_comma", 0)}

StmtVariants ==
  {V("stmt", <<"_">>, Default, 0),
   V("stmt", <<"expr", "_">>, "expr_stmt", 0),
   V("stmt", <<"compound_stmt">>, Default, 0),
   V("compound_stmt", <<"_", "_">>, Default, 0),
   V("compound_stmt", <<"_", "block_item_list", "_">>, "compound_stmt", 0),
   V("block_item_list", <<"block_item">>, "block_item_list", 0),
   V("block_item_list", <<"block_item_list", "block_item">>, "block_item_list", 1),
   V("block_item", <<"decl">>, "block_item_decl", 0),
   V("block_item", <<"stmt">>, "block_item_stmt", 0),
   V("stmt", <<"_", "expr", "compound_stmt">>, "selection_stmt_if", 0),
   V("stmt", <<"_", "expr", "compound_stmt", "_", "stmt">>, "selection_stmt_if", 1),
   V("stmt", <<"_", "_", "expr", "_", "stmt">>, "selection_stmt_switch", 0),
   V("stmt", <<"_", "stmt", "_", "_", "expr", "_", "_">>, "iteration_stmt_do", 0),
   V("stmt", <<"for_step", "compound_stmt">>, "iteration_stmt_for", 0),
   V("stmt", <<"for_while", "compound_stmt">>, "iteration_stmt_for", 0),
   V("for_init", <<"_", "_">>, "iteration_stmt_for_init", 0),
   V("for_init", <<"_", "expr", "_">>, "iteration_stmt_for_init", 1),
   V("for_cond", <<"for_init", "_">>, "iteration_stmt_for_cond", 0),
   V("for_cond", <<"for_init", "expr", "_">>, "iteration_stmt_for_cond", 1),
   V("for_step", <<"for_cond">>, "iteration_stmt_for_step", 0),
   V("for_step", <<"for_cond", "expr">>, "iteration_stmt_for_step", 1),
   V("for_while", <<"_">>, "iteration_stmt_for_while", 0),
   V("for_while", <<"_", "expr">>, "iteration_stmt_for_while", 1),
   V("stmt", <<"_", "_", "_">>, "jump_stmt_goto", 0),
   V("stmt", <<"_", "_">>, "jump_stmt_continue", 0),
   V("stmt", <<"_", "_">>, "jump_stmt_break", 0),
   V("stmt", <<"_", "_">>, "jump_stmt_return", 0),
   V("stmt", <<"_", "expr", "_">>, "jump_stmt_return", 1),
   V("stmt", <<"_", "expr", "_", "stmt">>, "labeled_stmt_case", 0),
   V("stmt", <<"_", "_", "stmt">>, "labeled_stmt_default", 0)}

DeclVariants ==
  {V("decl", <<"_", "type", "_", "_">>, "variable_decl", 0),
   V("decl", <<"_", "type", "_", "_", "expr", "_">>, "variable_decl", 1),
   V("decl", <<"_", "_", "_", "expr", "_">>, "variable_decl", 2),
   V("decl", <<"_", "_", "type", "_">>, "variable_decl2", 0),
   V("decl", <<"_", "_", "type", "_", "expr", "_">>, "variable_decl2", 1),
   V("decl", <<"_", "_", "expr", "_">>, "variable_decl2", 2),
   V("decl", <<"_", "_", "_", "expr", "_">>, "const_decl", 0),
   V("decl", <<"_", "_", "type", "_", "expr", "_">>, "const_decl", 1),
   V("decl", <<"_", "type", "_", "type", "_", "_", "mapping_list", "_">>, "implementation_decl", 0),
   V("mapping_list", <<"mapping">>, "implementation_mapping_list", 0),
   V("mapping_list", <<"mapping_list", "mapping">>, "implementation_mapping_list", 1),
   V("mapping", <<"_", "_", "_", "_">>, "implementation_mapping", 0)}

TypeVariants ==
  {V("type", <<"_">>, "type_void", 0),
   V("type", <<"_">>, "type_name", 0),
   V("type", <<"_">>, "type_name", 1),
   V("type", <<"_", "type">>, "type_pointer", 0),
   V("type", <<"_", "_", "struct_member_list", "_">>, "type_struct", 0),
   V("type", <<"_", "_", "_", "type">>, "type_array", 0),
   V("type", <<"_", "_", "type">>, "type_slice", 0),
   V("type", <<"_", "_", "_", "type">>, "type_func", 0),
   V("type", <<"_", "_", "func_type_args", "_", "type">>, "type_func", 1),
   V("type", <<"_", "_", "_">>, "type_interface", 0),
   V("type", <<"_", "_", "interface_member_list", "_">>, "type_interface", 1),
   V("struct_member_list", <<"struct_member">>, "struct_member_list", 0),
   V("struct_member_list", <<"struct_member_list", "struct_member">>, "struct_member_list", 1),
   V("struct_member", <<"type", "_", "_">>, "struct_member", 0),
   V("struct_member", <<"_", "_", "type", "_">>, "struct_member2", 0),
   V("func_type_args", <<"type">>, "func_type_args", 0),
   V("func_type_args", <<"func_type_args", "_", "type">>, "func_type_args", 1),
   V("interface_member_list", <<"interface_member">>, "interface_member_list", 0),
   V("interface_member_list", <<"interface_member_list", "interface_member">>, "interface_member_list", 1),
   V("interface_member", <<"_", "_", "type", "_">>, "interface_member_field", 0),
   V("interface_member", <<"_", "_", "_", "parameters", "_", "type", "_">>, "interface_member_func", 0),
   V("parameters", <<"parameter#">>, "interface_member_func_parameter_list", 0),
   V("parameters", <<"parameters", "_", "parameter#">>, "interface_member_func_parameter_list", 1),
   V("parameter#", <<"_">>, "interface_member_func_parameter", 0),
   V("parameter#", <<"type">>, Default, 0)}

UnitVariants ==
  {V("unit", <<"_", "_", "_">>, "import_unit", 0),
   V("unit", <<"_", "_", "_">>, "package_unit", 0),
   V("unit", <<"decl">>, "decl_unit", 0),
   V("unit", <<"func_unit_decl", "_">>, "func_unit", 0),
   V("unit", <<"func_unit_decl", "compound_stmt">>, "func_unit", 1),
   V("func_unit_decl", <<"type", "_", "_", "_">>, "func_unit_decl", 0),
   V("func_unit_decl", <<"type", "_", "_", "_", "_">>, "func_unit_decl", 1),
   V("func_unit_decl", <<"type", "_", "_", "parameter_list", "_">>, "func_unit_decl", 2),
   V("func_unit_decl", <<"type", "_", "_", "parameter_list", "_", "_", "_">>, "func_unit_decl", 3),
   V("func_unit_decl", <<"_", "_", "_", "_", "type">>, "func_unit_decl2", 0),
   V("func_unit_decl", <<"_", "_", "_", "_", "_", "type">>, "func_unit_decl2", 1),
   V("func_unit_decl", <<"_", "_", "_", "parameter_list", "_", "type">>, "func_unit_decl2", 2),
   V("func_unit_decl", <<"_", "_", "_", "parameter_list", "_", "_", "_", "type">>, "func_unit_decl2", 3),
   V("parameter_list", <<"parameter">>, "parameter_list", 0),
   V("parameter_list", <<"parameter_list", "_", "parameter">>, "parameter_list", 1),
   V("parameter", <<"type">>, "parameter", 0),
   V("parameter", <<"_", "type">>, "parameter", 1),
   V("unit", <<"_", "_", "_", "type", "_">>, "type_unit", 0),
   V("unit_list", <<"unit">>, "unit_list", 0),
   V("unit_list", <<"unit_list", "unit">>, "unit_list", 1),
   V("unit", <<"_">>, Default, 0)}

Variants == UNION {PostfixVariants, UnaryVariants, BinaryVariants, StmtVariants, DeclVariants,
                   TypeVariants, UnitVariants}

----------------------------------------------------------------------------
(* The reducers, one entry per tag.  A source says what becomes of the i-th *)
(* token of the right side, counted from 0 as in the code.  A field that is *)
(* not named stays zero (bzero).                                           *)

Source(how, i) == [how |-> how, at |-> i]
Own(i) == Source("own", i)      \* the field points to the node
Copy(i) == Source("copy", i)    \* the node is copied into the field and freed
Keep(i) == Source("keep", i)    \* the node is copied and not freed
Name(i) == Source("name", i)    \* a new string with the text of the token
Items(i) == Source("items", i)  \* the items of the list; its header is freed

NoFields == [x \in {} |-> 0]
Step(does, kind, from, at) == [does |-> does, kind |-> kind, from |-> from, at |-> at]
Make(kind, from) == Step("make", kind, from, 0)    \* malloc, bzero and the fields
Pass(i) == Step("pass", "", NoFields, i)           \* the node of a token, unchanged
Fill(kind, from) == Step("fill", kind, from, 0)    \* fields of the first token's node
Comma == Step("comma", "", NoFields, 2)
\* A new list with the first token's node, and a node added to it.  The flag
\* "sparse" marks the lists that skip a token without a node.
List(type, i) == <<Step("list", type, NoFields, 0), Step("add", type, NoFields, i)>>
SparseList(type, i) == <<Step("sparse list", type, NoFields, 0), Step("sparse add", type, NoFields, i)>>

PostfixReducers ==
  [primary_expr_ident |-> <<Make("IDENT_EXPR", [ident |-> Name(0)])>>,
   primary_expr_string |-> <<Make("STRING_LITERAL_EXPR", [string_literal |-> Name(0)])>>,
   primary_expr_number |-> <<Make("NUMBER_LITERAL_EXPR", [literal |-> Name(0)])>>,
   primary_expr_paren |-> <<Pass(1)>>,
   postfix_expr_index |-> <<Make("INDEX_ACCESS_EXPR", [target |-> Own(0), index |-> Own(2)])>>,
   postfix_expr_slice |->
     <<Make("INDEX_SLICE_EXPR", [target |-> Own(0), start |-> Own(2), end |-> Own(4)]),
       Make("INDEX_SLICE_EXPR", [target |-> Own(0), end |-> Own(3)]),
       Make("INDEX_SLICE_EXPR", [target |-> Own(0), start |-> Own(2)]),
       Make("INDEX_SLICE_EXPR", [target |-> Own(0)])>>,
   postfix_expr_call |-> <<Make("CALL_EXPR", [target |-> Own(0)]),
                           Make("CALL_EXPR", [target |-> Own(0), args |-> Items(2)])>>,
   postfix_expr_member |-> <<Make("MEMBER_ACCESS_EXPR", [target |-> Own(0), name |-> Name(2)])>>,
   postfix_expr_incdec |-> <<Make("INCDEC_EXPR", [target |-> Own(0)])>>,
   argument_expr_list |-> List("expr", 2)]

UnaryReducers ==
  [unary_expr_incdec |-> <<Make("INCDEC_EXPR", [target |-> Own(1)])>>,
   unary_expr_op |-> <<Make("UNARY_EXPR", [target |-> Own(1)])>>,
   unary_op |-> <<Pass(0)>>,
   unary_expr_sizeof |-> <<Make("SIZEOF_EXPR", [expr |-> Own(1)]),
                           Make("SIZEOF_TYPE", [type |-> Copy(2)])>>,
   builtin_func_new |-> <<Make("NEW_BUILTIN", [type |-> Copy(2)]),
                          Make("NEW_BUILTIN", [type |-> Copy(2), expr |-> Own(4)])>>,
   builtin_func_dispose |-> <<Make("DISPOSE_BUILTIN", [expr |-> Own(2)])>>,
   builtin_func_free |-> <<Make("FREE_BUILTIN", [expr |-> Own(2)])>>,
   builtin_func_make |-> <<Make("MAKE_BUILTIN", [type |-> Keep(2), expr |-> Own(4)])>>,
   builtin_func_lencap |-> <<Make("LENCAP_BUILTIN", [expr |-> Own(2)])>>,
   cast_expr |-> <<Make("CAST_EXPR", [target |-> Own(4), type |-> Copy(2)])>>,
   cast_expr2 |-> <<Make("CAST_EXPR", [target |-> Own(3), type |-> Copy(1)])>>]

\* Mutant: the last branch of a conditional is taken from the colon.
BinaryReducersOff ==
  [binary_expr |-> <<Make("BINARY_EXPR", [lhs |-> Own(0), rhs |-> Own(2)])>>,
   conditional_expr |->
     <<Make("CONDITIONAL_EXPR", [condition |-> Own(0), true_expr |-> Own(2), false_expr |-> Own(3)])>>,
   assignment_expr |-> <<Make("ASSIGNMENT_EXPR", [target |-> Own(0), expr |-> Own(2)])>>,
   assignment_op |-> <<Pass(0)>>,
   expr_comma |-> <<Comma>>]

BinaryReducers ==
  [binary_expr |-> <<Make("BINARY_EXPR", [lhs |-> Own(0), rhs |-> Own(2)])>>,
   conditional_expr |->
     <<Make("CONDITIONAL_EXPR", [condition |-> Own(0), true_expr |-> Own(2), false_expr |-> Own(4)])>>,
   assignment_expr |-> <<Make("ASSIGNMENT_EXPR", [target |-> Own(0), expr |-> Own(2)])>>,
   assignment_op |-> <<Pass(0)>>,
   expr_comma |-> <<Comma>>]

StmtReducers ==
  [expr_stmt |-> <<Make("EXPR_STMT", [expr |-> Own(0)])>>,
   compound_stmt |-> <<Make("COMPOUND_STMT", [items |-> Items(1)])>>,
   block_item_list |-> SparseList("block_item", 1),
   block_item_decl |-> <<Make("DECL_BLOCK_ITEM", [decl |-> Own(0)])>>,
   block_item_stmt |-> <<Make("STMT_BLOCK_ITEM", [stmt |-> Own(0)])>>,
   selection_stmt_if |->
     <<Make("IF_STMT", [condition |-> Own(1), stmt |-> Own(2)]),
       Make("IF_STMT", [condition |-> Own(1), stmt |-> Own(2), else_stmt |-> Own(4)])>>,
   selection_stmt_switch |-> <<Make("SWITCH_STMT", [condition |-> Own(2), stmt |-> Own(4)])>>,
   iteration_stmt_do |-> <<Make("DO_STMT", [stmt |-> Own(1), condition |-> Own(4)])>>,
   iteration_stmt_for_init |-> <<Make("FOR_STMT", NoFields), Make("FOR_STMT", [initial |-> Own(1)])>>,
   iteration_stmt_for_cond |-> <<Fill("FOR_STMT", NoFields), Fill("FOR_STMT", [condition |-> Own(1)])>>,
   iteration_stmt_for_step |-> <<Fill("FOR_STMT", NoFields), Fill("FOR_STMT", [step |-> Own(1)])>>,
   iteration_stmt_for_while |-> <<Make("FOR_STMT", NoFields), Make("FOR_STMT", [condition |-> Own(1)])>>,
   iteration_stmt_for |-> <<Fill("FOR_STMT", [stmt |-> Own(1)])>>,
   jump_stmt_goto |-> <<Make("GOTO_STMT", [name |-> Name(1)])>>,
   jump_stmt_continue |-> <<Make("CONTINUE_STMT", NoFields)>>,
   jump_stmt_break |-> <<Make("BREAK_STMT", NoFields)>>,
   jump_stmt_return |-> <<Make("RETURN_STMT", NoFields), Make("RETURN_STMT", [expr |-> Own(1)])>>,
   labeled_stmt_case |-> <<Make("CASE_STMT", [expr |-> Own(1), stmt |-> Own(3)])>>,
   labeled_stmt_default |-> <<Make("DEFAULT_STMT", [stmt |-> Own(2)])>>]

DeclReducers ==
  [variable_decl |->
     <<Make("VARIABLE_DECL", [type |-> Copy(1), name |-> Name(2)]),
       Make("VARIABLE_DECL", [type |-> Copy(1), name |-> Name(2), initial |-> Own(4)]),
       Make("VARIABLE_DECL", [name |-> Name(1), initial |-> Own(3)])>>,
   variable_decl2 |->
     <<Make("VARIABLE_DECL", [name |-> Name(0), type |-> Copy(2)]),
       Make("VARIABLE_DECL", [name |-> Name(0), type |-> Copy(2), initial |-> Own(4)]),
       Make("VARIABLE_DECL", [name |-> Name(0), initial |-> Own(2)])>>,
   const_decl |->
     <<Make("CONST_DECL", [name |-> Name(1), value |-> Copy(3)]),
       Make("CONST_DECL", [name |-> Name(1), type |-> Own(2), value |-> Copy(4)])>>,
   implementation_decl |->
     <<Make("IMPLEMENTATION_DECL", [interface |-> Own(1), target |-> Own(3), mappings |-> Items(6)])>>,
   implementation_mapping_list |-> List("implementation_mapping", 2),
   implementation_mapping |-> <<Make("MAPPING", [intf |-> Name(0), func |-> Name(2)])>>]

\* The tag of type_name is not in the code: 0 stands for a text that names a
\* number type or bool, 1 for any other name.
TypeReducers ==
  [type_void |-> <<Make("VOID_TYPE", NoFields)>>,
   type_name |-> <<Make("INTEGER_TYPE", NoFields), Make("NAMED_TYPE", [name |-> Name(0)])>>,
   type_pointer |-> <<Pass(1)>>,
   type_struct |-> <<Make("STRUCT_TYPE", [members |-> Items(2)])>>,
   struct_member_list |-> List("struct_member", 1),
   struct_member |-> <<Make("STRUCT_MEMBER", [type |-> Own(0), name |-> Name(1)])>>,
   struct_member2 |-> <<Make("STRUCT_MEMBER", [name |-> Name(0), type |-> Own(2)])>>,
   type_array |-> <<Make("ARRAY_TYPE", [type |-> Own(3)])>>,
   type_slice |-> <<Make("SLICE_TYPE", [type |-> Own(2)])>>,
   type_func |-> <<Make("FUNC_TYPE", [return_type |-> Own(3)]),
                   Make("FUNC_TYPE", [args |-> Items(2), return_type |-> Own(4)])>>,
   func_type_args |-> List("type", 2),
   type_interface |-> <<Make("INTERFACE_TYPE", NoFields), Make("INTERFACE_TYPE", [members |-> Items(2)])>>,
   interface_member_list |-> List("interface_member", 1),
   interface_member_field |-> <<Make("MEMBER_FIELD", [name |-> Name(0), type |-> Own(2)])>>,
   interface_member_func |->
     <<Make("MEMBER_FUNCTION", [name |-> Name(1), return_type |-> Own(5), args |-> Items(3)])>>,
   interface_member_func_parameter_list |-> List("type", 2),
   interface_member_func_parameter |-> <<Make("PLACEHOLDER_TYPE", NoFields)>>]

UnitReducers ==
  LET before(from) == Make("FUNC_UNIT", [return_type |-> Copy(0), name |-> Name(1)] @@ from)
      after(i, from) == Make("FUNC_UNIT", [return_type |-> Copy(i), name |-> Name(1)] @@ from)
  IN [package_unit |-> <<Make("PACKAGE_UNIT", [name |-> Name(1)])>>,
      import_unit |-> <<Make("IMPORT_UNIT", [import_name |-> Name(1)])>>,
      decl_unit |-> <<Make("DECL_UNIT", [decl |-> Own(0)])>>,
      func_unit |-> <<Fill("FUNC_UNIT", NoFields), Fill("FUNC_UNIT", [body |-> Own(1)])>>,
      func_unit_decl |-> <<before(NoFields), before(NoFields), before([params |-> Items(3)]),
                           before([params |-> Items(3)])>>,
      func_unit_decl2 |-> <<after(4, NoFields), after(5, NoFields), after(5, [params |-> Items(3)]),
                            after(7, [params |-> Items(3)])>>,
      parameter_list |-> List("func_param", 2),
      parameter |-> <<Make("FUNC_PARAM", [type |-> Copy(0)]),
                      Make("FUNC_PARAM", [name |-> Name(0), type |-> Copy(1)])>>,
      type_unit |-> <<Make("TYPE_UNIT", [type |-> Copy(3), name |-> Name(1)])>>,
      unit_list |-> SparseList("unit", 1)]

Reducers == (Default :> <<Pass(0)>>) @@ PostfixReducers @@ UnaryReducers @@ BinaryReducers
            @@ StmtReducers @@ DeclReducers @@ TypeReducers @@ UnitReducers

----------------------------------------------------------------------------
(* What the dispose functions do with each field of a node: "free" frees    *)
(* the memory it points to, "dispose" disposes of the nodes it points to or *)
(* holds, "both" does one and then the other.  A field without an entry is  *)
(* not looked at.                                                          *)

TypeDisposal ==
  [VOID_TYPE |-> NoFields, INTEGER_TYPE |-> NoFields, PLACEHOLDER_TYPE |-> NoFields,
   FUNC_TYPE |-> [return_type |-> "both", args |-> "both"],
   NAMED_TYPE |-> [name |-> "free"],
   STRUCT_TYPE |-> [members |-> "both"],
   STRUCT_MEMBER |-> [type |-> "both", name |-> "free"],
   ARRAY_TYPE |-> [type |-> "both"],
   SLICE_TYPE |-> [type |-> "both"],
   INTERFACE_TYPE |-> [members |-> "both"],
   MEMBER_FIELD |-> [type |-> "both", name |-> "free"],
   MEMBER_FUNCTION |-> [return_type |-> "both", args |-> "both", name |-> "free"]]

ExprDisposal ==
  [IDENT_EXPR |-> [ident |-> "free"],
   STRING_LITERAL_EXPR |-> [string_literal |-> "free"],
   NUMBER_LITERAL_EXPR |-> [literal |-> "free"],
   INDEX_ACCESS_EXPR |-> [target |-> "both", index |-> "both"],
   INDEX_SLICE_EXPR |-> [target |-> "both", start |-> "both", end |-> "both"],
   CALL_EXPR |-> [target |-> "both", args |-> "both"],
   MEMBER_ACCESS_EXPR |-> [target |-> "both", name |-> "free"],
   INCDEC_EXPR |-> [target |-> "both"],
   UNARY_EXPR |-> [target |-> "both"],
   SIZEOF_EXPR |-> [expr |-> "both"],
   SIZEOF_TYPE |-> [type |-> "dispose"],
   FREE_BUILTIN |-> [expr |-> "both"],
   NEW_BUILTIN |-> [type |-> "dispose"],
   MAKE_BUILTIN |-> [type |-> "dispose", expr |-> "both"],
   LENCAP_BUILTIN |-> [expr |-> "both"],
   DISPOSE_BUILTIN |-> [expr |-> "both"],
   CAST_EXPR |-> [target |-> "both", type |-> "dispose"],
   BINARY_EXPR |-> [lhs |-> "both", rhs |-> "both"],
   CONDITIONAL_EXPR |-> [condition |-> "both", true_expr |-> "both", false_expr |-> "both"],
   ASSIGNMENT_EXPR |-> [target |-> "both", expr |-> "both"],
   COMMA_EXPR |-> [exprs |-> "both"]]

StmtDisposal ==
  LET selection == [condition |-> "both", stmt |-> "both", else_stmt |-> "both"]
      iteration == [initial |-> "both", condition |-> "both", step |-> "both", stmt |-> "both"]
  IN [EXPR_STMT |-> [expr |-> "dispose"],
      COMPOUND_STMT |-> [items |-> "both"],
      IF_STMT |-> selection, SWITCH_STMT |-> selection,
      DO_STMT |-> iteration, FOR_STMT |-> iteration,
      GOTO_STMT |-> [name |-> "free"],
      CONTINUE_STMT |-> NoFields, BREAK_STMT |-> NoFields,
      RETURN_STMT |-> [expr |-> "both"],
      CASE_STMT |-> [expr |-> "both", stmt |-> "both"],
      DEFAULT_STMT |-> [stmt |-> "both"]]

\* Mutant: the declaration of a block item is disposed of and not freed.
BlockItemDisposalShort == [STMT_BLOCK_ITEM |-> [stmt |-> "both"], DECL_BLOCK_ITEM |-> [decl |-> "dispose"]]

BlockItemDisposal == [STMT_BLOCK_ITEM |-> [stmt |-> "both"], DECL_BLOCK_ITEM |-> [decl |-> "both"]]

DeclDisposal ==
  [VARIABLE_DECL |-> [type |-> "dispose", initial |-> "both", name |-> "free"],
   CONST_DECL |-> [type |-> "both", value |-> "dispose", name |-> "free"],
   IMPLEMENTATION_DECL |-> [interface |-> "both", target |-> "both", mappings |-> "both"],
   MAPPING |-> [intf |-> "free", func |-> "free"]]

UnitDisposal ==
  [IMPORT_UNIT |-> [import_name |-> "free"],
   PACKAGE_UNIT |-> [name |-> "free"],
   DECL_UNIT |-> [decl |-> "both"],
   FUNC_UNIT |-> [return_type |-> "dispose", name |-> "free", body |-> "both", params |-> "both"],
   FUNC_PARAM |-> [type |-> "dispose", name |-> "free"],
   TYPE_UNIT |-> [type |-> "dispose", name |-> "free"]]

Disposal == TypeDisposal @@ ExprDisposal @@ StmtDisposal @@ BlockItemDisposal @@ DeclDisposal
            @@ UnitDisposal
===============================================================================
