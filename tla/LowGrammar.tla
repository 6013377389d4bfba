------------------------------ MODULE LowGrammar ------------------------------
(***************************************************************************)
(* Parts of the grammar of Low (grammar_rules.h), each large enough for    *)
(* one of its difficulties and small enough for its LR(1) automaton to be  *)
(* computed and run by the model checker.  A part keeps the rules' names   *)
(* and the variants' order; a chain of rules of which only one variant is  *)
(* left is contracted; the symbols whose inside does not matter to the     *)
(* part ("expr" in statements) are single tokens.                          *)
(***************************************************************************)
EXTENDS Sequences

Grammar(rules, variants) == [rules |-> rules, variants |-> variants]

\* Precedence by levels, left recursion, the two uses of a parenthesis, the
\* comma that separates arguments or builds an expression, and an assignment
\* whose left side is only recognised once the operator is seen.
ExprGrammar == Grammar(
  <<"primary_expr", "postfix_expr", "argument_expr_list", "additive_expr",
    "assignment_expr", "expr", "grammar_root">>,
  [primary_expr |-> << <<"IDENT">>, <<"LPAREN", "expr", "RPAREN">> >>,
   postfix_expr |-> << <<"primary_expr">>,
                       <<"postfix_expr", "LPAREN", "RPAREN">>,
                       <<"postfix_expr", "LPAREN", "argument_expr_list", "RPAREN">> >>,
   argument_expr_list |-> << <<"assignment_expr">>,
                             <<"argument_expr_list", "COMMA", "assignment_expr">> >>,
   additive_expr |-> << <<"postfix_expr">>,
                        <<"additive_expr", "ADD_OP", "postfix_expr">> >>,
   assignment_expr |-> << <<"additive_expr">>,
                          <<"postfix_expr", "ASSIGN", "assignment_expr">> >>,
   expr |-> << <<"assignment_expr">>, <<"expr", "COMMA", "assignment_expr">> >>,
   grammar_root |-> << <<"expr">> >>])

\* Mutant: the branches of an if are any statements, not blocks.
DanglingElse == Grammar(
  <<"expr", "selection_stmt", "stmt", "grammar_root">>,
  [expr |-> << <<"IDENT">> >>,
   selection_stmt |-> << <<"IF", "expr", "stmt">>,
                         <<"IF", "expr", "stmt", "ELSE", "stmt">> >>,
   stmt |-> << <<"SEMICOLON">>, <<"selection_stmt">> >>,
   grammar_root |-> << <<"stmt">> >>])

\* Lists of statements and declarations: a declaration that starts like an
\* expression, else branches, and the four heads of a for loop.
StmtGrammar == Grammar(
  <<"expr", "expr_stmt", "compound_stmt", "block_item_list", "block_item",
    "selection_stmt", "iteration_stmt", "iteration_stmt_for_init",
    "iteration_stmt_for_cond", "iteration_stmt_for_step",
    "iteration_stmt_for_while", "stmt", "variable_decl", "grammar_root">>,
  [expr |-> << <<"IDENT">> >>,
   expr_stmt |-> << <<"SEMICOLON">>, <<"expr", "SEMICOLON">> >>,
   compound_stmt |-> << <<"LBRACE", "RBRACE">>,
                        <<"LBRACE", "block_item_list", "RBRACE">> >>,
   block_item_list |-> << <<"block_item">>, <<"block_item_list", "block_item">> >>,
   block_item |-> << <<"variable_decl">>, <<"stmt">> >>,
   selection_stmt |-> << <<"IF", "expr", "compound_stmt">>,
                         <<"IF", "expr", "compound_stmt", "ELSE", "stmt">> >>,
   iteration_stmt |-> << <<"iteration_stmt_for_step", "compound_stmt">>,
                         <<"iteration_stmt_for_while", "compound_stmt">> >>,
   iteration_stmt_for_init |-> << <<"FOR", "SEMICOLON">>,
                                  <<"FOR", "expr", "SEMICOLON">> >>,
   iteration_stmt_for_cond |-> << <<"iteration_stmt_for_init", "SEMICOLON">>,
                                  <<"iteration_stmt_for_init", "expr", "SEMICOLON">> >>,
   iteration_stmt_for_step |-> << <<"iteration_stmt_for_cond">>,
                                  <<"iteration_stmt_for_cond", "expr">> >>,
   iteration_stmt_for_while |-> << <<"FOR">>, <<"FOR", "expr">> >>,
   stmt |-> << <<"expr_stmt">>, <<"compound_stmt">>, <<"selection_stmt">>,
               <<"iteration_stmt">> >>,
   variable_decl |-> << <<"IDENT", "DEF_ASSIGN", "expr", "SEMICOLON">> >>,
   grammar_root |-> << <<"block_item_list">> >>])

\* Units: a parameter that is a type or a name and a type, a function that is
\* declared or defined, in both notations.
UnitGrammar == Grammar(
  <<"type", "func_unit", "func_unit_decl", "parameter_list", "parameter",
    "unit_list", "unit", "grammar_root">>,
  [type |-> << <<"IDENT">>, <<"MUL_OP", "type">>,
               <<"FUNC", "LPAREN", "RPAREN", "type">> >>,
   func_unit |-> << <<"func_unit_decl", "SEMICOLON">>,
                    <<"func_unit_decl", "LBRACE", "RBRACE">> >>,
   func_unit_decl |-> << <<"type", "IDENT", "LPAREN", "RPAREN">>,
                         <<"type", "IDENT", "LPAREN", "parameter_list", "RPAREN">>,
                         <<"FUNC", "IDENT", "LPAREN", "parameter_list", "RPAREN", "type">> >>,
   parameter_list |-> << <<"parameter">>,
                         <<"parameter_list", "COMMA", "parameter">> >>,
   parameter |-> << <<"type">>, <<"IDENT", "type">> >>,
   unit_list |-> << <<"unit">>, <<"unit_list", "unit">> >>,
   unit |-> << <<"func_unit">>, <<"SEMICOLON">> >>,
   grammar_root |-> << <<"unit_list">> >>])
==============================================================================
