---------------------------- MODULE MCParserTables ----------------------------
(* The parts of the grammar of Low, and the tokens they are made of.         *)
EXTENDS ParserTables, LowGrammar, Functions

LowGrammars == {ExprGrammar, StmtGrammar, UnitGrammar}

TokensOf(g) ==
  UNION { UNION { Range(v) : v \in Range(g.variants[r]) } : r \in DOMAIN g.variants }
    \ DOMAIN g.variants

LowTokens == UNION { TokensOf(g) : g \in LowGrammars }
==============================================================================
