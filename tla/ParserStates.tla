----------------------------- MODULE ParserStates -----------------------------
(***************************************************************************)
(* The table that the generator writes and the parser reads                *)
(* (parser_states.h): a sequence with one record per state.  A row of      *)
(* "actions" is [tokens, state_or_length, rule], a row of "gotos" is       *)
(* [rule, state]; states are numbered from 0.                              *)
(***************************************************************************)
VARIABLE table      \* parser_states; <<>> until the generator has emitted it
==============================================================================
