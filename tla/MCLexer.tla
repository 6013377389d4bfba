------------------------------- MODULE MCLexer -------------------------------
(* All short files over three alphabets that bring out comments, literals and *)
(* operators, and characters that start no token.                             *)
EXTENDS Lexer

CONSTANTS MaxLen

Strings(alphabet, max) == UNION {[1..n -> alphabet] : n \in 1..max}

CommentTexts == Strings({"nl", "sp", "/", "*", "a", "+"}, MaxLen)
LiteralTexts == Strings({"nl", "q", "b", "0", ".", "r", ")", "+"}, MaxLen - 1)
OtherTexts == Strings({"nl", "sp", "a", "0", "v", "=", ";", "("}, MaxLen - 1)
GarbageTexts == Strings({"nl", "sp", "a", "0", "'", "@"}, MaxLen - 1)

AllTexts == CommentTexts \cup LiteralTexts \cup OtherTexts \cup GarbageTexts
==============================================================================
