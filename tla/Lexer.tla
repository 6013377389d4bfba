-------------------------------- MODULE Lexer --------------------------------
(***************************************************************************)
(* The lexer of lexer.c: lexer_next turns the text of a source file into   *)
(* the next token, inserting a semicolon at the end of a line whose last   *)
(* token may end a statement.                                              *)
(*                                                                         *)
(* Characters are represented by one of each kind the code tells apart,    *)
(* and operators by a few that cover every length and both sides of the    *)
(* "terminators" table.  One action is one round of a loop in the code.    *)
(***************************************************************************)
EXTENDS Integers, Sequences, FiniteSets

CONSTANTS Texts,     \* the source files to be read; mmap refuses an empty one
          PageSize   \* of the memory a file is mapped to

Newline == "nl"
Blank == {"nl", "sp"}                 \* is_whitespace
Digit == {"0"}                        \* is_number_dec
Letter == {"a", "r", "v"}             \* is_ident_start
Quote == "q"
Backslash == "b"
Separator == "'"                      \* only meaningful inside a number
Garbage == {"@", Separator}           \* starts no token
Chars == Blank \cup Digit \cup Letter \cup Garbage
           \cup {Quote, Backslash, "/", "*", "+", "=", ".", "(", ")", ";"}

is_ident(c) == c \in Letter \cup Digit
is_number(c) == c \in Letter \cup Digit \cup {"."}

\* The tables of operators: "INC" and "RPAREN" stand for the operators that may
\* end a statement, "OP" for all others.
Operators3 == {<<".", ".", ".">>}
Operators2 == {<<"+", "+">>, <<"+", "=">>, <<"/", "=">>, <<"=", "=">>}
Operators1 == {<<"/">>, <<"*">>, <<"+">>, <<"=">>, <<".">>, <<"(">>, <<")">>, <<";">>}

OperatorToken(op) ==
  CASE op = <<"+", "+">> -> "INC"
    [] op = <<")">>      -> "RPAREN"
    [] op = <<";">>      -> "SEMI"
    [] OTHER             -> "OP"

\* The keyword table: "RETURN" stands for break, continue, return and void.
KeywordToken(lexeme) ==
  CASE lexeme = <<"r">> -> "RETURN"
    [] lexeme = <<"v">> -> "VAR"
    [] OTHER            -> "IDENT"

Tokens == {"SOF", "EOF", "INVALID", "IDENT", "RETURN", "VAR", "NUMBER", "STRING",
           "INC", "RPAREN", "OP", "SEMI"}

Terminators == {"IDENT", "RETURN", "NUMBER", "STRING", "INC", "RPAREN"}

ASSUME ConstantsAssumption ==
  /\ Texts \subseteq Seq(Chars) /\ \A t \in Texts : Len(t) > 0
  /\ PageSize \in Nat \ {0}

VARIABLES text,      \* the file
          ptr,       \* self->ptr, a position in 1..Len(text)+1
          base,      \* self->base, where the token starts
          token,     \* self->token
          line,      \* self->loc.line
          col,       \* self->loc.col
          line_base, \* self->line_base
          mode,      \* the loop that is running, or "returned"
          from,      \* where the last call of lexer_next started
          before     \* the token the last call of lexer_next found

vars == <<text, ptr, base, token, line, col, line_base, mode, from, before>>

End == Len(text) + 1
Lexeme(first, last) == SubSeq(text, first, last - 1)
LooksAt(s) == ptr + Len(s) <= End /\ Lexeme(ptr, ptr + Len(s)) = s

\* lexer_step; the plain ++ptr of the code outside a newline is the other case.
lexer_step ==
  /\ ptr' = ptr + 1
  /\ IF text[ptr] = Newline
       THEN line' = line + 1 /\ col' = 0 /\ line_base' = ptr + 1
       ELSE UNCHANGED <<line, col, line_base>>

\* A step over n characters that hold no newline.
Advance(n) == ptr' = ptr + n /\ UNCHANGED <<line, line_base>>

\* Mutant: the column is left as it was.
MarkOnly == base' = ptr /\ UNCHANGED col

\* The head of a round of the main loop that has found something to look at.
Mark == base' = ptr /\ col' = ptr - line_base

Return(tkn) == token' = tkn /\ mode' = "returned"
Same == UNCHANGED <<text, from, before>>

Init ==
  /\ text \in Texts
  /\ ptr = 1 /\ base = 1 /\ token = "SOF"
  /\ line = 0 /\ col = 0 /\ line_base = 1
  /\ mode = "returned" /\ from = 1 /\ before = "SOF"

\* The parser asks for the next token; after the last one nothing changes.
lexer_next ==
  /\ mode = "returned" /\ token \notin {"INVALID", "EOF"}
  /\ mode' = "scan"
  /\ from' = ptr /\ before' = token
  /\ UNCHANGED <<text, ptr, base, token, line, col, line_base>>

(***************************************************************************)
(* The main loop.                                                          *)
(***************************************************************************)
Scanning == mode = "scan" /\ ptr # End

EndOfFile ==
  /\ mode = "scan" /\ ptr = End
  /\ Return("EOF")
  /\ Same /\ UNCHANGED <<ptr, base, line, col, line_base>>

\* Mutant: every newline becomes a semicolon.
InsertAlways ==
  /\ Scanning /\ text[ptr] = Newline
  /\ base' = ptr
  /\ lexer_step
  /\ Return("SEMI")
  /\ Same

\* A newline after a token that may end a statement is a semicolon.  Its column
\* is computed, and then reset by the step over the newline.
InsertSemicolon ==
  /\ Scanning /\ text[ptr] = Newline /\ token \in Terminators
  /\ base' = ptr
  /\ lexer_step
  /\ Return("SEMI")
  /\ Same

SkipBlank ==
  /\ Scanning /\ text[ptr] \in Blank
  /\ ~(text[ptr] = Newline /\ token \in Terminators)
  /\ lexer_step
  /\ Same /\ UNCHANGED <<base, token, mode>>

Operator(op) ==
  /\ Scanning /\ LooksAt(op)
  /\ Mark /\ Advance(Len(op))
  /\ Return(OperatorToken(op))
  /\ Same

\* The tables are tried from the longest operators to the shortest, comments
\* before the operators of two characters.
LineCommentStart == LooksAt(<<"/", "/">>)
BlockCommentStart == LooksAt(<<"/", "*">>)
Operator3 == \E op \in Operators3 : Operator(op)
Operator2 ==
  /\ ~\E op \in Operators3 : LooksAt(op)
  /\ ~LineCommentStart /\ ~BlockCommentStart
  /\ \E op \in Operators2 : Operator(op)
Operator1 ==
  /\ ~\E op \in Operators3 \cup Operators2 : LooksAt(op)
  /\ ~LineCommentStart /\ ~BlockCommentStart
  /\ \E op \in Operators1 : Operator(op)

BeginComment(start, next) ==
  /\ Scanning /\ start
  /\ Mark /\ Advance(2) /\ mode' = next
  /\ Same /\ UNCHANGED token

BeginLineComment == BeginComment(LineCommentStart, "line")
BeginBlockComment == BeginComment(BlockCommentStart, "block")

\* The rest of the body of the main loop looks at a single character.
BeginString ==
  /\ Scanning /\ text[ptr] = Quote
  /\ Mark /\ Advance(1)
  /\ token' = "STRING" /\ mode' = "string"
  /\ Same

BeginNumber ==
  /\ Scanning /\ text[ptr] \in Digit
  /\ Mark /\ Advance(1) /\ mode' = "number"
  /\ Same /\ UNCHANGED token

BeginIdent ==
  /\ Scanning /\ text[ptr] \in Letter
  /\ Mark /\ Advance(1) /\ mode' = "ident"
  /\ Same /\ UNCHANGED token

\* A character that starts nothing is skipped.  The keyword block, guarded by
\* self->token, runs on it too when the token before it was an identifier, and
\* then returns without having moved.
StaleIdent ==
  /\ Scanning /\ text[ptr] \in Garbage \cup {Backslash} /\ token = "IDENT"
  /\ Mark /\ Advance(0)
  /\ Return("IDENT")
  /\ Same

SkipGarbage ==
  /\ Scanning /\ text[ptr] \in Garbage \cup {Backslash} /\ token # "IDENT"
  /\ Mark /\ Advance(1)
  /\ Same /\ UNCHANGED <<token, mode>>

(***************************************************************************)
(* The inner loops.                                                        *)
(***************************************************************************)
\* Mutant: a comment on a line goes on behind the newline.
LineCommentToEnd ==
  /\ mode = "line"
  /\ IF ptr = End
       THEN mode' = "scan" /\ UNCHANGED <<ptr, line, col, line_base>>
       ELSE lexer_step /\ UNCHANGED mode
  /\ Same /\ UNCHANGED <<base, token>>

\* Mutant: the end of the file does not end the comment.
LineCommentNoEnd ==
  /\ mode = "line" /\ ptr # End
  /\ lexer_step /\ mode' = IF text[ptr] = Newline THEN "scan" ELSE "line"
  /\ Same /\ UNCHANGED <<base, token>>

\* consume_oneline_comment steps over the newline that ends the comment.
LineComment ==
  /\ mode = "line"
  /\ IF ptr = End
       THEN mode' = "scan" /\ UNCHANGED <<ptr, line, col, line_base>>
       ELSE lexer_step /\ mode' = IF text[ptr] = Newline THEN "scan" ELSE "line"
  /\ Same /\ UNCHANGED <<base, token>>

\* Mutant: a star ends the comment, whatever follows it.
BlockCommentUnchecked ==
  /\ mode = "block"
  /\ IF ptr = End
       THEN mode' = "scan" /\ UNCHANGED <<ptr, line, col, line_base>>
       ELSE IF text[ptr] = "*" THEN Advance(2) /\ mode' = "scan" /\ UNCHANGED col
                               ELSE lexer_step /\ UNCHANGED mode
  /\ Same /\ UNCHANGED <<base, token>>

\* consume_multiline_comment
BlockComment ==
  /\ mode = "block"
  /\ IF ptr = End
       THEN mode' = "scan" /\ UNCHANGED <<ptr, line, col, line_base>>
       ELSE IF LooksAt(<<"*", "/">>)
              THEN Advance(2) /\ mode' = "scan" /\ UNCHANGED col
              ELSE lexer_step /\ UNCHANGED mode
  /\ Same /\ UNCHANGED <<base, token>>

\* Mutant: newlines in a string are not counted.
StringBodyNoLines ==
  /\ mode = "string" /\ ptr # End
  /\ text[ptr] # Backslash
  /\ Advance(1) /\ UNCHANGED col
  /\ mode' = IF text[ptr] = Quote THEN "returned" ELSE "string"
  /\ Same /\ UNCHANGED <<base, token>>

\* The loop over a string literal: an escape takes the next character with it.
StringBody ==
  /\ mode = "string" /\ ptr # End
  /\ text[ptr] # Backslash
  /\ lexer_step
  /\ mode' = IF text[ptr] = Quote THEN "returned" ELSE "string"
  /\ Same /\ UNCHANGED <<base, token>>

StringEscape ==
  /\ mode = "string" /\ ptr # End
  /\ text[ptr] = Backslash
  /\ Advance(1) /\ UNCHANGED col
  /\ mode' = "escape"
  /\ Same /\ UNCHANGED <<base, token>>

EscapedChar ==
  /\ mode = "escape" /\ ptr # End
  /\ lexer_step /\ mode' = "string"
  /\ Same /\ UNCHANGED <<base, token>>

Unterminated ==
  /\ mode \in {"string", "escape"} /\ ptr = End
  /\ Return("INVALID")
  /\ Same /\ UNCHANGED <<ptr, base, line, col, line_base>>

\* The loops over numbers and identifiers do not test for the end of the file:
\* they read the byte after it.  mmap fills the last page with zeros, which end
\* the loop; a file that fills its last page has no such byte.
FillsPage == Len(text) % PageSize = 0

ReadPastEnd ==
  /\ mode \in {"number", "ident"} /\ ptr = End /\ FillsPage
  /\ mode' = "crashed"
  /\ Same /\ UNCHANGED <<ptr, base, token, line, col, line_base>>

InNumber == ptr # End /\ (is_number(text[ptr]) \/ text[ptr] = Separator)
InIdent == ptr # End /\ is_ident(text[ptr])

NumberBody ==
  /\ mode = "number" /\ InNumber
  /\ Advance(1)
  /\ Same /\ UNCHANGED <<col, base, token, mode>>

NumberEnd ==
  /\ mode = "number" /\ ~InNumber /\ ~(ptr = End /\ FillsPage)
  /\ Return("NUMBER")
  /\ Same /\ UNCHANGED <<ptr, base, line, col, line_base>>

IdentBody ==
  /\ mode = "ident" /\ InIdent
  /\ Advance(1)
  /\ Same /\ UNCHANGED <<col, base, token, mode>>

\* The end of an identifier, with the keyword table looked up on it.
IdentEnd ==
  /\ mode = "ident" /\ ~InIdent /\ ~(ptr = End /\ FillsPage)
  /\ Return(KeywordToken(Lexeme(base, ptr)))
  /\ Same /\ UNCHANGED <<ptr, base, line, col, line_base>>

Next ==
  \/ lexer_next
  \/ EndOfFile \/ InsertSemicolon \/ SkipBlank
  \/ Operator3 \/ Operator2 \/ Operator1
  \/ BeginLineComment \/ BeginBlockComment
  \/ BeginString \/ BeginNumber \/ BeginIdent
  \/ StaleIdent \/ SkipGarbage
  \/ LineComment \/ BlockComment
  \/ StringBody \/ StringEscape \/ EscapedChar \/ Unterminated
  \/ NumberBody \/ NumberEnd \/ IdentBody \/ IdentEnd \/ ReadPastEnd

Spec == Init /\ [][Next]_vars

\* The parser keeps asking and the lexer keeps running: one sequential program.
FairSpec == Spec /\ WF_vars(Next)

(***************************************************************************)
(* Properties.                                                             *)
(***************************************************************************)
Modes == {"returned", "scan", "line", "block", "string", "escape", "number",
          "ident", "crashed"}

\* Types; the lexer never moves past the end of the file, and what it remembers
\* lies behind it (also where a comment or an escape meets the end of the file).
TypeInvariant ==
  /\ text \in Texts
  /\ ptr \in 1..End /\ base \in 1..ptr /\ line_base \in 1..ptr /\ from \in 1..ptr
  /\ token \in Tokens /\ before \in Tokens /\ mode \in Modes
  /\ line \in Nat /\ col \in Nat

Newlines(first, last) == {i \in first..last : text[i] = Newline}

\* self->line_base is where the line that self->ptr is on begins, whatever crosses
\* a newline on the way there: blanks, comments, strings and escapes in strings.
LineStart ==
  /\ line_base = 1 \/ text[line_base - 1] = Newline
  /\ Newlines(line_base, ptr - 1) = {}

Returned == mode = "returned" /\ token # "SOF"

\* The location the parser takes with a token is the line and the column the token
\* starts at, unless the token itself runs across a newline.
TokenLocation ==
  Returned /\ token # "EOF" /\ Newlines(base, ptr - 1) = {}
    => line = Cardinality(Newlines(1, base - 1)) /\ col = base - line_base

(***************************************************************************)
(* What may lie between two tokens, told from the text alone: pieces that  *)
(* follow each other without a hole and without an overlap.                *)
(***************************************************************************)
\* The text from a up to b, b not included, is a comment to the end of its line,
\* or to the end of the file.
OneLine(a, b) ==
  /\ a + 2 <= b /\ text[a] = "/" /\ text[a + 1] = "/"
  /\ Newlines(a + 2, b - 2) = {}
  /\ b = End \/ text[b - 1] = Newline

\* It is a comment that ends at the first mark behind its own, or with the file.
MultiLine(a, b) ==
  /\ a + 2 <= b /\ text[a] = "/" /\ text[a + 1] = "*"
  /\ ~\E e \in (a + 2)..(b - 3) : text[e] = "*" /\ text[e + 1] = "/"
  /\ b = End \/ (a + 4 <= b /\ text[b - 2] = "*" /\ text[b - 1] = "/")

Piece(a, b) ==
  \/ b = a + 1 /\ text[a] \in Blank \cup Garbage \cup {Backslash}
  \/ OneLine(a, b)
  \/ MultiLine(a, b)

\* The positions that whole pieces lead to from the end of the previous token.
Closed(S) ==
  from \in S /\ \A a \in S : \A b \in from..End : Piece(a, b) => b \in S
Gap ==
  LET closed == {S \in SUBSET (from..End) : Closed(S)}
  IN  {p \in from..End : \A S \in closed : p \in S}

\* Where the token that has been returned begins.
Start == IF token = "EOF" THEN ptr ELSE base

\* No character is lost: from the end of a token to the start of the next there are
\* only whole comments, blanks and characters that start no token, one behind the
\* other, also where comment marks overlap ("/*/", "//*").
NothingLost == Returned => Start \in Gap

\* The newlines before or at the token, those inside and at the end of comments
\* left out.
LineEnds == {n \in Gap : n < End /\ n <= Start /\ text[n] = Newline}

\* A newline outside a comment becomes a semicolon exactly when the token before it
\* may end a statement: the first one does, and the semicolon is then the next
\* token; in all other cases a semicolon is one in the text.  The newline that ends a
\* "//" comment belongs to the comment (lexer.c:44) and gives no semicolon, although
\* the rule stated at lexer.c:112-115 makes no such exception.
SemicolonRule ==
  Returned =>
    IF before \in Terminators /\ LineEnds # {}
      THEN token = "SEMI" /\ LineEnds = {base}
      ELSE token = "SEMI" => text[base] = ";"

\* Every file is read to its end, as long as no character that starts no token
\* follows an identifier and an identifier or number at the end of the file has
\* a byte behind it.
Done == mode = "returned" /\ token \in {"EOF", "INVALID"}
Readable ==
  /\ ~\E i, j \in 1..Len(text) :
        i < j /\ text[i] \in Letter /\ text[j] \in Garbage \cup {Backslash}
  /\ ~FillsPage
Finishes == Readable => <>Done

\* "ignoring garbage character": a character that starts no token is skipped, and
\* the file is read to its end all the same.
GarbageIsIgnored == ~FillsPage => <>Done
==============================================================================
