----------------------------- MODULE LexerProofs -----------------------------
(***************************************************************************)
(* For every file: the lexer never leaves the file and always knows where  *)
(* the current line begins; tokens are where it says they are, nothing is  *)
(* lost between them, and newlines outside comments become semicolons      *)
(* exactly where they should.                                              *)
(***************************************************************************)
EXTENDS Lexer, SequenceTheorems, FiniteSetTheorems, TLAPS

LexerInvariant == TypeInvariant /\ LineStart

LEMMA TextFacts ==
  ASSUME TypeInvariant
  PROVE  /\ text \in Seq(Chars) /\ Len(text) \in Nat /\ End \in Nat /\ End = Len(text) + 1
         /\ ptr \in Nat /\ base \in Nat /\ line_base \in Nat /\ from \in Nat
         /\ 1 <= base /\ base <= ptr /\ 1 <= line_base /\ line_base <= ptr
         /\ 1 <= from /\ from <= ptr /\ ptr <= End
BY ConstantsAssumption, LenProperties DEF TypeInvariant, End

\* What the lexer sees when it looks for an operator or a comment mark.
LEMMA SeenChars ==
  ASSUME TypeInvariant, NEW s \in Seq(Chars), LooksAt(s)
  PROVE  /\ ptr + Len(s) <= End
         /\ \A i \in ptr..(ptr + Len(s) - 1) : text[i] = s[i - ptr + 1]
<1> DEFINE p == ptr
           q == ptr + Len(s) - 1
           u == SubSeq(text, p, q)
<1>1. /\ p \in Nat /\ p >= 1 /\ Len(s) \in Nat /\ q \in Int /\ q <= Len(text)
      /\ Len(text) \in Nat /\ u = s /\ ptr + Len(s) <= End
  BY TextFacts, LenProperties DEF LooksAt, Lexeme
<1>2. \A i \in p..q : text[i] \in Chars
  <2>1. \A i \in p..q : i \in 1..Len(text)
    BY <1>1
  <2> QED
    BY <2>1, TextFacts, ElementOfSeq
<1>3. \A i \in 1..(q - p + 1) : u[i] = text[p + i - 1]
  BY <1>1, <1>2, SubSeqProperties
<1>4. ASSUME NEW i \in p..q
      PROVE  text[i] = s[i - p + 1]
  <2>1. i - p + 1 \in 1..(q - p + 1) /\ p + (i - p + 1) - 1 = i
    BY <1>1
  <2>2. u[i - p + 1] = text[i]
    BY <1>3, <2>1
  <2> QED
    BY <1>1, <2>2
<1> QED
  BY <1>1, <1>4

\* Stepping over characters without a newline keeps the line.
LEMMA AdvanceKeeps ==
  ASSUME LexerInvariant, NEW n \in Nat, ptr' = ptr + n, UNCHANGED <<text, line_base>>,
         \A i \in ptr..(ptr + n - 1) : text[i] # Newline
  PROVE  LineStart'
<1>1. ptr \in Nat /\ line_base \in Nat /\ line_base <= ptr
  BY TextFacts DEF LexerInvariant
<1>2. ASSUME NEW i \in line_base..(ptr' - 1) PROVE text[i] # Newline
  <2>1. CASE i < ptr
    <3>1. i \in line_base..(ptr - 1)
      BY <1>1, <2>1
    <3> QED
      BY <3>1 DEF LexerInvariant, LineStart, Newlines
  <2>2. CASE i >= ptr
    BY <1>1, <2>2
  <2> QED
    BY <1>1, <2>1, <2>2
<1> QED
  BY <1>2 DEF LexerInvariant, LineStart, Newlines

\* lexer_step keeps the line or starts the next one.
LEMMA StepKeeps ==
  ASSUME LexerInvariant, ptr # End, lexer_step, UNCHANGED text
  PROVE  /\ LineStart'
         /\ ptr' = ptr + 1 /\ ptr' \in 1..End /\ line_base' \in 1..ptr'
         /\ line' \in Nat /\ col' \in Nat
<1>1. /\ ptr \in Nat /\ ptr >= 1 /\ ptr < End /\ End \in Nat /\ line_base \in Nat
      /\ line_base >= 1 /\ line_base <= ptr /\ line \in Nat /\ col \in Nat
  BY TextFacts DEF LexerInvariant, TypeInvariant
<1>2. CASE text[ptr] = Newline
  <2>1. ptr' = ptr + 1 /\ line_base' = ptr + 1 /\ line' = line + 1 /\ col' = 0
    BY <1>2 DEF lexer_step
  <2>2. text[line_base' - 1] = Newline
    BY <1>1, <1>2, <2>1
  <2>3. line_base'..(ptr' - 1) = {}
    BY <1>1, <2>1
  <2> QED
    BY <1>1, <2>1, <2>2, <2>3 DEF LineStart, Newlines
<1>3. CASE text[ptr] # Newline
  <2>1. ptr' = ptr + 1 /\ UNCHANGED <<line, col, line_base>>
    BY <1>3 DEF lexer_step
  <2>2. \A i \in ptr..(ptr + 1 - 1) : text[i] # Newline
    BY <1>1, <1>3
  <2>3. LineStart'
    BY <2>1, <2>2, AdvanceKeeps
  <2> QED
    BY <1>1, <2>1, <2>3
<1> QED
  BY <1>2, <1>3

\* What is left to show of a step that moves the lexer on.
LEMMA Moved ==
  ASSUME LexerInvariant, Same, LineStart', ptr' \in 1..End, ptr <= ptr',
         base' = base \/ base' = ptr, line_base' \in 1..ptr',
         token' \in Tokens, mode' \in Modes, line' \in Nat, col' \in Nat
  PROVE  LexerInvariant'
<1>1. text' = text /\ from' = from /\ before' = before /\ End' = End
  BY DEF Same, End
<1>2. base' \in 1..ptr' /\ from' \in 1..ptr'
  BY <1>1, TextFacts DEF LexerInvariant
<1> QED
  BY <1>1, <1>2 DEF LexerInvariant, TypeInvariant

LEMMA Stepped ==
  ASSUME LexerInvariant, Same, ptr # End, lexer_step, base' = base \/ base' = ptr,
         token' \in Tokens, mode' \in Modes
  PROVE  LexerInvariant'
<1>1. UNCHANGED text /\ ptr \in Nat
  BY TextFacts DEF Same, LexerInvariant
<1> QED
  BY <1>1, StepKeeps, Moved

LEMMA Advanced ==
  ASSUME LexerInvariant, Same, NEW n \in Nat, ptr + n <= End, Advance(n),
         \A i \in ptr..(ptr + n - 1) : text[i] # Newline,
         Mark \/ UNCHANGED <<base, col>>, token' \in Tokens, mode' \in Modes
  PROVE  LexerInvariant'
<1>1. /\ UNCHANGED <<text, line, line_base>> /\ ptr' = ptr + n
      /\ ptr \in Nat /\ End \in Nat /\ line_base \in Nat /\ 1 <= line_base
      /\ line_base <= ptr /\ 1 <= ptr /\ line \in Nat /\ col \in Nat
  BY TextFacts DEF Same, Advance, LexerInvariant, TypeInvariant
<1>2. LineStart'
  BY <1>1, AdvanceKeeps
<1>3. (base' = base \/ base' = ptr) /\ col' \in Nat
  BY <1>1 DEF Mark
<1>4. ptr' \in 1..End /\ ptr <= ptr' /\ line_base' \in 1..ptr' /\ line' \in Nat
  BY <1>1
<1> QED
  BY <1>2, <1>3, <1>4, Moved

LEMMA Stayed ==
  ASSUME LexerInvariant, Same, UNCHANGED <<ptr, base, line, col, line_base>>,
         token' \in Tokens, mode' \in Modes
  PROVE  LexerInvariant'
<1>1. LineStart'
  BY DEF LexerInvariant, LineStart, Newlines, Same
<1>2. ptr' \in 1..End /\ ptr <= ptr' /\ line_base' \in 1..ptr' /\ line' \in Nat /\ col' \in Nat
  BY TextFacts DEF LexerInvariant, TypeInvariant
<1> QED
  BY <1>1, <1>2, Moved

LEMMA Tuples ==
  ASSUME NEW S, NEW a \in S, NEW b \in S, NEW c \in S
  PROVE  <<a>> \in Seq(S) /\ <<a, b>> \in Seq(S) /\ <<a, b, c>> \in Seq(S)
OBVIOUS

\* Operators and comment marks hold no newline.
CommentMarks == {<<"/", "/">>, <<"/", "*">>, <<"*", "/">>}
OpChars == {"/", "*", "+", "=", ".", "(", ")", ";"}

LEMMA MarkChars ==
  Operators3 \cup Operators2 \cup Operators1 \cup CommentMarks \subseteq Seq(OpChars)
<1>1. /\ "/" \in OpChars /\ "*" \in OpChars /\ "+" \in OpChars /\ "=" \in OpChars
      /\ "." \in OpChars /\ "(" \in OpChars /\ ")" \in OpChars /\ ";" \in OpChars
  BY DEF OpChars
<1>2. Operators3 \subseteq Seq(OpChars)
  BY <1>1, Tuples DEF Operators3
<1>3. Operators2 \subseteq Seq(OpChars)
  BY <1>1, Tuples DEF Operators2
<1>4. Operators1 \subseteq Seq(OpChars)
  BY <1>1, Tuples DEF Operators1
<1>5. CommentMarks \subseteq Seq(OpChars)
  BY <1>1, Tuples DEF CommentMarks
<1> QED
  BY <1>2, <1>3, <1>4, <1>5

LEMMA Marks ==
  ASSUME NEW s \in Seq(OpChars)
  PROVE  /\ s \in Seq(Chars) /\ Len(s) \in Nat
         /\ \A i \in 1..Len(s) : s[i] # Newline
<1>1. OpChars \subseteq Chars /\ Newline \notin OpChars
  BY DEF OpChars, Chars, Newline, Blank
<1> QED
  BY <1>1, SeqMonotonic, LenProperties, ElementOfSeq

LEMMA OverMark ==
  ASSUME LexerInvariant,
         NEW s \in Operators3 \cup Operators2 \cup Operators1 \cup CommentMarks,
         LooksAt(s)
  PROVE  /\ Len(s) \in Nat /\ ptr + Len(s) <= End
         /\ \A i \in ptr..(ptr + Len(s) - 1) : text[i] # Newline
<1>1. s \in Seq(Chars) /\ Len(s) \in Nat /\ \A i \in 1..Len(s) : s[i] # Newline
  BY Marks, MarkChars
<1>2. ptr \in Nat /\ TypeInvariant
  BY TextFacts DEF LexerInvariant
<1>3. ptr + Len(s) <= End /\ \A i \in ptr..(ptr + Len(s) - 1) : text[i] = s[i - ptr + 1]
  BY <1>1, <1>2, SeenChars
<1>4. \A i \in ptr..(ptr + Len(s) - 1) : i - ptr + 1 \in 1..Len(s)
  BY <1>1, <1>2
<1> QED
  BY <1>1, <1>3, <1>4

LEMMA TokenFacts ==
  /\ {"EOF", "SEMI", "STRING", "IDENT", "INVALID", "NUMBER"} \subseteq Tokens
  /\ \A op : OperatorToken(op) \in Tokens
  /\ \A lexeme : KeywordToken(lexeme) \in Tokens
  /\ {"returned", "scan", "line", "block", "string", "escape", "number", "ident",
      "crashed"} \subseteq Modes
<1>1. {"EOF", "SEMI", "STRING", "IDENT", "INVALID", "NUMBER", "INC", "RPAREN", "OP",
       "RETURN", "VAR"} \subseteq Tokens
  BY DEF Tokens
<1>2. \A op : OperatorToken(op) \in {"INC", "RPAREN", "SEMI", "OP"}
  BY DEF OperatorToken
<1>3. \A lexeme : KeywordToken(lexeme) \in {"RETURN", "VAR", "IDENT"}
  BY DEF KeywordToken
<1> QED
  BY <1>1, <1>2, <1>3 DEF Modes

\* The single characters that Advance(1) steps over are no newlines.
LEMMA NotNewline ==
  ASSUME LexerInvariant, ptr # End, text[ptr] # Newline
  PROVE  /\ ptr + 1 <= End
         /\ \A i \in ptr..(ptr + 1 - 1) : text[i] # Newline
BY TextFacts DEF LexerInvariant

LEMMA NewlineKinds ==
  Newline \notin Digit \cup Letter \cup Garbage \cup {Quote, Backslash, ".", Separator}
BY DEF Newline, Digit, Letter, Garbage, Quote, Backslash, Separator

LEMMA OperatorStep ==
  ASSUME LexerInvariant,
         NEW op \in Operators3 \cup Operators2 \cup Operators1, Operator(op)
  PROVE  LexerInvariant'
<1>1. Same /\ Mark /\ Advance(Len(op)) /\ token' \in Tokens /\ mode' \in Modes /\ LooksAt(op)
  BY TokenFacts DEF Operator, Return
<1>2. /\ Len(op) \in Nat /\ ptr + Len(op) <= End
      /\ \A i \in ptr..(ptr + Len(op) - 1) : text[i] # Newline
  BY <1>1, OverMark
<1> QED
  BY <1>1, <1>2, Advanced

LEMMA CommentStep ==
  ASSUME LexerInvariant, BeginLineComment \/ BeginBlockComment
  PROVE  LexerInvariant'
<1>1. /\ Same /\ Mark /\ Advance(2) /\ token' \in Tokens /\ mode' \in Modes
      /\ LooksAt(<<"/", "/">>) \/ LooksAt(<<"/", "*">>)
  BY TokenFacts
     DEF BeginLineComment, BeginBlockComment, BeginComment, LineCommentStart,
         BlockCommentStart, LexerInvariant, TypeInvariant
<1>2. <<"/", "/">> \in CommentMarks /\ <<"/", "*">> \in CommentMarks
  BY DEF CommentMarks
<1>3. Len(<<"/", "/">>) = 2 /\ Len(<<"/", "*">>) = 2
  OBVIOUS
<1>4. ptr + 2 <= End /\ \A i \in ptr..(ptr + 2 - 1) : text[i] # Newline
  BY <1>1, <1>2, <1>3, OverMark
<1> QED
  BY <1>1, <1>4, Advanced

LEMMA ScanSteps ==
  ASSUME LexerInvariant,
         EndOfFile \/ InsertSemicolon \/ SkipBlank \/ BeginString \/ BeginNumber
           \/ BeginIdent \/ StaleIdent \/ SkipGarbage
  PROVE  LexerInvariant'
<1> USE TokenFacts, NewlineKinds
<1>0. token \in Tokens /\ mode \in Modes
  BY DEF LexerInvariant, TypeInvariant
<1>1. CASE EndOfFile
  BY <1>1, Stayed DEF EndOfFile, Return
<1>2. CASE InsertSemicolon
  BY <1>2, Stepped DEF InsertSemicolon, Scanning, Return
<1>3. CASE SkipBlank
  BY <1>0, <1>3, Stepped DEF SkipBlank, Scanning
<1>4. CASE BeginString \/ BeginNumber \/ BeginIdent
  <2>1. Same /\ Mark /\ Advance(1) /\ token' \in Tokens /\ mode' \in Modes /\ ptr # End
    BY <1>0, <1>4 DEF BeginString, BeginNumber, BeginIdent, Scanning
  <2>2. text[ptr] # Newline
    BY <1>4 DEF BeginString, BeginNumber, BeginIdent
  <2> QED
    BY <2>1, <2>2, NotNewline, Advanced
<1>5. CASE StaleIdent
  <2>1. Same /\ Mark /\ Advance(0) /\ token' \in Tokens /\ mode' \in Modes
    BY <1>5 DEF StaleIdent, Return
  <2>2. ptr + 0 <= End /\ \A i \in ptr..(ptr + 0 - 1) : text[i] # Newline
    BY TextFacts DEF LexerInvariant
  <2> QED
    BY <2>1, <2>2, Advanced
<1>6. CASE SkipGarbage
  <2>1. /\ Same /\ Mark /\ Advance(1) /\ token' \in Tokens /\ mode' \in Modes /\ ptr # End
        /\ text[ptr] # Newline
    BY <1>0, <1>6 DEF SkipGarbage, Scanning
  <2> QED
    BY <2>1, NotNewline, Advanced
<1> QED
  BY <1>1, <1>2, <1>3, <1>4, <1>5, <1>6

LEMMA InnerSteps ==
  ASSUME LexerInvariant,
         LineComment \/ BlockComment \/ StringBody \/ StringEscape \/ EscapedChar
           \/ Unterminated \/ NumberBody \/ NumberEnd \/ IdentBody \/ IdentEnd
           \/ ReadPastEnd
  PROVE  LexerInvariant'
<1> USE TokenFacts, NewlineKinds
<1>0. token \in Tokens /\ mode \in Modes
  BY DEF LexerInvariant, TypeInvariant
<1>1. CASE LineComment
  <2>1. CASE ptr = End
    BY <1>0, <1>1, <2>1, Stayed DEF LineComment
  <2>2. CASE ptr # End
    BY <1>0, <1>1, <2>2, Stepped DEF LineComment
  <2> QED
    BY <2>1, <2>2
<1>2. CASE BlockComment
  <2>1. CASE ptr = End
    BY <1>0, <1>2, <2>1, Stayed DEF BlockComment
  <2>2. CASE ptr # End /\ LooksAt(<<"*", "/">>)
    <3>1. Same /\ UNCHANGED <<base, col>> /\ Advance(2) /\ token' \in Tokens /\ mode' \in Modes
      BY <1>0, <1>2, <2>2 DEF BlockComment
    <3>2. <<"*", "/">> \in CommentMarks /\ Len(<<"*", "/">>) = 2
      BY DEF CommentMarks
    <3>3. ptr + 2 <= End /\ \A i \in ptr..(ptr + 2 - 1) : text[i] # Newline
      BY <2>2, <3>2, OverMark
    <3> QED
      BY <3>1, <3>3, Advanced
  <2>3. CASE ptr # End /\ ~LooksAt(<<"*", "/">>)
    BY <1>0, <1>2, <2>3, Stepped DEF BlockComment
  <2> QED
    BY <2>1, <2>2, <2>3
<1>3. CASE StringBody
  BY <1>0, <1>3, Stepped DEF StringBody
<1>4. CASE EscapedChar
  BY <1>0, <1>4, Stepped DEF EscapedChar
<1>5. CASE StringEscape \/ NumberBody \/ IdentBody
  <2>1. /\ Same /\ UNCHANGED <<base, col>> /\ Advance(1) /\ token' \in Tokens
        /\ mode' \in Modes /\ ptr # End
    BY <1>0, <1>5 DEF StringEscape, NumberBody, IdentBody, InNumber, InIdent
  <2>2. text[ptr] # Newline
    BY <1>5 DEF StringEscape, NumberBody, IdentBody, InNumber, InIdent, is_number,
                is_ident
  <2> QED
    BY <2>1, <2>2, NotNewline, Advanced
<1>6. CASE Unterminated
  BY <1>6, Stayed DEF Unterminated, Return
<1>7. CASE NumberEnd
  BY <1>7, Stayed DEF NumberEnd, Return
<1>8. CASE IdentEnd
  BY <1>8, Stayed DEF IdentEnd, Return
<1>9. CASE ReadPastEnd
  BY <1>0, <1>9, Stayed DEF ReadPastEnd
<1> QED
  BY <1>1, <1>2, <1>3, <1>4, <1>5, <1>6, <1>7, <1>8, <1>9

LEMMA CallStep == ASSUME LexerInvariant, lexer_next PROVE LexerInvariant'
<1>1. UNCHANGED <<text, ptr, base, token, line, col, line_base>> /\ from' = ptr /\ before' = token
      /\ mode' \in Modes
  BY TokenFacts DEF lexer_next
<1>2. End' = End /\ from' \in 1..ptr'
  BY <1>1, TextFacts DEF End, LexerInvariant
<1> QED
  BY <1>1, <1>2 DEF LexerInvariant, TypeInvariant, LineStart, Newlines

\* The assert at the head of lexer_next, self->ptr <= self->end, never fails, and
\* line_base is the start of the line of ptr, for every file and every call.
THEOREM LexerKeepsItsPlace == Spec => [](TypeInvariant /\ LineStart)
<1>1. Init => LexerInvariant
  <2>1. ASSUME Init PROVE LexerInvariant
    <3>1. text \in Seq(Chars) /\ Len(text) \in Nat /\ Len(text) > 0
      BY <2>1, ConstantsAssumption, LenProperties DEF Init
    <3>2. 1..(1 - 1) = {}
      OBVIOUS
    <3> QED
      BY <2>1, <3>1, <3>2
         DEF Init, LexerInvariant, TypeInvariant, LineStart, Newlines, End, Tokens, Modes
  <2> QED
    BY <2>1
<1>2. LexerInvariant /\ [Next]_vars => LexerInvariant'
  <2>1. ASSUME LexerInvariant, Next PROVE LexerInvariant'
    <3>1. ASSUME Operator3 \/ Operator2 \/ Operator1 PROVE LexerInvariant'
      BY <2>1, <3>1, OperatorStep DEF Operator3, Operator2, Operator1
    <3> QED
      BY <2>1, <3>1, CallStep, CommentStep, ScanSteps, InnerSteps DEF Next
  <2>2. ASSUME LexerInvariant, UNCHANGED vars PROVE LexerInvariant'
    BY <2>2 DEF vars, LexerInvariant, TypeInvariant, LineStart, Newlines, End
  <2> QED
    BY <2>1, <2>2
<1> QED
  BY <1>1, <1>2, PTL DEF Spec, LexerInvariant

\* The fields of lexer_t keep their ranges: the token, its borders and the line all
\* lie within the file (lexer.h:23-30).
THEOREM LexerIsTyped == Spec => []TypeInvariant
BY LexerKeepsItsPlace, PTL

-----------------------------------------------------------------------------
(***************************************************************************)
(* Where tokens are.                                                       *)
(***************************************************************************)
\* The lexer has marked the start of a token and has not begun to look for the
\* next one.
InToken ==
  mode \in {"string", "escape", "number", "ident"} \/ (Returned /\ token # "EOF")

\* The inductive strengthening of TokenLocation: the lines are counted wherever
\* the lexer stands, and the column is right as long as the token has not run
\* across a newline.
LineCounted == line = Cardinality(Newlines(1, ptr - 1))
ColumnKnown == InToken /\ Newlines(base, ptr - 1) = {} => col = base - line_base
PlaceInvariant == LineCounted /\ ColumnKnown


LEMMA NewlinesFinite ==
  ASSUME NEW a \in Int, NEW b \in Int
  PROVE  IsFiniteSet(Newlines(a, b)) /\ Cardinality(Newlines(a, b)) \in Nat
<1>1. IsFiniteSet(a..b)
  BY FS_Interval
<1>2. Newlines(a, b) \subseteq a..b
  BY DEF Newlines
<1> QED
  BY <1>1, <1>2, FS_Subset, FS_CardinalityType

\* lexer_step counts the newline it steps over.
LEMMA StepCounts ==
  ASSUME LexerInvariant, LineCounted, ptr # End, lexer_step, UNCHANGED text
  PROVE  LineCounted'
<1>1. ptr \in Nat /\ ptr >= 1
  BY TextFacts DEF LexerInvariant
<1>2. ptr' = ptr + 1
  BY DEF lexer_step
<1> DEFINE old == Newlines(1, ptr - 1)
           new == {i \in 1..((ptr + 1) - 1) : text[i] = Newline}
<1>3. IsFiniteSet(old) /\ Cardinality(old) \in Nat /\ ptr \notin old
  <2>0. 1 \in Int /\ ptr - 1 \in Int
    BY <1>1
  <2>1. IsFiniteSet(old) /\ Cardinality(old) \in Nat
    BY <2>0, NewlinesFinite
  <2>2. ptr \notin old
    BY <1>1 DEF Newlines
  <2> QED
    BY <2>1, <2>2
<1>4. Newlines(1, ptr - 1)' = new
  BY <1>2 DEF Newlines
<1>5. CASE text[ptr] = Newline
  <2>1. new = old \cup {ptr}
    BY <1>1, <1>5 DEF Newlines
  <2>2. Cardinality(new) = Cardinality(old) + 1
    BY <1>3, <2>1, FS_AddElement
  <2> QED
    BY <1>4, <1>5, <2>2 DEF lexer_step, LineCounted
<1>6. CASE text[ptr] # Newline
  <2>1. new = old
    BY <1>1, <1>6 DEF Newlines
  <2> QED
    BY <1>4, <1>6, <2>1 DEF lexer_step, LineCounted
<1> QED
  BY <1>5, <1>6

LEMMA AdvanceCounts ==
  ASSUME LexerInvariant, LineCounted, NEW n \in Nat, Advance(n), UNCHANGED text,
         \A i \in ptr..(ptr + n - 1) : text[i] # Newline
  PROVE  LineCounted'
<1>1. ptr \in Nat /\ ptr >= 1
  BY TextFacts DEF LexerInvariant
<1>2. ptr' = ptr + n /\ line' = line
  BY DEF Advance
<1>3. ASSUME NEW i \in 1..(ptr + n - 1), text[i] = Newline PROVE i \in 1..(ptr - 1)
  BY <1>1, <1>3
<1>4. Newlines(1, ptr - 1)' = Newlines(1, ptr - 1)
  BY <1>1, <1>2, <1>3 DEF Newlines
<1> QED
  BY <1>2, <1>4 DEF LineCounted

\* The column stays right while the lexer reads on in a token.
LEMMA ColumnKept ==
  ASSUME LexerInvariant, ColumnKnown, InToken, base' = base, UNCHANGED text,
         NEW n \in Nat, ptr' = ptr + n,
         UNCHANGED <<col, line_base>> \/ (text[ptr] = Newline /\ n > 0)
  PROVE  ColumnKnown'
<1>1. ptr \in Nat /\ base \in Nat /\ base <= ptr
  BY TextFacts DEF LexerInvariant
<1> SUFFICES ASSUME Newlines(base, ptr - 1)' = {}
             PROVE  col' = base - line_base'
  BY DEF ColumnKnown
<1>2. \A i \in base..(ptr + n - 1) : text[i] # Newline
  <2>1. Newlines(base, ptr - 1)' = {i \in base..(ptr + n - 1) : text[i] = Newline}
    BY <1>1 DEF Newlines
  <2> QED
    BY <2>1
<1>3. UNCHANGED <<col, line_base>>
  <2>1. n > 0 => ptr \in base..(ptr + n - 1)
    BY <1>1
  <2> QED
    BY <1>2, <2>1
<1>4. ASSUME NEW i \in base..(ptr - 1) PROVE text[i] # Newline
  <2>1. i \in base..(ptr + n - 1)
    BY <1>1
  <2> QED
    BY <1>2, <2>1
<1>5. col = base - line_base
  BY <1>4 DEF ColumnKnown, Newlines
<1> QED
  BY <1>3, <1>5

LEMMA ColumnMarked == ASSUME Mark, line_base' = line_base PROVE ColumnKnown'
BY DEF ColumnKnown, Mark

LEMMA OutOfToken ==
  ASSUME \/ mode' \in {"scan", "line", "block", "crashed"}
         \/ mode' = "returned" /\ token' = "EOF"
  PROVE  ColumnKnown'
BY DEF ColumnKnown, InToken, Returned

\* A comment mark is two characters and holds no newline.
LEMMA OverTwo ==
  ASSUME LexerInvariant,
         LooksAt(<<"/", "/">>) \/ LooksAt(<<"/", "*">>) \/ LooksAt(<<"*", "/">>)
  PROVE  ptr + 2 <= End /\ \A i \in ptr..(ptr + 2 - 1) : text[i] # Newline
<1>1. <<"/", "/">> \in CommentMarks /\ <<"/", "*">> \in CommentMarks
      /\ <<"*", "/">> \in CommentMarks
  BY DEF CommentMarks
<1>2. Len(<<"/", "/">>) = 2 /\ Len(<<"/", "*">>) = 2 /\ Len(<<"*", "/">>) = 2
  OBVIOUS
<1> QED
  BY <1>1, <1>2, OverMark

\* The three ways in which actions move, as in LexerProofs.
LEMMA PlaceStepped ==
  ASSUME LexerInvariant, PlaceInvariant, Same, ptr # End, lexer_step,
         \/ mode' \in {"scan", "line", "block"}
         \/ InToken /\ base' = base
         \/ text[ptr] = Newline /\ base' = ptr
  PROVE  PlaceInvariant'
<1>1. ptr \in Nat /\ UNCHANGED text
  BY TextFacts DEF LexerInvariant, Same
<1>2. LineCounted'
  BY <1>1, StepCounts DEF PlaceInvariant
<1>3. ptr' = ptr + 1 /\ (UNCHANGED <<col, line_base>> \/ text[ptr] = Newline)
  BY DEF lexer_step
<1>4. CASE mode' \in {"scan", "line", "block"}
  BY <1>2, <1>4, OutOfToken DEF PlaceInvariant
<1>5. CASE InToken /\ base' = base
  BY <1>1, <1>2, <1>3, <1>5, ColumnKept DEF PlaceInvariant
<1>6. CASE text[ptr] = Newline /\ base' = ptr
  <2>1. ptr \in base'..(ptr' - 1) /\ text'[ptr] = Newline
    BY <1>1, <1>3, <1>6
  <2> QED
    BY <1>2, <2>1 DEF PlaceInvariant, ColumnKnown, Newlines
<1> QED
  BY <1>4, <1>5, <1>6

LEMMA PlaceAdvanced ==
  ASSUME LexerInvariant, PlaceInvariant, Same, NEW n \in Nat, Advance(n),
         \A i \in ptr..(ptr + n - 1) : text[i] # Newline,
         \/ Mark
         \/ UNCHANGED <<base, col>> /\ (InToken \/ mode' = "scan")
  PROVE  PlaceInvariant'
<1>1. ptr \in Nat /\ UNCHANGED text
  BY TextFacts DEF LexerInvariant, Same
<1>2. LineCounted'
  BY <1>1, AdvanceCounts DEF PlaceInvariant
<1>3. ptr' = ptr + n /\ line_base' = line_base
  BY DEF Advance
<1>4. ColumnKnown'
  BY <1>1, <1>3, ColumnMarked, ColumnKept, OutOfToken DEF PlaceInvariant
<1> QED
  BY <1>2, <1>4 DEF PlaceInvariant

LEMMA PlaceStayed ==
  ASSUME LexerInvariant, PlaceInvariant, UNCHANGED <<text, ptr, base, line, col, line_base>>,
         \/ InToken
         \/ mode' \in {"scan", "crashed"}
         \/ mode' = "returned" /\ token' = "EOF"
  PROVE  PlaceInvariant'
<1>1. LineCounted'
  BY DEF PlaceInvariant, LineCounted, Newlines
<1>2. ptr' = ptr + 0
  BY TextFacts DEF LexerInvariant
<1>3. ColumnKnown'
  BY <1>2, ColumnKept, OutOfToken DEF PlaceInvariant
<1> QED
  BY <1>1, <1>3 DEF PlaceInvariant

LEMMA PlaceStep == ASSUME LexerInvariant, PlaceInvariant, Next PROVE PlaceInvariant'
<1> USE NewlineKinds
<1>1. CASE lexer_next
  BY <1>1, PlaceStayed DEF lexer_next
<1>2. CASE EndOfFile
  BY <1>2, PlaceStayed DEF EndOfFile, Return, Same
<1>3. CASE InsertSemicolon
  BY <1>3, PlaceStepped DEF InsertSemicolon, Scanning
<1>4. CASE SkipBlank
  BY <1>4, PlaceStepped DEF SkipBlank, Scanning
<1>5. CASE Operator3 \/ Operator2 \/ Operator1
  <2>1. PICK op \in Operators3 \cup Operators2 \cup Operators1 : Operator(op)
    BY <1>5 DEF Operator3, Operator2, Operator1
  <2>2. Same /\ Mark /\ Advance(Len(op)) /\ LooksAt(op)
    BY <2>1 DEF Operator
  <2>3. Len(op) \in Nat /\ \A i \in ptr..(ptr + Len(op) - 1) : text[i] # Newline
    BY <2>2, OverMark
  <2> QED
    BY <2>2, <2>3, PlaceAdvanced
<1>6. CASE BeginLineComment \/ BeginBlockComment
  <2>1. Same /\ Mark /\ Advance(2) /\ (LooksAt(<<"/", "/">>) \/ LooksAt(<<"/", "*">>))
    BY <1>6 DEF BeginLineComment, BeginBlockComment, BeginComment, LineCommentStart,
                BlockCommentStart
  <2>2. \A i \in ptr..(ptr + 2 - 1) : text[i] # Newline
    BY <2>1, OverTwo
  <2> QED
    BY <2>1, <2>2, PlaceAdvanced
<1>7. CASE BeginString \/ BeginNumber \/ BeginIdent \/ SkipGarbage
  <2>1. Same /\ Mark /\ Advance(1) /\ ptr # End /\ text[ptr] # Newline
    BY <1>7 DEF BeginString, BeginNumber, BeginIdent, SkipGarbage, Scanning
  <2> QED
    BY <2>1, NotNewline, PlaceAdvanced
<1>8. CASE StaleIdent
  <2>1. Same /\ Mark /\ Advance(0)
    BY <1>8 DEF StaleIdent
  <2>2. \A i \in ptr..(ptr + 0 - 1) : text[i] # Newline
    BY TextFacts DEF LexerInvariant
  <2> QED
    BY <2>1, <2>2, PlaceAdvanced
<1>9. CASE LineComment
  <2>1. CASE ptr = End
    BY <1>9, <2>1, PlaceStayed DEF LineComment, Same
  <2>2. CASE ptr # End
    BY <1>9, <2>2, PlaceStepped DEF LineComment
  <2> QED
    BY <2>1, <2>2
<1>10. CASE BlockComment
  <2>1. CASE ptr = End
    BY <1>10, <2>1, PlaceStayed DEF BlockComment, Same
  <2>2. CASE ptr # End /\ LooksAt(<<"*", "/">>)
    <3>1. Same /\ Advance(2) /\ UNCHANGED <<base, col>> /\ mode' = "scan"
      BY <1>10, <2>2 DEF BlockComment
    <3>2. \A i \in ptr..(ptr + 2 - 1) : text[i] # Newline
      BY <2>2, OverTwo
    <3> QED
      BY <3>1, <3>2, PlaceAdvanced
  <2>3. CASE ptr # End /\ ~LooksAt(<<"*", "/">>)
    BY <1>10, <2>3, PlaceStepped DEF BlockComment
  <2> QED
    BY <2>1, <2>2, <2>3
<1>11. CASE StringBody \/ EscapedChar
  <2>1. InToken /\ base' = base /\ ptr # End /\ lexer_step /\ Same
    BY <1>11 DEF StringBody, EscapedChar, InToken
  <2> QED
    BY <2>1, PlaceStepped
<1>12. CASE StringEscape \/ NumberBody \/ IdentBody
  <2>1. Same /\ InToken /\ UNCHANGED <<base, col>> /\ Advance(1) /\ ptr # End
    BY <1>12 DEF StringEscape, NumberBody, IdentBody, InNumber, InIdent, InToken
  <2>2. text[ptr] # Newline
    BY <1>12 DEF StringEscape, NumberBody, IdentBody, InNumber, InIdent, is_number,
                 is_ident
  <2> QED
    BY <2>1, <2>2, NotNewline, PlaceAdvanced
<1>13. CASE Unterminated \/ NumberEnd \/ IdentEnd \/ ReadPastEnd
  <2>1. InToken /\ UNCHANGED <<text, ptr, base, line, col, line_base>>
    BY <1>13 DEF Unterminated, NumberEnd, IdentEnd, ReadPastEnd, InToken, Same
  <2> QED
    BY <2>1, PlaceStayed
<1> QED
  BY <1>1, <1>2, <1>3, <1>4, <1>5, <1>6, <1>7, <1>8, <1>9, <1>10, <1>11, <1>12, <1>13
     DEF Next

\* For every file, the line and the column of a token that does not run across a
\* newline are those of its first character (lexer.c, lexer_step and the head of
\* the loop of lexer_next).
THEOREM TokensAreWhereTheySay == Spec => []TokenLocation
<1>1. Init => PlaceInvariant
  <2>1. ASSUME Init PROVE PlaceInvariant
    <3>1. Newlines(1, ptr - 1) = {}
      BY <2>1 DEF Init, Newlines
    <3>2. ~InToken
      BY <2>1 DEF Init, InToken, Returned
    <3> QED
      BY <2>1, <3>1, <3>2, FS_EmptySet DEF Init, PlaceInvariant, LineCounted, ColumnKnown
  <2> QED
    BY <2>1
<1>2. LexerInvariant /\ PlaceInvariant /\ [Next]_vars => PlaceInvariant'
  <2>1. ASSUME PlaceInvariant, UNCHANGED vars PROVE PlaceInvariant'
    BY <2>1 DEF vars, PlaceInvariant, LineCounted, ColumnKnown, InToken, Returned, Newlines
  <2> QED
    BY <2>1, PlaceStep
<1>3. LexerInvariant /\ PlaceInvariant => TokenLocation
  <2> SUFFICES ASSUME LexerInvariant, PlaceInvariant, Returned, token # "EOF",
                      Newlines(base, ptr - 1) = {}
               PROVE  line = Cardinality(Newlines(1, base - 1)) /\ col = base - line_base
    BY DEF TokenLocation
  <2>1. ptr \in Nat /\ base \in Nat /\ 1 <= base /\ base <= ptr
    BY TextFacts DEF LexerInvariant
  <2>2. ASSUME NEW i \in 1..(ptr - 1), text[i] = Newline PROVE i \in 1..(base - 1)
    <3>1. i \notin base..(ptr - 1)
      BY <2>2 DEF Newlines
    <3> QED
      BY <2>1, <3>1
  <2>3. Newlines(1, ptr - 1) = Newlines(1, base - 1)
    BY <2>1, <2>2 DEF Newlines
  <2> QED
    BY <2>3 DEF PlaceInvariant, LineCounted, ColumnKnown, InToken
<1>4. Spec => []LexerInvariant
  BY LexerKeepsItsPlace, PTL DEF LexerInvariant
<1> QED
  BY <1>1, <1>2, <1>3, <1>4, PTL DEF Spec

-----------------------------------------------------------------------------
(***************************************************************************)
(* What lies between tokens.                                               *)
(***************************************************************************)
\* The boundary between pieces that the lexer has come to: the position it is at, or
\* the start of the comment or token it is in.
Reached ==
  IF mode = "scan" \/ (mode = "returned" /\ token = "EOF") THEN ptr ELSE base

\* lexer_next has been called.
Called == mode # "returned" \/ token # "SOF"

\* What the lexer knows of its token.
TokenKept ==
  /\ mode \in {"scan", "line", "block"} => token = before
  /\ mode \in {"string", "escape"} => token = "STRING"

\* The text up to here is made of whole pieces, none of which reaches further, and
\* no newline that ends a statement is among them.
PiecesReached ==
  /\ Reached \in Gap
  /\ \A n \in Gap : n < Reached =>
       /\ \A b \in from..End : Piece(n, b) => b <= Reached
       /\ before \in Terminators => text[n] # Newline

\* The lexer is in a comment that begins at base and has not ended yet.
InLineComment ==
  /\ text[base + 1] = "/"
  /\ Newlines(base, ptr - 1) = {}
InBlockComment ==
  /\ text[base + 1] = "*"
  /\ \A e \in (base + 2)..(ptr - 1) :
       ~(e + 1 < End /\ text[e] = "*" /\ text[e + 1] = "/")

InsideComment ==
  mode \in {"line", "block"} =>
    /\ from <= base /\ base + 2 <= ptr /\ text[base] = "/"
    /\ mode = "line" => InLineComment
    /\ mode = "block" => InBlockComment

\* What a token may start with.
TokenStart ==
  /\ mode # "scan" /\ Reached < End /\ text[Reached] = Newline =>
       mode = "returned" /\ token = "SEMI" /\ before \in Terminators
  /\ mode = "returned" /\ token = "SEMI" => base < End /\ text[base] \in {Newline, ";"}

\* The inductive strengthening of NothingLost and SemicolonRule.
GapInvariant ==
  TokenKept /\ InsideComment /\ (Called => PiecesReached /\ TokenStart)

\* Nothing of this changes while lexer_next runs.
LEMMA GapFrame ==
  ASSUME Same
  PROVE  /\ text' = text /\ from' = from /\ before' = before /\ End' = End
         /\ Gap' = Gap /\ \A a, b : Piece(a, b)' <=> Piece(a, b)
<1>1. text' = text /\ from' = from /\ before' = before /\ End' = End
  BY DEF Same, End
<1>2. \A a, b : Piece(a, b)' <=> Piece(a, b)
  BY <1>1 DEF Piece, OneLine, MultiLine, Newlines
<1>3. \A S : Closed(S)' <=> Closed(S)
  BY <1>1, <1>2 DEF Closed
<1> QED
  BY <1>1, <1>2, <1>3 DEF Gap

\* A piece is not empty, and only one begins at a position.
LEMMA PieceGrows ==
  ASSUME NEW a \in Int, NEW b \in Int, Piece(a, b)
  PROVE  a < b
BY DEF Piece, OneLine, MultiLine

LEMMA PieceUnique ==
  ASSUME End \in Int, NEW a \in Int, NEW b \in Int, NEW c \in Int,
         Piece(a, b), Piece(a, c), b <= End, c <= End, b < c
  PROVE  FALSE
<1>1. "/" \notin Blank \cup Garbage \cup {Backslash} /\ "/" # "*" /\ "/" # Newline
  BY DEF Blank, Garbage, Backslash, Separator, Newline
<1>2. CASE b = a + 1 /\ text[a] \in Blank \cup Garbage \cup {Backslash}
  BY <1>1, <1>2 DEF Piece, OneLine, MultiLine
<1>3. CASE OneLine(a, b)
  <2>1. /\ a + 2 <= b /\ text[a] = "/" /\ text[a + 1] = "/" /\ text[b - 1] = Newline
    BY <1>3 DEF OneLine
  <2>2. Newlines(a + 2, c - 2) = {}
    BY <1>1, <2>1 DEF Piece, OneLine, MultiLine
  <2>3. b - 1 # a + 1
    BY <1>1, <2>1
  <2>4. b - 1 \in (a + 2)..(c - 2)
    BY <2>1, <2>3
  <2> QED
    BY <2>1, <2>2, <2>4 DEF Newlines
<1>4. CASE MultiLine(a, b)
  <2>1. /\ a + 4 <= b /\ text[a] = "/" /\ text[a + 1] = "*"
        /\ text[b - 2] = "*" /\ text[b - 1] = "/"
    BY <1>4 DEF MultiLine
  <2>2. ~\E e \in (a + 2)..(c - 3) : text[e] = "*" /\ text[e + 1] = "/"
    BY <1>1, <2>1 DEF Piece, OneLine, MultiLine
  <2>3. b - 2 \in (a + 2)..(c - 3) /\ b - 2 + 1 = b - 1
    BY <2>1
  <2> QED
    BY <2>1, <2>2, <2>3
<1> QED
  BY <1>2, <1>3, <1>4 DEF Piece

\* The boundaries are the smallest set that is closed under pieces.
LEMMA GapFacts ==
  /\ Gap \subseteq from..End
  /\ from \in from..End => from \in Gap
  /\ \A a \in Gap : \A b \in from..End : Piece(a, b) => b \in Gap
  /\ \A S \in SUBSET (from..End) : Closed(S) => Gap \subseteq S
<1>1. \A p : p \in Gap <=> p \in from..End
                             /\ \A S \in SUBSET (from..End) : Closed(S) => p \in S
  BY DEF Gap
<1>2. \A S : Closed(S) => from \in S /\ \A a \in S : \A b \in from..End :
                                          Piece(a, b) => b \in S
  BY DEF Closed
<1> HIDE DEF Gap
<1>3. ASSUME NEW a \in Gap, NEW b \in from..End, Piece(a, b) PROVE b \in Gap
  BY <1>1, <1>2, <1>3
<1> QED
  BY <1>1, <1>2, <1>3

\* The lexer stays at its boundary.
LEMMA PiecesStay ==
  ASSUME PiecesReached, Same, Reached' = Reached
  PROVE  PiecesReached'
BY GapFrame DEF PiecesReached

\* The lexer goes over one piece.
LEMMA PiecesGo ==
  ASSUME LexerInvariant, PiecesReached, Same, NEW q \in Int, q <= End, Reached' = q,
         Piece(Reached, q), text[Reached] # Newline \/ before \notin Terminators
  PROVE  PiecesReached'
<1> DEFINE r == Reached
           S == {n \in Gap : n <= r \/ n >= q}
<1>1. /\ from \in Int /\ End \in Int /\ r \in Gap /\ r \in Int /\ from <= r
      /\ r < q /\ q \in from..End
  BY TextFacts, GapFacts, PieceGrows DEF LexerInvariant, PiecesReached
<1>2. q \in Gap
  BY <1>1, GapFacts
<1>3. \A n \in Gap : n < r => \A b \in from..End : Piece(n, b) => b <= r
  BY DEF PiecesReached
<1>4. Piece(r, q)
  OBVIOUS
<1>5. Gap \subseteq S
  <2>1. S \in SUBSET (from..End) /\ from \in S
    <3>1. from \in from..End
      BY <1>1, GapFacts
    <3>2. Gap \subseteq from..End /\ from \in Gap
      BY <3>1, GapFacts
    <3> QED
      BY <1>1, <3>2
  <2>2. ASSUME NEW a \in S, NEW b \in from..End, Piece(a, b) PROVE b \in S
    <3>1. a \in Gap /\ a \in Int /\ b \in Gap /\ b \in Int /\ a < b
      BY <1>1, <2>2, GapFacts, PieceGrows
    <3>2. CASE a < r
      BY <1>3, <2>2, <3>1, <3>2
    <3>3. CASE a = r
      <4>1. b = q
        BY <1>1, <1>4, <2>2, <3>1, <3>3, PieceUnique
      <4> QED
        BY <3>1, <4>1
    <3>4. CASE a >= q
      BY <1>1, <3>1, <3>4
    <3> QED
      BY <1>1, <3>1, <3>2, <3>3, <3>4
  <2> QED
    BY <2>1, <2>2, GapFacts DEF Closed
<1>6. ASSUME NEW n \in Gap, n < q
      PROVE  /\ \A b \in from..End : Piece(n, b) => b <= q
             /\ before \in Terminators => text[n] # Newline
  <2>1. n \in Int /\ n <= r
    BY <1>1, <1>5, <1>6, GapFacts
  <2>2. CASE n < r
    <3>1. before \in Terminators => text[n] # Newline
      BY <2>2 DEF PiecesReached
    <3>2. ASSUME NEW b \in from..End, Piece(n, b) PROVE b <= q
      BY <1>1, <1>3, <2>2, <3>2
    <3> QED
      BY <3>1, <3>2
  <2>3. CASE n = r
    <3>1. ASSUME NEW b \in from..End, Piece(n, b) PROVE b <= q
      BY <1>1, <1>4, <2>3, <3>1, PieceUnique
    <3> QED
      BY <2>3, <3>1
  <2> QED
    BY <1>1, <2>1, <2>2, <2>3
<1> HIDE DEF r, S
<1> QED
  BY <1>2, <1>6, GapFrame DEF PiecesReached

\* A token has been found at ptr.
LEMMA GapFound ==
  ASSUME LexerInvariant, GapInvariant, Same, mode = "scan", text[ptr] # Newline,
         base' = ptr,
         \/ mode' = "string" /\ token' = "STRING"
         \/ mode' \in {"number", "ident"}
         \/ mode' = "returned" /\ token' \notin {"EOF", "SEMI"}
         \/ mode' = "returned" /\ token' = "SEMI" /\ ptr < End /\ text[ptr] = ";"
  PROVE  GapInvariant'
<1>1. TokenKept' /\ InsideComment'
  BY DEF TokenKept, InsideComment
<1>2. Reached = ptr /\ Reached' = ptr
  BY DEF Reached
<1>3. PiecesReached'
  BY <1>2, PiecesStay DEF GapInvariant, Called
<1>4. TokenStart'
  BY <1>2, GapFrame DEF TokenStart
<1> QED
  BY <1>1, <1>3, <1>4 DEF GapInvariant

\* The lexer reads on in a token, or comes to its end.
LEMMA GapInToken ==
  ASSUME LexerInvariant, GapInvariant, Same, base' = base,
         mode \in {"string", "escape", "number", "ident"},
         \/ mode' \in {"string", "escape"} /\ token' = "STRING"
         \/ mode' \in {"number", "ident", "crashed"}
         \/ mode' = "returned" /\ token' \notin {"EOF", "SEMI"}
  PROVE  GapInvariant'
<1>1. TokenKept' /\ InsideComment'
  BY DEF TokenKept, InsideComment
<1>2. Reached = base /\ Reached' = base
  BY DEF Reached
<1>3. PiecesReached' /\ TokenStart
  BY <1>2, PiecesStay DEF GapInvariant, Called
<1>4. TokenStart'
  BY <1>2, <1>3, GapFrame DEF TokenStart
<1> QED
  BY <1>1, <1>3, <1>4 DEF GapInvariant

\* The lexer has skipped one character.
LEMMA GapSkip ==
  ASSUME LexerInvariant, GapInvariant, Same, mode = "scan", mode' = "scan",
         token' = token, ptr' = ptr + 1, ptr # End,
         text[ptr] \in Blank \cup Garbage \cup {Backslash},
         ~(text[ptr] = Newline /\ token \in Terminators)
  PROVE  GapInvariant'
<1>1. token = before
  BY DEF GapInvariant, TokenKept
<1>2. ptr \in Nat /\ End \in Nat /\ ptr <= End
  BY TextFacts DEF LexerInvariant
<1>3. TokenKept' /\ InsideComment' /\ TokenStart'
  BY <1>1, GapFrame DEF TokenKept, InsideComment, TokenStart
<1>4. PiecesReached'
  <2>1. Reached = ptr /\ Reached' = ptr + 1 /\ Piece(ptr, ptr + 1) /\ PiecesReached
    BY DEF Reached, Piece, GapInvariant, Called
  <2> QED
    BY <1>1, <1>2, <2>1, PiecesGo
<1> QED
  BY <1>3, <1>4 DEF GapInvariant

LEMMA GapSemicolon ==
  ASSUME LexerInvariant, GapInvariant, InsertSemicolon
  PROVE  GapInvariant'
<1>1. /\ mode = "scan" /\ text[ptr] = Newline /\ token \in Terminators /\ base' = ptr
      /\ token' = "SEMI" /\ mode' = "returned" /\ Same /\ ptr # End
  BY DEF InsertSemicolon, Scanning, Return
<1>2. before \in Terminators
  BY <1>1 DEF GapInvariant, TokenKept
<1>3. ptr < End
  BY <1>1, TextFacts DEF LexerInvariant
<1>4. TokenKept' /\ InsideComment'
  BY <1>1 DEF TokenKept, InsideComment
<1>5. Reached = ptr /\ Reached' = ptr
  BY <1>1 DEF Reached
<1>6. PiecesReached'
  BY <1>1, <1>5, PiecesStay DEF GapInvariant, Called
<1>7. TokenStart'
  BY <1>1, <1>2, <1>3, GapFrame DEF TokenStart
<1> QED
  BY <1>4, <1>6, <1>7 DEF GapInvariant

LEMMA GapEndOfFile ==
  ASSUME LexerInvariant, GapInvariant, EndOfFile
  PROVE  GapInvariant'
<1>1. /\ mode = "scan" /\ ptr = End /\ ptr' = ptr /\ Same
      /\ token' = "EOF" /\ mode' = "returned"
  BY DEF EndOfFile, Return
<1>2. TokenKept' /\ InsideComment'
  BY <1>1 DEF TokenKept, InsideComment
<1>3. Reached = ptr /\ Reached' = ptr /\ ptr \in Nat
  BY <1>1, TextFacts DEF Reached, LexerInvariant
<1>4. PiecesReached'
  BY <1>1, <1>3, PiecesStay DEF GapInvariant, Called
<1>5. TokenStart'
  BY <1>1, <1>3, GapFrame DEF TokenStart
<1> QED
  BY <1>2, <1>4, <1>5 DEF GapInvariant

LEMMA GapNext ==
  ASSUME LexerInvariant, GapInvariant, lexer_next
  PROVE  GapInvariant'
<1>1. /\ mode' = "scan" /\ from' = ptr /\ before' = token /\ ptr' = ptr /\ token' = token
      /\ text' = text
  BY DEF lexer_next
<1>2. ptr \in Nat /\ End \in Nat /\ ptr <= End /\ End' = End
  BY <1>1, TextFacts DEF LexerInvariant, End
<1>3. TokenKept' /\ InsideComment' /\ TokenStart'
  BY <1>1 DEF TokenKept, InsideComment, TokenStart
<1>4. Reached' = from' /\ from' \in from'..End'
  BY <1>1, <1>2 DEF Reached
<1>5. PiecesReached'
  <2>0. (Gap \subseteq from..End)' /\ (from \in from..End => from \in Gap)'
    BY GapFacts, PTL
  <2>1. from' \in Gap' /\ Gap' \subseteq from'..End'
    BY <1>4, <2>0
  <2>2. \A n \in Gap' : ~(n < from')
    BY <1>1, <1>2, <2>1
  <2> QED
    BY <1>4, <2>1, <2>2 DEF PiecesReached
<1> QED
  BY <1>3, <1>5 DEF GapInvariant

\* What the lexer sees at the start and at the end of a comment.
LEMMA SeesMark ==
  ASSUME LexerInvariant, NEW a \in Chars, NEW b \in Chars, LooksAt(<<a, b>>)
  PROVE  ptr + 2 <= End /\ text[ptr] = a /\ text[ptr + 1] = b
<1>1. <<a, b>> \in Seq(Chars) /\ Len(<<a, b>>) = 2 /\ <<a, b>>[1] = a /\ <<a, b>>[2] = b
  OBVIOUS
<1>2. TypeInvariant /\ ptr \in Nat
  BY TextFacts DEF LexerInvariant
<1>3. ptr + 2 <= End /\ \A i \in ptr..(ptr + 2 - 1) : text[i] = <<a, b>>[i - ptr + 1]
  BY <1>1, <1>2, SeenChars
<1>4. ptr \in ptr..(ptr + 2 - 1) /\ ptr + 1 \in ptr..(ptr + 2 - 1)
      /\ ptr - ptr + 1 = 1 /\ (ptr + 1) - ptr + 1 = 2
  BY <1>2
<1> QED
  BY <1>1, <1>3, <1>4

LEMMA SeesOperator ==
  ASSUME LexerInvariant, NEW op \in Operators3 \cup Operators2 \cup Operators1,
         LooksAt(op)
  PROVE  text[ptr] = op[1] /\ text[ptr] # Newline /\ ptr < End
<1>1. op \in Seq(OpChars) /\ Len(op) >= 1
  <2>1. op \in Seq(OpChars)
    BY MarkChars
  <2>2. Len(op) >= 1
    <3>1. CASE op \in Operators3
      BY <3>1 DEF Operators3
    <3>2. CASE op \in Operators2
      BY <3>2 DEF Operators2
    <3>3. CASE op \in Operators1
      <4>1. PICK c : op = <<c>>
        BY <3>3, Zenon DEF Operators1
      <4> QED
        BY <4>1
    <3> QED
      BY <3>1, <3>2, <3>3
  <2> QED
    BY <2>1, <2>2
<1>2. op \in Seq(Chars) /\ Len(op) \in Nat /\ op[1] \in OpChars
  BY <1>1, Marks, LenProperties, ElementOfSeq
<1>3. ptr \in Nat /\ TypeInvariant
  BY TextFacts DEF LexerInvariant
<1>4. \A i \in ptr..(ptr + Len(op) - 1) : text[i] = op[i - ptr + 1]
  BY <1>2, <1>3, SeenChars
<1>5. ptr \in ptr..(ptr + Len(op) - 1) /\ ptr - ptr + 1 = 1
  BY <1>1, <1>2, <1>3
<1>6. text[ptr] = op[1]
  BY <1>4, <1>5
<1>7. op[1] # Newline
  BY <1>2 DEF OpChars, Newline
<1>8. ptr + Len(op) <= End /\ End \in Nat
  BY <1>2, <1>3, SeenChars, TextFacts
<1> QED
  BY <1>1, <1>2, <1>3, <1>6, <1>7, <1>8

LEMMA StarSlash ==
  ASSUME LexerInvariant, ~LooksAt(<<"*", "/">>)
  PROVE  ~(ptr + 1 < End /\ text[ptr] = "*" /\ text[ptr + 1] = "/")
<1> SUFFICES ASSUME ptr + 1 < End, text[ptr] = "*", text[ptr + 1] = "/" PROVE FALSE
  OBVIOUS
<1> DEFINE u == SubSeq(text, ptr, ptr + 1)
           v == <<"*", "/">>
<1>1. ptr \in Nat /\ End \in Nat /\ ptr >= 1 /\ text \in Seq(Chars) /\ Len(text) \in Nat
      /\ End = Len(text) + 1
  BY TextFacts DEF LexerInvariant
<1>2. \A i \in ptr..(ptr + 1) : text[i] \in Chars
  <2>1. \A i \in ptr..(ptr + 1) : i \in 1..Len(text)
    BY <1>1
  <2> QED
    BY <1>1, <2>1, ElementOfSeq
<1>3. u \in Seq(Chars) /\ Len(u) = 2 /\ \A i \in 1..2 : u[i] = text[ptr + i - 1]
  BY <1>1, <1>2, SubSeqProperties
<1>4. u[1] = "*" /\ u[2] = "/"
  <2>1. ptr + 1 - 1 = ptr /\ ptr + 2 - 1 = ptr + 1
    BY <1>1
  <2> QED
    BY <1>3, <2>1
<1>5. v \in Seq(Chars) /\ Len(v) = 2 /\ v[1] = "*" /\ v[2] = "/"
  BY DEF Chars
<1>6. Lexeme(ptr, ptr + 2) = u
  BY <1>1 DEF Lexeme
<1> HIDE DEF u, v
<1>7. u = v
  BY <1>3, <1>4, <1>5, SeqEqual
<1>8. ptr + Len(v) <= End /\ Lexeme(ptr, ptr + Len(v)) = v
  BY <1>1, <1>5, <1>6, <1>7
<1> QED
  BY <1>8 DEF LooksAt, v

LEMMA GapComment ==
  ASSUME LexerInvariant, GapInvariant, BeginLineComment \/ BeginBlockComment
  PROVE  GapInvariant'
<1>1. "/" \in Chars /\ "*" \in Chars /\ "/" # Newline
  BY DEF Chars, Newline
<1>2. /\ mode = "scan" /\ Same /\ base' = ptr /\ ptr' = ptr + 2 /\ token' = token
      /\ \/ mode' = "line" /\ LooksAt(<<"/", "/">>)
         \/ mode' = "block" /\ LooksAt(<<"/", "*">>)
  BY DEF BeginLineComment, BeginBlockComment, BeginComment, LineCommentStart,
         BlockCommentStart, Mark, Advance, Scanning
<1>3. /\ text[ptr] = "/"
      /\ mode' = "line" => text[ptr + 1] = "/"
      /\ mode' = "block" => text[ptr + 1] = "*"
  BY <1>1, <1>2, SeesMark
<1>4. ptr \in Nat /\ from \in Nat /\ from <= ptr
  BY TextFacts DEF LexerInvariant
<1>5. TokenKept'
  BY <1>2, GapFrame DEF GapInvariant, TokenKept
<1>6. Reached = ptr /\ Reached' = ptr
  BY <1>2 DEF Reached
<1>7. PiecesReached' /\ TokenStart'
  <2>1. PiecesReached'
    BY <1>2, <1>6, PiecesStay DEF GapInvariant, Called
  <2>2. TokenStart'
    BY <1>1, <1>2, <1>3, <1>6, GapFrame DEF TokenStart
  <2> QED
    BY <2>1, <2>2
<1>8. InsideComment'
  <2>1. \A i \in ptr..(ptr + 2 - 1) : text[i] # Newline
    BY <1>2, OverTwo
  <2>2. (ptr + 2)..(ptr + 2 - 1) = {}
    BY <1>4
  <2>3. mode' = "line" => InLineComment'
    <3>1. base'..(ptr' - 1) = ptr..(ptr + 2 - 1)
      BY <1>2, <1>4
    <3>2. Newlines(base, ptr - 1)' = {}
      BY <1>2, <2>1, <3>1, GapFrame DEF Newlines
    <3> QED
      BY <1>2, <1>3, <3>2, GapFrame DEF InLineComment
  <2>4. mode' = "block" => InBlockComment'
    BY <1>2, <1>3, <2>2, GapFrame DEF InBlockComment
  <2> QED
    BY <1>2, <1>3, <1>4, <2>3, <2>4, GapFrame DEF InsideComment
<1> QED
  BY <1>5, <1>7, <1>8 DEF GapInvariant

\* The lexer has come to the end of a comment, which is then a whole piece.
LEMMA GapCommentOver ==
  ASSUME LexerInvariant, GapInvariant, Same, mode \in {"line", "block"}, mode' = "scan",
         token' = token, NEW q \in Int, ptr' = q, q <= End, Piece(base, q)
  PROVE  GapInvariant'
<1>1. TokenKept' /\ InsideComment' /\ TokenStart'
  BY GapFrame DEF GapInvariant, TokenKept, InsideComment, TokenStart
<1>2. Reached = base /\ Reached' = q /\ text[base] # Newline /\ PiecesReached
  BY DEF Reached, GapInvariant, InsideComment, Called, Newline
<1>3. PiecesReached'
  BY <1>2, PiecesGo
<1> QED
  BY <1>1, <1>3 DEF GapInvariant

LEMMA LinePiece ==
  ASSUME LexerInvariant, InsideComment, mode = "line", NEW q \in Int,
         \/ ptr = End /\ q = ptr
         \/ ptr # End /\ text[ptr] = Newline /\ q = ptr + 1
  PROVE  Piece(base, q) /\ q <= End
<1>1. /\ ptr \in Nat /\ base \in Nat /\ End \in Nat /\ ptr <= End
      /\ base + 2 <= ptr /\ text[base] = "/" /\ text[base + 1] = "/"
      /\ Newlines(base, ptr - 1) = {}
  BY TextFacts DEF LexerInvariant, InsideComment, InLineComment
<1>2. q - 2 <= ptr - 1 /\ base + 2 <= q /\ q <= End
  BY <1>1
<1>3. Newlines(base + 2, q - 2) = {}
  <2>1. \A i \in (base + 2)..(q - 2) : i \in base..(ptr - 1)
    BY <1>1, <1>2
  <2> QED
    BY <1>1, <2>1 DEF Newlines
<1>4. q = End \/ text[q - 1] = Newline
  BY <1>1
<1> QED
  BY <1>1, <1>2, <1>3, <1>4 DEF Piece, OneLine

LEMMA BlockPiece ==
  ASSUME LexerInvariant, InsideComment, mode = "block", NEW q \in Int,
         \/ ptr = End /\ q = ptr
         \/ LooksAt(<<"*", "/">>) /\ q = ptr + 2
  PROVE  Piece(base, q) /\ q <= End
<1>1. /\ ptr \in Nat /\ base \in Nat /\ End \in Nat /\ ptr <= End
      /\ base + 2 <= ptr /\ text[base] = "/" /\ text[base + 1] = "*"
      /\ \A e \in (base + 2)..(ptr - 1) :
           ~(e + 1 < End /\ text[e] = "*" /\ text[e + 1] = "/")
  BY TextFacts DEF LexerInvariant, InsideComment, InBlockComment
<1>2. LooksAt(<<"*", "/">>) => ptr + 2 <= End /\ text[ptr] = "*" /\ text[ptr + 1] = "/"
  <2>1. "*" \in Chars /\ "/" \in Chars
    BY DEF Chars
  <2> QED
    BY <2>1, SeesMark
<1>3. q <= End /\ base + 2 <= q /\ q <= ptr + 2
  BY <1>1, <1>2
<1>4. ~\E e \in (base + 2)..(q - 3) : text[e] = "*" /\ text[e + 1] = "/"
  <2>1. \A e \in (base + 2)..(q - 3) : e \in (base + 2)..(ptr - 1) /\ e + 1 < End
    BY <1>1, <1>3
  <2> QED
    BY <1>1, <2>1
<1>5. q = End \/ (base + 4 <= q /\ text[q - 2] = "*" /\ text[q - 1] = "/")
  <2>1. CASE q = ptr + 2 /\ LooksAt(<<"*", "/">>)
    <3>1. q - 2 = ptr /\ q - 1 = ptr + 1 /\ base + 4 <= q
      BY <1>1, <2>1
    <3> QED
      BY <1>2, <2>1, <3>1
  <2> QED
    BY <2>1
<1> QED
  BY <1>1, <1>3, <1>4, <1>5 DEF Piece, MultiLine

LEMMA GapCommentOn ==
  ASSUME LexerInvariant, GapInvariant, Same, mode \in {"line", "block"}, mode' = mode,
         token' = token, base' = base, ptr' = ptr + 1, ptr # End,
         mode = "line" => text[ptr] # Newline,
         mode = "block" => ~LooksAt(<<"*", "/">>)
  PROVE  GapInvariant'
<1>1. /\ ptr \in Nat /\ base \in Nat /\ from \in Nat /\ base <= ptr /\ End \in Nat
      /\ ptr <= End /\ from <= base /\ base + 2 <= ptr /\ text[base] = "/"
  BY TextFacts DEF LexerInvariant, GapInvariant, InsideComment
<1>2. TokenKept'
  BY GapFrame DEF GapInvariant, TokenKept
<1>3. Reached = base /\ Reached' = base
  BY DEF Reached
<1>4. PiecesReached' /\ TokenStart'
  <2>1. PiecesReached'
    BY <1>3, PiecesStay DEF GapInvariant, Called
  <2>2. TokenStart'
    BY <1>3, GapFrame DEF GapInvariant, Called, TokenStart
  <2> QED
    BY <2>1, <2>2
<1>5. InsideComment'
  <2>1. CASE mode = "line"
    <3>1. text[base + 1] = "/" /\ Newlines(base, ptr - 1) = {}
      BY <2>1 DEF GapInvariant, InsideComment, InLineComment
    <3>2. ASSUME NEW i \in base..(ptr + 1 - 1) PROVE text[i] # Newline
      <4>1. i # ptr => i \in base..(ptr - 1)
        BY <1>1
      <4> QED
        BY <2>1, <3>1, <4>1 DEF Newlines
    <3>3. base'..(ptr' - 1) = base..(ptr + 1 - 1)
      BY <1>1
    <3>4. Newlines(base, ptr - 1)' = {}
      BY <3>2, <3>3, GapFrame DEF Newlines
    <3>5. InLineComment'
      BY <3>1, <3>4, GapFrame DEF InLineComment
    <3> QED
      BY <1>1, <2>1, <3>5, GapFrame DEF InsideComment
  <2>2. CASE mode = "block"
    <3>1. /\ text[base + 1] = "*"
          /\ \A e \in (base + 2)..(ptr - 1) :
               ~(e + 1 < End /\ text[e] = "*" /\ text[e + 1] = "/")
      BY <2>2 DEF GapInvariant, InsideComment, InBlockComment
    <3>2. ~(ptr + 1 < End /\ text[ptr] = "*" /\ text[ptr + 1] = "/")
      BY <2>2, StarSlash
    <3>3. ASSUME NEW e \in (base + 2)..(ptr + 1 - 1)
          PROVE  ~(e + 1 < End /\ text[e] = "*" /\ text[e + 1] = "/")
      <4>1. e # ptr => e \in (base + 2)..(ptr - 1)
        BY <1>1
      <4> QED
        BY <3>1, <3>2, <4>1
    <3>4. (base' + 2)..(ptr' - 1) = (base + 2)..(ptr + 1 - 1)
      BY <1>1
    <3>5. InBlockComment'
      BY <3>1, <3>3, <3>4, GapFrame DEF InBlockComment
    <3> QED
      BY <1>1, <2>2, <3>5, GapFrame DEF InsideComment
  <2> QED
    BY <2>1, <2>2
<1> QED
  BY <1>2, <1>4, <1>5 DEF GapInvariant

LEMMA GapStep == ASSUME LexerInvariant, GapInvariant, Next PROVE GapInvariant'
<1>0. token \in Tokens /\ ptr \in Nat /\ ptr <= End /\ End \in Nat
  BY TextFacts DEF LexerInvariant, TypeInvariant
<1>1. CASE lexer_next
  BY <1>1, GapNext
<1>2. CASE EndOfFile
  BY <1>2, GapEndOfFile
<1>3. CASE InsertSemicolon
  BY <1>3, GapSemicolon
<1>4. CASE SkipBlank
  <2>1. ptr' = ptr + 1
    BY <1>4 DEF SkipBlank, lexer_step
  <2> QED
    BY <1>4, <2>1, GapSkip DEF SkipBlank, Scanning
<1>5. CASE Operator3 \/ Operator2 \/ Operator1
  <2>1. PICK op \in Operators3 \cup Operators2 \cup Operators1 : Operator(op)
    BY <1>5 DEF Operator3, Operator2, Operator1
  <2>2. /\ mode = "scan" /\ Same /\ base' = ptr /\ LooksAt(op)
        /\ token' = OperatorToken(op) /\ mode' = "returned"
    BY <2>1 DEF Operator, Scanning, Mark, Return
  <2>3. token' # "EOF" /\ (token' = "SEMI" => op = <<";">>)
    BY <2>2 DEF OperatorToken
  <2>4. text[ptr] = op[1] /\ text[ptr] # Newline /\ ptr < End
    BY <2>2, SeesOperator
  <2>5. token' = "SEMI" => text[ptr] = ";"
    <3>1. ASSUME op = <<";">> PROVE op[1] = ";"
      BY <3>1
    <3> QED
      BY <2>3, <2>4, <3>1
  <2> QED
    BY <2>2, <2>3, <2>4, <2>5, GapFound
<1>6. CASE BeginLineComment \/ BeginBlockComment
  BY <1>6, GapComment
<1>7. CASE BeginString \/ BeginNumber \/ BeginIdent
  <2>1. /\ mode = "scan" /\ Same /\ base' = ptr
        /\ \/ mode' = "string" /\ token' = "STRING"
           \/ mode' \in {"number", "ident"}
    BY <1>7 DEF BeginString, BeginNumber, BeginIdent, Mark, Scanning
  <2>2. text[ptr] # Newline
    BY <1>7, NewlineKinds DEF BeginString, BeginNumber, BeginIdent
  <2> QED
    BY <2>1, <2>2, GapFound
<1>8. CASE StaleIdent
  <2>1. mode = "scan" /\ Same /\ base' = ptr /\ mode' = "returned" /\ token' = "IDENT"
    BY <1>8 DEF StaleIdent, Mark, Scanning, Return
  <2>2. text[ptr] # Newline
    BY <1>8, NewlineKinds DEF StaleIdent
  <2> QED
    BY <2>1, <2>2, GapFound
<1>9. CASE SkipGarbage
  <2>1. /\ mode = "scan" /\ mode' = "scan" /\ Same /\ token' = token /\ ptr' = ptr + 1
        /\ ptr # End /\ text[ptr] \in Garbage \cup {Backslash}
    BY <1>9 DEF SkipGarbage, Scanning, Advance
  <2>2. text[ptr] # Newline
    BY <2>1, NewlineKinds
  <2> QED
    BY <2>1, <2>2, GapSkip
<1>10. CASE LineComment
  <2>1. mode = "line" /\ Same /\ token' = token /\ base' = base
    BY <1>10 DEF LineComment
  <2>2. CASE ptr = End
    <3>1. mode' = "scan" /\ ptr' = ptr
      BY <1>10, <2>2 DEF LineComment
    <3> QED
      BY <1>0, <2>1, <2>2, <3>1, LinePiece, GapCommentOver DEF GapInvariant
  <2>3. CASE ptr # End /\ text[ptr] = Newline
    <3>1. mode' = "scan" /\ ptr' = ptr + 1
      BY <1>10, <2>3 DEF LineComment, lexer_step
    <3> QED
      BY <1>0, <2>1, <2>3, <3>1, LinePiece, GapCommentOver DEF GapInvariant
  <2>4. CASE ptr # End /\ text[ptr] # Newline
    <3>1. mode' = mode /\ ptr' = ptr + 1
      BY <1>10, <2>1, <2>4 DEF LineComment, lexer_step
    <3> QED
      BY <2>1, <2>4, <3>1, GapCommentOn
  <2> QED
    BY <2>2, <2>3, <2>4
<1>11. CASE BlockComment
  <2>1. mode = "block" /\ Same /\ token' = token /\ base' = base
    BY <1>11 DEF BlockComment
  <2>2. CASE ptr = End
    <3>1. mode' = "scan" /\ ptr' = ptr
      BY <1>11, <2>2 DEF BlockComment
    <3> QED
      BY <1>0, <2>1, <2>2, <3>1, BlockPiece, GapCommentOver DEF GapInvariant
  <2>3. CASE ptr # End /\ LooksAt(<<"*", "/">>)
    <3>1. mode' = "scan" /\ ptr' = ptr + 2
      BY <1>11, <2>3 DEF BlockComment, Advance
    <3> QED
      BY <1>0, <2>1, <2>3, <3>1, BlockPiece, GapCommentOver DEF GapInvariant
  <2>4. CASE ptr # End /\ ~LooksAt(<<"*", "/">>)
    <3>1. mode' = mode /\ ptr' = ptr + 1
      BY <1>11, <2>4 DEF BlockComment, lexer_step
    <3> QED
      BY <2>1, <2>4, <3>1, GapCommentOn
  <2> QED
    BY <2>2, <2>3, <2>4
<1>12. CASE StringBody \/ StringEscape \/ EscapedChar
  <2>1. /\ mode \in {"string", "escape"} /\ Same /\ base' = base /\ token' = token
        /\ mode' \in {"string", "escape", "returned"}
    BY <1>12 DEF StringBody, StringEscape, EscapedChar
  <2>2. token = "STRING"
    BY <2>1 DEF GapInvariant, TokenKept
  <2> QED
    BY <2>1, <2>2, GapInToken
<1>13. CASE NumberBody \/ IdentBody \/ ReadPastEnd
  <2>1. /\ mode \in {"number", "ident"} /\ Same /\ base' = base
        /\ mode' \in {"number", "ident", "crashed"}
    BY <1>13 DEF NumberBody, IdentBody, ReadPastEnd
  <2> QED
    BY <2>1, GapInToken
<1>14. CASE Unterminated \/ NumberEnd \/ IdentEnd
  <2>1. /\ mode \in {"string", "escape", "number", "ident"} /\ Same /\ base' = base
        /\ mode' = "returned" /\ token' \notin {"EOF", "SEMI"}
    BY <1>14 DEF Unterminated, NumberEnd, IdentEnd, Return, KeywordToken
  <2> QED
    BY <2>1, GapInToken
<1> QED
  BY <1>1, <1>2, <1>3, <1>4, <1>5, <1>6, <1>7, <1>8, <1>9, <1>10, <1>11, <1>12, <1>13,
     <1>14 DEF Next

LEMMA AlwaysGap == Spec => [](LexerInvariant /\ GapInvariant)
<1>1. Init => GapInvariant
  BY DEF Init, GapInvariant, TokenKept, InsideComment, Called
<1>2. LexerInvariant /\ GapInvariant /\ [Next]_vars => GapInvariant'
  <2>1. ASSUME GapInvariant, UNCHANGED vars PROVE GapInvariant'
    <3>1. Same /\ mode' = mode /\ token' = token /\ ptr' = ptr /\ base' = base
      BY <2>1 DEF vars, Same
    <3>2. InLineComment' <=> InLineComment
      BY <3>1, GapFrame DEF InLineComment, Newlines
    <3>3. InBlockComment' <=> InBlockComment
      BY <3>1, GapFrame DEF InBlockComment
    <3>4. Reached' = Reached /\ (Called' <=> Called)
      BY <3>1 DEF Reached, Called
    <3>5. TokenKept' /\ InsideComment'
      BY <2>1, <3>1, <3>2, <3>3, GapFrame DEF GapInvariant, TokenKept, InsideComment
    <3>6. Called' => PiecesReached' /\ TokenStart'
      <4>1. ASSUME Called PROVE PiecesReached'
        BY <2>1, <3>1, <3>4, <4>1, PiecesStay DEF GapInvariant
      <4>2. ASSUME Called PROVE TokenStart'
        BY <2>1, <3>1, <3>4, <4>2, GapFrame DEF GapInvariant, TokenStart
      <4> QED
        BY <3>4, <4>1, <4>2
    <3> QED
      BY <3>5, <3>6 DEF GapInvariant
  <2> QED
    BY <2>1, GapStep
<1>3. Spec => []LexerInvariant
  BY LexerKeepsItsPlace, PTL DEF LexerInvariant
<1> QED
  BY <1>1, <1>2, <1>3, PTL DEF Spec

\* For every file, whole comments, blanks and characters that start no token follow
\* each other without a hole from the end of a token to the start of the next: no
\* text is lost (lexer.c, lexer_next and the two loops over comments).
THEOREM NothingLostBetweenTokens == Spec => []NothingLost
<1>1. LexerInvariant /\ GapInvariant => NothingLost
  <2> SUFFICES ASSUME GapInvariant, Returned PROVE Start \in Gap
    BY DEF NothingLost
  <2>1. Reached = Start /\ PiecesReached
    BY DEF Reached, Start, Returned, GapInvariant, Called
  <2> QED
    BY <2>1 DEF PiecesReached
<1> QED
  BY <1>1, AlwaysGap, PTL

\* For every file, a newline outside comments becomes a semicolon exactly when the
\* token before it may end a statement, and then the first one does and the semicolon
\* is the next token; every other semicolon is in the text (lexer.c, the head of the
\* loop of lexer_next).
THEOREM SemicolonsWhereTheyBelong == Spec => []SemicolonRule
<1>1. LexerInvariant /\ GapInvariant => SemicolonRule
  <2> SUFFICES ASSUME LexerInvariant, GapInvariant, Returned
               PROVE  SemicolonRule
    BY DEF SemicolonRule
  <2>1. Reached = Start /\ PiecesReached /\ TokenStart /\ Called /\ mode = "returned"
    BY DEF Reached, Start, Returned, GapInvariant, Called
  <2>2. Start \in Int /\ Gap \subseteq Int /\ Start <= Start
    BY TextFacts, GapFacts DEF Start, LexerInvariant
  <2>3. before \in Terminators => \A n \in LineEnds : n = Start
    <3>1. ASSUME before \in Terminators, NEW n \in LineEnds PROVE n = Start
      <4>1. n \in Gap /\ n \in Int /\ n <= Start /\ text[n] = Newline
        BY <2>2 DEF LineEnds
      <4>2. ~(n < Start)
        BY <2>1, <3>1, <4>1 DEF PiecesReached
      <4> QED
        BY <2>2, <4>1, <4>2
    <3> QED
      BY <3>1
  <2>4. CASE before \in Terminators /\ LineEnds # {}
    <3>1. Start \in LineEnds /\ LineEnds = {Start}
      BY <2>3, <2>4
    <3>2. token = "SEMI"
      BY <2>1, <3>1 DEF LineEnds, TokenStart
    <3>3. Start = base
      BY <3>2 DEF Start
    <3> QED
      BY <2>4, <3>1, <3>2, <3>3 DEF SemicolonRule
  <2>5. CASE ~(before \in Terminators /\ LineEnds # {})
    <3> SUFFICES ASSUME token = "SEMI", text[base] # ";" PROVE FALSE
      BY <2>5 DEF SemicolonRule
    <3>1. Start = base /\ base < End /\ text[base] = Newline
      BY <2>1 DEF Start, TokenStart
    <3>2. before \in Terminators
      BY <2>1, <3>1 DEF TokenStart
    <3>3. base \in Gap
      BY <2>1, <3>1 DEF PiecesReached
    <3>4. base \in LineEnds
      <4>1. base <= Start
        BY <2>2, <3>1, Zenon
      <4> QED
        BY <3>1, <3>3, <4>1, Zenon DEF LineEnds
    <3> QED
      BY <2>5, <3>2, <3>4
  <2> QED
    BY <2>4, <2>5
<1> QED
  BY <1>1, AlwaysGap, PTL
=============================================================================
