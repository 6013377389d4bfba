-------------------------------- MODULE Parser --------------------------------
(***************************************************************************)
(* The table-driven parser, parse() of parser.c.  Its tables come from the *)
(* generator; its tokens come from the lexer, which is the environment     *)
(* here and may deliver any token next.                                    *)
(*                                                                         *)
(* A stack entry keeps the state, the symbol (token.id) and the text span  *)
(* of the symbol: "first" and "last", counted in tokens from the start of  *)
(* the file instead of in characters.                                      *)
(***************************************************************************)
EXTENDS Integers, Sequences, ParserStates

CONSTANTS Tokens,     \* what the lexer can deliver
          MaxTokens   \* bound on the length of a file

VARIABLES stack,      \* the array "stack", its bottom first
          token,      \* lex->token
          consumed,   \* the tokens shifted so far
          status      \* "idle", "parsing", "accepted", or "error" (derror exits)

parserVars == <<stack, token, consumed, status>>

Eof == "EOF"
NoRule == "nil"

\* lexer_next, seen from the parser: any token while the file may go on.
Delivered(n) == IF n < MaxTokens THEN Tokens \cup {Eof} ELSE {Eof}

ParserInit ==
  /\ stack = <<>>
  /\ token = Eof
  /\ consumed = <<>>
  /\ status = "idle"

\* parse_file makes the first call of lexer_next and enters parse().
parse ==
  /\ status = "idle"
  /\ stack' = << [state |-> 0, id |-> NoRule, first |-> 0, last |-> 0] >>
  /\ token' \in Delivered(0)
  /\ status' = "parsing"
  /\ UNCHANGED <<table, consumed>>

current == stack[Len(stack)]
Actions == table[current.state + 1].actions

\* Mutant: without an action for the token, a state falls back on a reduction.
MatchingOrReduce ==
  LET exact == { i \in DOMAIN Actions : token \in Actions[i].tokens }
  IN  IF exact # {} THEN exact
      ELSE { i \in DOMAIN Actions : Actions[i].state_or_length < 0 }

Matching == { i \in DOMAIN Actions : token \in Actions[i].tokens }
FirstMatch == Actions[CHOOSE i \in Matching : \A j \in Matching : i <= j]

\* No action for the token: the message, and exit(1).
syntax_error ==
  /\ status = "parsing"
  /\ Matching = {}
  /\ status' = "error"
  /\ UNCHANGED <<table, stack, token, consumed>>

accept ==
  /\ status = "parsing"
  /\ Matching # {}
  /\ FirstMatch.state_or_length < 0
  /\ FirstMatch.rule = NoRule
  /\ status' = "accepted"
  /\ UNCHANGED <<table, stack, token, consumed>>

\* Where the base state goes on the rule.  Without an entry the loop at 82
\* leaves the state that the first reduced symbol had.
Goto(base, rule, old) ==
  LET gotos == table[base.state + 1].gotos
      hits == { i \in DOMAIN gotos : gotos[i].rule = rule }
  IN  IF hits = {} THEN old
      ELSE gotos[CHOOSE i \in hits : \A j \in hits : i <= j].state

\* Mutant: the reduced token ends where its first part ends.
ReducedShort(target, rule) == [target EXCEPT !.id = rule]

\* The token a reduction leaves: it starts like the first of its parts and
\* ends like the last.
Reduced(target, rule) ==
  [target EXCEPT !.id = rule, !.last = current.last]

\* Mutant: the goto is looked up in the state of the first reduced symbol.
BaseOfTarget(at) == stack[at]

\* The entry below the reduced symbols, the first of which is at "at".
Base(at) == stack[at - 1]

\* Mutant: the reduced symbols are not taken off the stack.
reduce_keep ==
  /\ status = "parsing"
  /\ Matching # {}
  /\ FirstMatch.state_or_length < 0
  /\ FirstMatch.rule # NoRule
  /\ LET n == 0 - FirstMatch.state_or_length
         at == Len(stack) - n + 1
     IN  /\ at > 1
         /\ stack' = [stack EXCEPT ![at] =
                        [Reduced(stack[at], FirstMatch.rule) EXCEPT
                           !.state = Goto(Base(at), FirstMatch.rule, @)]]
  /\ UNCHANGED <<table, token, consumed, status>>

\* The array_gets at 68 and 69 assert that the base is on the stack.
reduce ==
  /\ status = "parsing"
  /\ Matching # {}
  /\ FirstMatch.state_or_length < 0
  /\ FirstMatch.rule # NoRule
  /\ LET n == 0 - FirstMatch.state_or_length
         at == Len(stack) - n + 1
     IN  /\ at > 1
         /\ stack' = Append(SubSeq(stack, 1, at - 1),
                            [Reduced(stack[at], FirstMatch.rule) EXCEPT
                               !.state = Goto(Base(at), FirstMatch.rule, @)])
  /\ UNCHANGED <<table, token, consumed, status>>

shift ==
  /\ status = "parsing"
  /\ Matching # {}
  /\ FirstMatch.state_or_length >= 0
  /\ stack' = Append(stack, [state |-> FirstMatch.state_or_length, id |-> token,
                             first |-> Len(consumed), last |-> Len(consumed) + 1])
  /\ consumed' = Append(consumed, token)
  /\ token' \in Delivered(Len(consumed) + 1)
  /\ UNCHANGED <<table, status>>

ParserNext == parse \/ syntax_error \/ accept \/ reduce \/ shift
==============================================================================
