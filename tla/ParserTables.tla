----------------------------- MODULE ParserTables -----------------------------
(***************************************************************************)
(* The generator and the parser together: the tables parser_generator.c    *)
(* emits for a grammar are what parse() runs on.  Against this composition *)
(* stands the definition of the language: the sentences a symbol derives.  *)
(***************************************************************************)
EXTENDS ParserGenerator, Parser

CONSTANT MaxRounds  \* rounds of derivation, enough to reach a fixed point

\* What the lexer delivers; neither marks the end of anything.
ASSUME TokensAssumption == MaxTokens \in Nat /\ Tokens \cap {Eof, Nil} = {}

\* Rules are defined once, have variants that are not empty ("no empty rules
\* allowed", parser_generator.c:258), of other rules and of tokens; nothing
\* but the parser refers to grammar_root.
Grammatical(g) ==
  LET rules == DOMAIN g.variants
      variant == Seq((rules \ {"grammar_root"}) \cup Tokens) \ { <<>> }
  IN  /\ g.rules \in Seq(rules)
      /\ \A r \in rules : /\ \E k \in DOMAIN g.rules : g.rules[k] = r
                         /\ g.variants[r] \in Seq(variant)
      /\ IsRule(g, "grammar_root") /\ g.variants["grammar_root"] # <<>>
      /\ rules \cap (Tokens \cup {Eof, Nil}) = {}

ASSUME GrammarsAssumption == \A g \in Grammars : Grammatical(g)

vars == <<genVars, parserVars>>

Init == GeneratorInit /\ ParserInit

Generate == GeneratorNext /\ UNCHANGED parserVars
Parse == table # <<>> /\ ParserNext /\ UNCHANGED <<grammar, states, index, next>>

\* The process has returned from parse() or exited.
Done == status \in {"accepted", "error"} /\ UNCHANGED vars

Next == Generate \/ Parse \/ Done

Spec == Init /\ [][Next]_vars
FairSpec == Spec /\ WF_vars(Parse)

(***************************************************************************)
(* The reference: the sentences of at most MaxTokens tokens.               *)
(***************************************************************************)
Join(S, T) == { s \o t : s \in S, t \in T }
Short(S) == { s \in S : Len(s) <= MaxTokens }

\* The sentences of a sequence of symbols, when Y gives those of the rules.
SentencesOf(g, Y, elements) ==
  LET Of(symbol) == IF IsRule(g, symbol) THEN Y[symbol] ELSE { <<symbol>> }
      upto[k \in 0..Len(elements)] ==
        IF k = 0 THEN { <<>> } ELSE Short(Join(upto[k - 1], Of(elements[k])))
  IN  upto[Len(elements)]

\* What each rule derives when Y gives what the rules derive.
Derive(g, Y) ==
  [r \in DOMAIN g.variants |-> UNION { SentencesOf(g, Y, g.variants[r][v]) : v \in DOMAIN g.variants[r] }]

\* From nothing, one level more each round until there are no more sentences.
Sentences ==
  [g \in Grammars |->
     LET derived[round \in Nat] ==
           IF round = 0 THEN [sentences |-> [r \in DOMAIN g.variants |-> {}], over |-> FALSE]
           ELSE LET last == derived[round - 1]
                    more == Derive(g, last.sentences)
                IN  IF last.over THEN last ELSE [sentences |-> more, over |-> more = last.sentences]
     IN  derived[MaxRounds].sentences]

ASSUME RoundsAssumption ==
  \A g \in Grammars : Derive(g, Sentences[g]) = Sentences[g]

\* The texts that begin a sentence, a complete one being marked by its end.
Beginnings ==
  [g \in Grammars |->
     LET whole == { Append(s, Eof) : s \in Sentences[g]["grammar_root"] }
     IN  UNION { { SubSeq(s, 1, n) : n \in DOMAIN s } : s \in whole }]

(***************************************************************************)
(* Properties.                                                             *)
(***************************************************************************)
\* The parser accepts only when the whole file is a sentence of the grammar
\* (parser.c:58-61; the assertion at main.c:58).
AcceptsOnlySentences ==
  status = "accepted" =>
    token = Eof /\ consumed \in Sentences[grammar]["grammar_root"]

\* A syntax error is reported only at a token with which no sentence goes on
\* (parser.c:37-54): every sentence is accepted, and an error is found at the
\* first wrong token.
RejectsOnlyNonSentences ==
  status = "error" => Append(consumed, token) \notin Beginnings[grammar]

\* The spans on the stack tile the text read so far, and the text under each
\* span is derived from the entry's symbol: the locations in later messages and
\* the text of literals are cut out of the file by these spans
\* (parser.c:72-75, 89-97).
StackDerivesText ==
  status # "idle" =>
    /\ stack[Len(stack)].last = Len(consumed)
    /\ \A k \in 2..Len(stack) :
         LET text == SubSeq(consumed, stack[k].first + 1, stack[k].last)
         IN  /\ stack[k].first = stack[k - 1].last
             /\ IF stack[k].id \in Tokens THEN text = <<stack[k].id>>
                ELSE text \in Sentences[grammar][stack[k].id]

\* A reduction finds the state below its symbols on the stack, and there where
\* its rule leads: the array_gets at parser.c:68-69 do not assert, and the loop
\* at 82 never leaves the state of the first reduced symbol in place.
ReductionsFindTheirGoto ==
  status = "parsing" /\ Matching # {} /\ FirstMatch.state_or_length < 0 /\ FirstMatch.rule # NoRule =>
    LET base == Len(stack) + FirstMatch.state_or_length
    IN  /\ base >= 1
        /\ LET gotos == table[stack[base].state + 1].gotos
           IN  \E k \in DOMAIN gotos : gotos[k].rule = FirstMatch.rule

\* Parsing ends, for every file: the loop at parser.c:29 does not reduce for
\* ever.
Finishes == (status = "parsing") ~> (status \in {"accepted", "error"})
==============================================================================
