--------------------------- MODULE ParserGenerator ---------------------------
(***************************************************************************)
(* The program that builds the parser's tables (parser_generator.c): it    *)
(* computes the canonical LR(1) automaton of a grammar and emits, for each *)
(* state, its actions by token and its gotos by rule.                      *)
(*                                                                         *)
(* A grammar is a record: "rules" lists the rule names in the order of     *)
(* their definition, "variants" gives each rule its right-hand sides.  A   *)
(* symbol that is not a rule is a token.  grammar_root is the rule added   *)
(* in front of GRAMMAR_ROOT.                                               *)
(*                                                                         *)
(* A lead is an LR(1) item.  Rules are compared by address in the code and *)
(* by their place in "rules" here.                                         *)
(***************************************************************************)
EXTENDS Integers, Sequences, FiniteSets, ParserStates

CONSTANT Grammars   \* the grammars the generator is run on

VARIABLES grammar,  \* the grammar compiled into the generator
          states,   \* the array "states" of main
          index,    \* the state that gather_states expands, from 0
          next      \* the lead of it that is looked at next, from 1

genVars == <<grammar, states, index, next, table>>

TKN_EOF == "EOF"
Nil == "nil"        \* the zero that ends a variant

IsRule(g, symbol) == symbol \in DOMAIN g.variants
Beginners(g) == UNION { { g.variants[r][v][1] : v \in DOMAIN g.variants[r] } : r \in DOMAIN g.variants }

\* The symbol after the dot, offset by k.
variant_get_symbol(g, lead, k) ==
  LET elements == g.variants[lead.rule][lead.variant]
      n == lead.position + k
  IN  IF n < Len(elements) THEN elements[n + 1] ELSE Nil

\* The tokens a symbol may begin with; the rules in "chain" are being asked.
gather_first(g, symbol) ==
  LET Rules == DOMAIN g.variants
      first[asked \in (Rules \cup {symbol} \cup Beginners(g)) \X SUBSET Rules] ==
        LET s == asked[1]
            chain == asked[2]
        IN  IF ~IsRule(g, s) THEN {s}
            ELSE IF s \in chain THEN {}
            ELSE UNION { first[<<g.variants[s][v][1], chain \cup {s}>>] : v \in DOMAIN g.variants[s] }
  IN  first[<<symbol, {}>>]

\* The leads one lead stands for when a rule follows its dot.
ExpandLead(g, lead) ==
  LET tc == variant_get_symbol(g, lead, 0)
      tn == variant_get_symbol(g, lead, 1)
      follow == IF tn = Nil THEN lead.terminals ELSE gather_first(g, tn)
  IN  IF ~IsRule(g, tc) THEN {}
      ELSE { [rule |-> tc, variant |-> v, position |-> 0, terminals |-> follow] :
               v \in DOMAIN g.variants[tc] }

\* One call of gather_leads: "leads" so far, "fresh" the part of them to expand.
GatherMore(g, gathered) ==
  LET found == (UNION { ExpandLead(g, lead) : lead \in gathered.fresh }) \ gathered.leads
  IN  [leads |-> gathered.leads \cup found, fresh |-> found]

\* It calls itself until nothing is fresh.  The way to a lead need not pass a
\* rule twice before the last change of its follow set, nor after it.
gather_leads(g, kernel) ==
  LET most == 2 * Len(g.rules) + 1
      gathered[calls \in 0..most] ==
        IF calls = 0 THEN [leads |-> kernel, fresh |-> kernel]
        ELSE GatherMore(g, gathered[calls - 1])
  IN  gathered[most].leads

\* compare_leads, for leads that differ in rule, variant or position.
LeadBefore(g, l, m) ==
  LET Rank(r) == CHOOSE n \in DOMAIN g.rules : g.rules[n] = r
  IN  \/ Rank(l.rule) < Rank(m.rule)
      \/ l.rule = m.rule /\ l.variant < m.variant
      \/ l.rule = m.rule /\ l.variant = m.variant /\ l.position < m.position

SameCore(l, m) ==
  l.rule = m.rule /\ l.variant = m.variant /\ l.position = m.position

\* Mutant: leads that differ only in their terminals are dropped, not merged.
MergeFirst(leads, lead) ==
  (CHOOSE m \in leads : SameCore(m, lead)).terminals

\* The terminals of all leads with this lead's core, put together.
MergedTerminals(leads, lead) ==
  UNION { m.terminals : m \in { x \in leads : SameCore(x, lead) } }

\* qsort, and the merge of neighbours with the same core.
consolidate_leads(g, leads) ==
  LET merged == { [lead EXCEPT !.terminals = MergedTerminals(leads, lead)] :
                    lead \in leads }
  IN  [n \in 1..Cardinality(merged) |->
         CHOOSE l \in merged :
           Cardinality({ m \in merged : LeadBefore(g, m, l) }) = n - 1]

NewState(g, kernel) ==
  [leads |-> consolidate_leads(g, gather_leads(g, kernel)),
   token_actions |-> <<>>, rule_actions |-> <<>>]

\* The index (from 0) of the state with these leads: an old one or the next.
StateFor(sts, leads) ==
  LET same == { k \in DOMAIN sts : sts[k].leads = leads }
  IN  IF same = {} THEN Len(sts) ELSE (CHOOSE k \in same : \A j \in same : k <= j) - 1

GeneratorInit ==
  /\ grammar \in Grammars
  /\ states = << NewState(grammar, {[rule |-> "grammar_root", variant |-> 1,
                                     position |-> 0, terminals |-> {TKN_EOF}]}) >>
  /\ index = 0 /\ next = 1
  /\ table = <<>>

\* The loops of gather_states.  The recursion on the states just added makes
\* them run through the array from its start to its end.
Expanded == states[index + 1]
Symbol(k) == variant_get_symbol(grammar, Expanded.leads[k], 0)
Group == { k \in DOMAIN Expanded.leads : Symbol(k) = Symbol(next) }
Handled == \E k \in Group : k < next
AtLead == index < Len(states) /\ next <= Len(Expanded.leads)

gather_handled ==
  /\ AtLead /\ Handled
  /\ next' = next + 1
  /\ UNCHANGED <<grammar, states, index, table>>

\* A lead that is over is reduced.  The assert at line 407 stops the generator
\* when two are.
gather_reduce ==
  /\ AtLead /\ ~Handled
  /\ Symbol(next) = Nil /\ Group = {next}
  /\ LET lead == Expanded.leads[next]
     IN  states' = [states EXCEPT ![index + 1].token_actions =
                      Append(@, [tokens |-> lead.terminals, rule |-> lead.rule, length |-> lead.position, state |-> 0])]
  /\ next' = next + 1
  /\ UNCHANGED <<grammar, index, table>>

\* The leads with this symbol go on behind it, in a state that is there already
\* or a new one.
gather_shift ==
  /\ AtLead /\ ~Handled
  /\ Symbol(next) # Nil
  /\ LET new == NewState(grammar, { [Expanded.leads[k] EXCEPT !.position = @ + 1] : k \in Group })
         target == StateFor(states, new.leads)
         grown == IF target = Len(states) THEN Append(states, new) ELSE states
     IN  states' =
           IF IsRule(grammar, Symbol(next))
           THEN [grown EXCEPT ![index + 1].rule_actions = Append(@, [rule |-> Symbol(next), state |-> target])]
           ELSE [grown EXCEPT ![index + 1].token_actions =
                   Append(@, [tokens |-> {Symbol(next)}, rule |-> Nil, length |-> 0, state |-> target])]
  /\ next' = next + 1
  /\ UNCHANGED <<grammar, index, table>>

gather_next ==
  /\ index < Len(states) /\ next > Len(Expanded.leads)
  /\ index' = index + 1 /\ next' = 1
  /\ UNCHANGED <<grammar, states, table>>

\* The printing loop, with the rows of one action, which differ in nothing but
\* their token, written as one row.  A reduction has the negated length of its
\* variant; the reduction of grammar_root, with no rule, accepts.
EmitState(s) ==
  [actions |-> [n \in DOMAIN s.token_actions |->
     LET a == s.token_actions[n]
     IN  [tokens |-> a.tokens,
          state_or_length |-> IF a.rule = Nil THEN a.state ELSE 0 - a.length,
          rule |-> IF a.rule = "grammar_root" THEN Nil ELSE a.rule]],
   gotos |-> s.rule_actions]

\* The end of main: the table is printed and the states are disposed of.
emit ==
  /\ index = Len(states)
  /\ table = <<>>
  /\ table' = [n \in DOMAIN states |-> EmitState(states[n])]
  /\ states' = <<>>
  /\ UNCHANGED <<grammar, index, next>>

GeneratorNext == gather_handled \/ gather_reduce \/ gather_shift \/ gather_next \/ emit

(***************************************************************************)
(* Properties.                                                             *)
(***************************************************************************)
\* In no state does a token select two actions: the first would win in parse()
\* and the other would be unreachable.  The assertions at
\* parser_generator.c:405-407 are there for this, but they compare only leads
\* with the same next symbol.
OneActionPerToken ==
  \A i \in DOMAIN table : \A a, b \in DOMAIN table[i].actions :
    a # b => table[i].actions[a].tokens \cap table[i].actions[b].tokens = {}
==============================================================================
