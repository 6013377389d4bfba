---------------------------- MODULE ParserProofs ----------------------------
(***************************************************************************)
(* For every grammar: the tables that the generator emits describe an      *)
(* automaton of leads, and the parser that runs on them accepts nothing    *)
(* but sentences.                                                          *)
(*                                                                         *)
(* The invariant: every state of the table can be labelled with leads so   *)
(* that shifts and gotos move their dots over the symbol and reductions    *)
(* are those of leads that are over; the states on the stack lead from one *)
(* to the next over the symbols beside them, so that the leads of the      *)
(* topmost state tell what lies below.                                     *)
(***************************************************************************)
EXTENDS ParserTables, SequenceTheorems, FiniteSetTheorems, LeastNumbers, TLAPS

Root == "grammar_root"
Elements(g, lead) == g.variants[lead.rule][lead.variant]
After(g, lead) == variant_get_symbol(g, lead, 0)
Over(g, lead) == lead.position = Len(Elements(g, lead))

IsLead(g, lead) ==
  /\ lead = [rule |-> lead.rule, variant |-> lead.variant, position |-> lead.position, terminals |-> lead.terminals]
  /\ IsRule(g, lead.rule)
  /\ lead.variant \in DOMAIN g.variants[lead.rule]
  /\ lead.position \in 0..Len(Elements(g, lead))

-----------------------------------------------------------------------------
(* What the assumption says of a variant.                                  *)

LEMMA VariantFacts ==
  ASSUME NEW g, Grammatical(g), NEW lead, IsLead(g, lead)
  PROVE  /\ Elements(g, lead) \in Seq((DOMAIN g.variants \ {Root}) \cup Tokens)
         /\ Len(Elements(g, lead)) \in Nat \ {0}
         /\ DOMAIN Elements(g, lead) = 1..Len(Elements(g, lead))
<1> DEFINE Symbols == (DOMAIN g.variants \ {Root}) \cup Tokens
           e == Elements(g, lead)
<1>1. g.variants[lead.rule] \in Seq(Seq(Symbols) \ { <<>> })
  BY DEF Grammatical, IsLead, IsRule, Root
<1>2. e \in Seq(Symbols) \ { <<>> }
  BY <1>1, ElementOfSeq, LenProperties DEF IsLead, Elements
<1> HIDE DEF e
<1>3. Len(e) \in Nat /\ DOMAIN e = 1..Len(e) /\ Len(e) # 0
  BY <1>2, LenProperties, EmptySeq
<1> QED
  BY <1>2, <1>3 DEF e

\* The symbol after the dot is an element of the variant, or nil.
LEMMA AfterFacts ==
  ASSUME NEW g, Grammatical(g), NEW lead, IsLead(g, lead)
  PROVE  /\ Over(g, lead) <=> After(g, lead) = Nil
         /\ ~Over(g, lead) => /\ lead.position + 1 \in 1..Len(Elements(g, lead))
                              /\ After(g, lead) = Elements(g, lead)[lead.position + 1]
                              /\ After(g, lead) \in (DOMAIN g.variants \ {Root}) \cup Tokens
<1> DEFINE e == Elements(g, lead)
           Symbols == (DOMAIN g.variants \ {Root}) \cup Tokens
<1>1. e \in Seq(Symbols) /\ Len(e) \in Nat /\ DOMAIN e = 1..Len(e)
  BY VariantFacts
<1>2. lead.position \in 0..Len(e)
  BY DEF IsLead
<1>3. After(g, lead) = IF lead.position < Len(e) THEN e[lead.position + 1] ELSE Nil
  BY <1>2 DEF After, variant_get_symbol, Elements
<1>4. Over(g, lead) <=> lead.position = Len(e)
  BY DEF Over
<1>5. Nil \notin Symbols
  BY TokensAssumption DEF Grammatical
<1> HIDE DEF e, Symbols
<1>6. CASE lead.position < Len(e)
  <2>1. lead.position + 1 \in 1..Len(e)
    BY <1>1, <1>2, <1>6
  <2>2. e[lead.position + 1] \in Symbols
    BY <1>1, <2>1, ElementOfSeq
  <2> QED
    BY <1>1, <1>2, <1>3, <1>4, <1>5, <1>6, <2>1, <2>2 DEF e, Symbols
<1>7. CASE ~(lead.position < Len(e))
  BY <1>1, <1>2, <1>3, <1>4, <1>7 DEF e
<1> QED
  BY <1>6, <1>7

\* What a function gives for a finite set is finite.
LEMMA ImageFinite ==
  ASSUME NEW S, IsFiniteSet(S), NEW f
  PROVE  IsFiniteSet({ f[x] : x \in S })
<1> DEFINE T == { f[x] : x \in S }
           h == [x \in S |-> f[x]]
<1>1. h \in Surjection(S, T)
  BY DEF Surjection
<1> HIDE DEF h, T
<1>2. IsFiniteSet(T)
  BY <1>1, FS_Surjection
<1> QED
  BY <1>2 DEF T

-----------------------------------------------------------------------------
(* gather_leads.                                                           *)

LEMMA ExpandFacts ==
  ASSUME NEW g, Grammatical(g), NEW lead, IsLead(g, lead)
  PROVE  /\ IsFiniteSet(ExpandLead(g, lead))
         /\ \A x \in ExpandLead(g, lead) :
              /\ IsLead(g, x) /\ x.position = 0 /\ x.rule # Root
              /\ After(g, lead) = x.rule
<1> DEFINE tc == After(g, lead)
           tn == variant_get_symbol(g, lead, 1)
           follow == IF tn = Nil THEN lead.terminals ELSE gather_first(g, tn)
           New(v) == [rule |-> tc, variant |-> v, position |-> 0, terminals |-> follow]
<1>1. ExpandLead(g, lead) = IF ~IsRule(g, tc) THEN {} ELSE { New(v) : v \in DOMAIN g.variants[tc] }
  BY DEF ExpandLead, After
<1> HIDE DEF follow, tn
<1>2. CASE ~IsRule(g, tc)
  BY <1>1, <1>2, FS_EmptySet
<1>3. CASE IsRule(g, tc)
  <2>1. tc # Root
    <3>1. tc \notin Tokens \cup {Nil}
      BY <1>3 DEF Grammatical, IsRule
    <3> QED
      BY <3>1, AfterFacts
  <2>2. g.variants[tc] \in Seq(Seq((DOMAIN g.variants \ {Root}) \cup Tokens) \ { <<>> })
    BY <1>3 DEF Grammatical, IsRule, Root
  <2> DEFINE dom == DOMAIN g.variants[tc]
  <2>3. IsFiniteSet(dom)
    BY <2>2, LenProperties, FS_Interval
  <2> DEFINE f == [v \in dom |-> New(v)]
  <2>4. { New(v) : v \in dom } = { f[v] : v \in dom }
    OBVIOUS
  <2>5. IsFiniteSet(ExpandLead(g, lead))
    <3> HIDE DEF f
    <3> QED
      BY <1>1, <1>3, <2>3, <2>4, ImageFinite
  <2>6. ASSUME NEW v \in dom
        PROVE  /\ IsLead(g, New(v)) /\ New(v).position = 0 /\ New(v).rule # Root
               /\ tc = New(v).rule
    <3>1. g.variants[tc][v] \in Seq((DOMAIN g.variants \ {Root}) \cup Tokens)
      BY <2>2, ElementOfSeq, LenProperties
    <3>2. Len(g.variants[tc][v]) \in Nat
      BY <3>1, LenProperties
    <3> QED
      BY <1>3, <2>1, <3>2 DEF IsLead, Elements
  <2> HIDE DEF New, tc
  <2> QED
    BY <1>1, <1>3, <2>5, <2>6 DEF tc
<1> QED
  BY <1>2, <1>3

\* What gather_leads has so far: everything is of the kernel or was expanded.
Gathering(g, kernel, gathered) ==
  /\ gathered = [leads |-> gathered.leads, fresh |-> gathered.fresh]
  /\ IsFiniteSet(gathered.leads)
  /\ kernel \subseteq gathered.leads
  /\ gathered.fresh \subseteq gathered.leads
  /\ \A x \in gathered.leads :
       /\ IsLead(g, x)
       /\ x \in kernel \/ \E y \in gathered.leads : x \in ExpandLead(g, y)

LEMMA GatheringGoesOn ==
  ASSUME NEW g, Grammatical(g), NEW kernel, NEW gathered, Gathering(g, kernel, gathered)
  PROVE  Gathering(g, kernel, GatherMore(g, gathered))
<1> DEFINE all == gathered.leads
           fresh == gathered.fresh
           Expand == [lead \in fresh |-> ExpandLead(g, lead)]
           found == (UNION { ExpandLead(g, lead) : lead \in fresh }) \ all
<1>1. IsFiniteSet(all) /\ fresh \subseteq all /\ IsFiniteSet(fresh)
  BY FS_Subset DEF Gathering
<1>2. \A lead \in fresh : IsLead(g, lead)
  BY DEF Gathering
<1>3. IsFiniteSet(found)
  <2>1. IsFiniteSet({ Expand[lead] : lead \in fresh })
    <3> HIDE DEF Expand, fresh
    <3> QED
      BY <1>1, ImageFinite
  <2>2. { Expand[lead] : lead \in fresh } = { ExpandLead(g, lead) : lead \in fresh }
    OBVIOUS
  <2>3. \A T \in { ExpandLead(g, lead) : lead \in fresh } : IsFiniteSet(T)
    BY <1>2, ExpandFacts
  <2>4. IsFiniteSet(UNION { ExpandLead(g, lead) : lead \in fresh })
    BY <2>1, <2>2, <2>3, FS_UNION
  <2> QED
    BY <2>4, FS_Difference
<1>4. IsFiniteSet(all \cup found)
  BY <1>1, <1>3, FS_Union
<1>5. \A x \in found : IsLead(g, x) /\ \E y \in all : x \in ExpandLead(g, y)
  BY <1>1, <1>2, ExpandFacts
<1>6. GatherMore(g, gathered) = [leads |-> all \cup found, fresh |-> found]
  BY DEF GatherMore
<1> HIDE DEF found
<1> QED
  BY <1>1, <1>4, <1>5, <1>6 DEF Gathering

LEMMA GatherFacts ==
  ASSUME NEW g, Grammatical(g), NEW kernel, IsFiniteSet(kernel), \A x \in kernel : IsLead(g, x)
  PROVE  /\ IsFiniteSet(gather_leads(g, kernel))
         /\ kernel \subseteq gather_leads(g, kernel)
         /\ \A x \in gather_leads(g, kernel) :
              /\ IsLead(g, x)
              /\ x \in kernel \/ \E y \in gather_leads(g, kernel) : x \in ExpandLead(g, y)
<1> DEFINE most == 2 * Len(g.rules) + 1
           start == [leads |-> kernel, fresh |-> kernel]
           More(n, h) == h = [c \in 0..n |-> IF c = 0 THEN start ELSE GatherMore(g, h[c - 1])]
<1>1. most \in Nat
  BY LenProperties DEF Grammatical
<1>2. gather_leads(g, kernel) = (CHOOSE h : More(most, h))[most].leads
  BY DEF gather_leads
<1> HIDE DEF start
<1>3. \E h : More(most, h)
  <2> DEFINE Bad == { n \in Nat : ~\E h : More(n, h) }
  <2> SUFFICES Bad = {}
    BY <1>1
  <2> SUFFICES ASSUME Bad # {} PROVE FALSE
    OBVIOUS
  <2>1. PICK n \in Bad : \A k \in Bad : n <= k
    <3> Bad \in SUBSET Nat
      OBVIOUS
    <3> HIDE DEF Bad
    <3> QED
      BY LeastNumber
  <2>2. n \in Nat /\ ~\E h : More(n, h)
    OBVIOUS
  <2>3. n # 0
    <3> DEFINE h == [c \in 0..0 |-> start]
    <3>1. More(0, h)
      OBVIOUS
    <3> QED
      BY <2>2, <3>1
  <2>4. n - 1 \in Nat /\ ~(n <= n - 1)
    BY <2>2, <2>3
  <2>5. PICK h : More(n - 1, h)
    BY <2>1, <2>4
  <2> DEFINE i == [c \in 0..n |-> IF c = 0 THEN start ELSE GatherMore(g, h[c - 1])]
  <2>6. \A c \in 0..(n - 1) : i[c] = h[c]
    BY <2>2, <2>4, <2>5
  <2>7. \A c \in 0..n : c # 0 => c - 1 \in 0..(n - 1)
    BY <2>2
  <2>8. i = [c \in 0..n |-> IF c = 0 THEN start ELSE GatherMore(g, i[c - 1])]
    <3> DEFINE j == [c \in 0..n |-> IF c = 0 THEN start ELSE GatherMore(g, i[c - 1])]
    <3>1. \A c \in 0..n : i[c] = j[c]
      <4> SUFFICES ASSUME NEW c \in 0..n PROVE i[c] = j[c]
        OBVIOUS
      <4>1. CASE c = 0
        BY <4>1
      <4>2. CASE c # 0
        <5>1. i[c - 1] = h[c - 1]
          <6> HIDE DEF i
          <6> QED
            BY <2>6, <2>7, <4>2
        <5>2. i[c] = GatherMore(g, h[c - 1]) /\ j[c] = GatherMore(g, i[c - 1])
          BY <4>2
        <5> QED
          BY <5>1, <5>2
      <4> QED
        BY <4>1, <4>2
    <3> QED
      BY <3>1
  <2> QED
    BY <2>2, <2>8
<1>4. PICK h : More(most, h) /\ gather_leads(g, kernel) = h[most].leads
  BY <1>2, <1>3
<1> DEFINE Bad == { c \in 0..most : ~Gathering(g, kernel, h[c]) }
<1>5. Bad = {}
  <2> SUFFICES ASSUME Bad # {} PROVE FALSE
    OBVIOUS
  <2>1. PICK c \in Bad : \A k \in Bad : c <= k
    <3> Bad \in SUBSET Nat
      BY <1>1
    <3> HIDE DEF Bad
    <3> QED
      BY LeastNumber
  <2>2. c \in 0..most /\ ~Gathering(g, kernel, h[c])
    OBVIOUS
  <2> HIDE DEF most
  <2>3. CASE c = 0
    <3>1. h[c] = start
      BY <1>4, <2>2, <2>3
    <3> QED
      BY <2>2, <3>1 DEF Gathering, start
  <2>4. CASE c # 0
    <3>1. c - 1 \in 0..most /\ ~(c <= c - 1)
      BY <1>1, <2>2, <2>4
    <3>2. Gathering(g, kernel, h[c - 1])
      BY <2>1, <3>1
    <3>3. h[c] = GatherMore(g, h[c - 1])
      BY <1>4, <2>2, <2>4
    <3> QED
      BY <2>2, <3>2, <3>3, GatheringGoesOn
  <2> QED
    BY <2>3, <2>4
<1>6. most \in 0..most
  BY <1>1
<1>7. Gathering(g, kernel, h[most])
  BY <1>5, <1>6
<1> QED
  BY <1>4, <1>7 DEF Gathering

-----------------------------------------------------------------------------
(* consolidate_leads: nothing gets lost by sorting and merging.            *)

LEMMA RankOfRule ==
  ASSUME NEW g, Grammatical(g)
  PROVE  \A r \in DOMAIN g.variants :
           LET rank == CHOOSE n \in DOMAIN g.rules : g.rules[n] = r
           IN  rank \in Nat /\ g.rules[rank] = r
<1>1. DOMAIN g.rules \subseteq Nat
  BY LenProperties DEF Grammatical
<1>2. \A r \in DOMAIN g.variants : \E n \in DOMAIN g.rules : g.rules[n] = r
  BY DEF Grammatical
<1> QED
  BY <1>1, <1>2

\* The leads of a state before they are put in order.
Merged(leads) == { [lead EXCEPT !.terminals = MergedTerminals(leads, lead)] : lead \in leads }

\* compare_leads orders the merged leads strictly.
LEMMA StrictOrder ==
  ASSUME NEW g, Grammatical(g), NEW leads, \A x \in leads : IsLead(g, x)
  PROVE  /\ \A l \in Merged(leads) : ~LeadBefore(g, l, l)
         /\ \A l, m, n \in Merged(leads) : LeadBefore(g, l, m) /\ LeadBefore(g, m, n) => LeadBefore(g, l, n)
         /\ \A l, m \in Merged(leads) : l # m => LeadBefore(g, l, m) \/ LeadBefore(g, m, l)
         /\ \A l \in Merged(leads) :
              /\ IsLead(g, l)
              /\ \E x \in leads : SameCore(x, l)
              /\ l.rule = Root /\ (\A x \in leads : x.rule = Root => x.terminals = {TKN_EOF}) =>
                   l.terminals = {TKN_EOF}
         /\ \A x \in leads : \E l \in Merged(leads) : SameCore(x, l)
<1> DEFINE rank(r) == CHOOSE n \in DOMAIN g.rules : g.rules[n] = r
<1>1. \A r \in DOMAIN g.variants : rank(r) \in Nat /\ g.rules[rank(r)] = r
  BY RankOfRule
<1>2. \A l, m : LeadBefore(g, l, m) <=>
                  \/ rank(l.rule) < rank(m.rule)
                  \/ l.rule = m.rule /\ l.variant < m.variant
                  \/ l.rule = m.rule /\ l.variant = m.variant /\ l.position < m.position
  BY DEF LeadBefore
<1> HIDE DEF rank
<1>3. ASSUME NEW x \in leads
      PROVE  LET l == [x EXCEPT !.terminals = MergedTerminals(leads, x)]
             IN  /\ l = [rule |-> x.rule, variant |-> x.variant, position |-> x.position,
                         terminals |-> MergedTerminals(leads, x)]
                 /\ IsLead(g, l) /\ SameCore(x, l)
  <2>1. /\ x = [rule |-> x.rule, variant |-> x.variant, position |-> x.position, terminals |-> x.terminals]
        /\ IsRule(g, x.rule) /\ x.variant \in DOMAIN g.variants[x.rule]
        /\ x.position \in 0..Len(g.variants[x.rule][x.variant])
    BY DEF IsLead, Elements
  <2>2. [x EXCEPT !.terminals = MergedTerminals(leads, x)] =
          [rule |-> x.rule, variant |-> x.variant, position |-> x.position,
           terminals |-> MergedTerminals(leads, x)]
    BY <2>1
  <2> QED
    BY <2>1, <2>2 DEF IsLead, Elements, SameCore
<1>4. \A l \in Merged(leads) :
        /\ IsLead(g, l)
        /\ \E x \in leads : SameCore(x, l)
        /\ l.terminals = MergedTerminals(leads, l)
  <2> SUFFICES ASSUME NEW x \in leads,
                      NEW l, l = [x EXCEPT !.terminals = MergedTerminals(leads, x)]
               PROVE  /\ IsLead(g, l) /\ SameCore(x, l)
                      /\ l.terminals = MergedTerminals(leads, l)
    BY DEF Merged
  <2>1. IsLead(g, l) /\ SameCore(x, l) /\ l.terminals = MergedTerminals(leads, x)
    BY <1>3
  <2>2. MergedTerminals(leads, x) = MergedTerminals(leads, l)
    BY <2>1 DEF MergedTerminals, SameCore
  <2> QED
    BY <2>1, <2>2
<1>5. \A l, m \in Merged(leads) : SameCore(l, m) => l = m
  <2> SUFFICES ASSUME NEW l \in Merged(leads), NEW m \in Merged(leads), SameCore(l, m) PROVE l = m
    OBVIOUS
  <2>1. MergedTerminals(leads, l) = MergedTerminals(leads, m)
    BY DEF MergedTerminals, SameCore
  <2> QED
    BY <1>4, <2>1 DEF IsLead, SameCore
<1>6. \A l \in Merged(leads) : /\ rank(l.rule) \in Nat /\ g.rules[rank(l.rule)] = l.rule
                               /\ l.variant \in Nat /\ l.position \in Nat
  <2> SUFFICES ASSUME NEW l \in Merged(leads)
               PROVE  /\ rank(l.rule) \in Nat /\ g.rules[rank(l.rule)] = l.rule
                      /\ l.variant \in Nat /\ l.position \in Nat
    OBVIOUS
  <2>1. IsLead(g, l)
    BY <1>4
  <2>2. l.rule \in DOMAIN g.variants /\ l.position \in Nat
    BY <2>1, VariantFacts DEF IsLead, IsRule
  <2>3. l.variant \in Nat
    <3>1. g.variants[l.rule] \in Seq(Seq((DOMAIN g.variants \ {Root}) \cup Tokens) \ { <<>> })
      BY <2>2 DEF Grammatical, Root
    <3>2. DOMAIN g.variants[l.rule] = 1..Len(g.variants[l.rule])
      BY <3>1, LenProperties
    <3> QED
      BY <2>1, <3>2 DEF IsLead
  <2> QED
    BY <1>1, <2>2, <2>3
<1>7. \A l \in Merged(leads) : ~LeadBefore(g, l, l)
  BY <1>2, <1>6
<1>8. \A l, m, n \in Merged(leads) : LeadBefore(g, l, m) /\ LeadBefore(g, m, n) => LeadBefore(g, l, n)
  <2> SUFFICES ASSUME NEW l \in Merged(leads), NEW m \in Merged(leads), NEW n \in Merged(leads),
                      LeadBefore(g, l, m), LeadBefore(g, m, n)
               PROVE  LeadBefore(g, l, n)
    OBVIOUS
  <2> QED
    BY <1>2, <1>6
<1>9. \A l, m \in Merged(leads) : l # m => LeadBefore(g, l, m) \/ LeadBefore(g, m, l)
  <2> SUFFICES ASSUME NEW l \in Merged(leads), NEW m \in Merged(leads), ~SameCore(l, m)
               PROVE  LeadBefore(g, l, m) \/ LeadBefore(g, m, l)
    BY <1>5
  <2>1. rank(l.rule) = rank(m.rule) => l.rule = m.rule
    BY <1>6
  <2> QED
    BY <1>2, <1>6, <2>1 DEF SameCore
<1>10. ASSUME NEW l \in Merged(leads), l.rule = Root, \A x \in leads : x.rule = Root => x.terminals = {TKN_EOF}
       PROVE  l.terminals = {TKN_EOF}
  <2>1. PICK x \in leads : SameCore(x, l)
    BY <1>4
  <2>2. \A y \in { z \in leads : SameCore(z, l) } : y.terminals = {TKN_EOF}
    BY <1>10 DEF SameCore
  <2> QED
    BY <1>4, <2>1, <2>2 DEF MergedTerminals
<1>11. \A x \in leads : \E l \in Merged(leads) : SameCore(x, l)
  BY <1>3 DEF Merged
<1> QED
  BY <1>4, <1>7, <1>8, <1>9, <1>10, <1>11

\* In a finite set with a strict order there is for every number below its
\* cardinality a member with so many members before it.
LEMMA MembersByRank ==
  ASSUME NEW S, IsFiniteSet(S), NEW before,
         \A l \in S : <<l, l>> \notin before,
         \A l, m, n \in S : <<l, m>> \in before /\ <<m, n>> \in before => <<l, n>> \in before,
         \A l, m \in S : l # m => <<l, m>> \in before \/ <<m, l>> \in before
  PROVE  LET rank(l) == Cardinality({ m \in S : <<m, l>> \in before })
         IN  /\ \A l \in S : rank(l) \in 0..(Cardinality(S) - 1)
             /\ \A k \in 0..(Cardinality(S) - 1) : \E l \in S : rank(l) = k
             /\ \A l, m \in S : rank(l) = rank(m) => l = m
<1> DEFINE Below(l) == { m \in S : <<m, l>> \in before }
           rank(l) == Cardinality(Below(l))
           N == Cardinality(S)
           R == 0..(N - 1)
           f == [l \in S |-> rank(l)]
<1>1. N \in Nat
  BY FS_CardinalityType
<1>2. \A l \in S : IsFiniteSet(Below(l)) /\ rank(l) \in Nat
  BY FS_Subset, FS_CardinalityType
<1>3. ASSUME NEW l \in S, NEW m \in S, <<l, m>> \in before
      PROVE  rank(l) < rank(m)
  <2>1. Below(l) \in SUBSET Below(m) /\ Below(l) # Below(m)
    BY <1>3
  <2> HIDE DEF Below
  <2>2. Cardinality(Below(l)) <= Cardinality(Below(m)) /\ Cardinality(Below(l)) # Cardinality(Below(m))
    BY <1>2, <2>1, FS_Subset
  <2> QED
    BY <1>2, <2>2
<1>4. \A l, m \in S : rank(l) = rank(m) => l = m
  <2> SUFFICES ASSUME NEW l \in S, NEW m \in S, rank(l) = rank(m), l # m PROVE FALSE
    OBVIOUS
  <2>1. <<l, m>> \in before \/ <<m, l>> \in before
    OBVIOUS
  <2>2. rank(l) < rank(m) \/ rank(m) < rank(l)
    BY <1>3, <2>1
  <2>3. rank(l) \in Nat /\ rank(m) \in Nat
    BY <1>2
  <2> DEFINE i == rank(l)
             j == rank(m)
  <2>4. i \in Nat /\ j \in Nat /\ i = j /\ (i < j \/ j < i)
    BY <2>2, <2>3
  <2> HIDE DEF i, j
  <2> QED
    BY <2>4
<1>5. \A l \in S : rank(l) \in R
  <2> SUFFICES ASSUME NEW l \in S PROVE rank(l) \in R
    OBVIOUS
  <2>1. Below(l) \in SUBSET S /\ Below(l) # S
    OBVIOUS
  <2> HIDE DEF Below
  <2>2. Cardinality(Below(l)) <= N /\ Cardinality(Below(l)) # N
    BY <2>1, FS_Subset
  <2> QED
    BY <1>1, <1>2, <2>2
<1>6. IsFiniteSet(R) /\ Cardinality(R) = N
  <2>1. 0 \in Int /\ N - 1 \in Int
    BY <1>1
  <2>2. IsFiniteSet(R) /\ Cardinality(R) = IF 0 > N - 1 THEN 0 ELSE (N - 1) - 0 + 1
    BY <2>1, FS_Interval
  <2> QED
    BY <1>1, <2>2
<1>7. f \in Injection(S, R)
  <2> HIDE DEF rank, R
  <2> QED
    BY <1>4, <1>5 DEF Injection, IsInjective
<1>8. f \in Surjection(S, R)
  <2> HIDE DEF f, R, N
  <2>1. Cardinality(S) = Cardinality(R)
    BY <1>6 DEF N
  <2> QED
    BY <1>6, <1>7, <2>1, FS_Injection
<1>9. \A k \in R : \E l \in S : rank(l) = k
  <2> HIDE DEF rank, R
  <2> QED
    BY <1>8 DEF Surjection
<1> QED
  BY <1>4, <1>5, <1>9

LEMMA ConsolidateFacts ==
  ASSUME NEW g, Grammatical(g), NEW leads, IsFiniteSet(leads), \A x \in leads : IsLead(g, x)
  PROVE  /\ consolidate_leads(g, leads) \in Seq(Merged(leads))
         /\ \A l \in Merged(leads) :
              \E n \in DOMAIN consolidate_leads(g, leads) : consolidate_leads(g, leads)[n] = l
<1> DEFINE M == Merged(leads)
           before == { p \in M \X M : LeadBefore(g, p[1], p[2]) }
           rank(l) == Cardinality({ m \in M : <<m, l>> \in before })
           N == Cardinality(M)
           c == consolidate_leads(g, leads)
<1>1. IsFiniteSet(M) /\ N \in Nat
  <2> DEFINE f == [lead \in leads |-> [lead EXCEPT !.terminals = MergedTerminals(leads, lead)]]
  <2>1. M = { f[x] : x \in leads }
    BY DEF Merged
  <2> HIDE DEF f, M
  <2> QED
    BY <2>1, ImageFinite, FS_CardinalityType
<1>2. \A l, m \in M : <<l, m>> \in before <=> LeadBefore(g, l, m)
  OBVIOUS
<1>3. /\ \A l \in M : <<l, l>> \notin before
      /\ \A l, m, n \in M : <<l, m>> \in before /\ <<m, n>> \in before => <<l, n>> \in before
      /\ \A l, m \in M : l # m => <<l, m>> \in before \/ <<m, l>> \in before
  <2> HIDE DEF before, M
  <2>1. /\ \A l \in M : ~LeadBefore(g, l, l)
        /\ \A l, m, n \in M : LeadBefore(g, l, m) /\ LeadBefore(g, m, n) => LeadBefore(g, l, n)
        /\ \A l, m \in M : l # m => LeadBefore(g, l, m) \/ LeadBefore(g, m, l)
    BY StrictOrder DEF M
  <2> QED
    BY <1>2, <2>1
<1>4. /\ \A l \in M : rank(l) \in 0..(N - 1)
      /\ \A k \in 0..(N - 1) : \E l \in M : rank(l) = k
      /\ \A l, m \in M : rank(l) = rank(m) => l = m
  <2> HIDE DEF before, M
  <2> QED
    BY <1>1, <1>3, MembersByRank, Zenon
<1>5. \A l \in M : Cardinality({ m \in M : LeadBefore(g, m, l) }) = rank(l)
  <2> SUFFICES ASSUME NEW l \in M PROVE Cardinality({ m \in M : LeadBefore(g, m, l) }) = rank(l)
    OBVIOUS
  <2>1. { m \in M : LeadBefore(g, m, l) } = { m \in M : <<m, l>> \in before }
    <3> HIDE DEF before, M
    <3> QED
      BY <1>2
  <2> QED
    BY <2>1
<1>6. c = [n \in 1..N |-> CHOOSE l \in M : Cardinality({ m \in M : LeadBefore(g, m, l) }) = n - 1]
  BY DEF consolidate_leads, Merged
<1> HIDE DEF before, M, rank, N, c
<1>7. ASSUME NEW n \in 1..N PROVE c[n] \in M /\ rank(c[n]) = n - 1
  <2>1. n - 1 \in 0..(N - 1)
    BY <1>1
  <2>2. \E l \in M : Cardinality({ m \in M : LeadBefore(g, m, l) }) = n - 1
    BY <1>4, <1>5, <2>1
  <2>3. c[n] \in M /\ Cardinality({ m \in M : LeadBefore(g, m, c[n]) }) = n - 1
    BY <1>6, <2>2
  <2> QED
    BY <1>5, <2>3
<1>8. c \in Seq(M)
  <2> DEFINE pick(n) == CHOOSE l \in M : Cardinality({ m \in M : LeadBefore(g, m, l) }) = n - 1
  <2>1. c = [n \in 1..N |-> c[n]]
    <3>1. c = [n \in 1..N |-> pick(n)]
      BY <1>6
    <3> HIDE DEF pick
    <3> QED
      BY <3>1
  <2> QED
    BY <1>1, <1>7, <2>1, IsASeq
<1>9. ASSUME NEW l \in M PROVE \E n \in DOMAIN c : c[n] = l
  <2>1. rank(l) + 1 \in 1..N
    BY <1>1, <1>4
  <2>2. c[rank(l) + 1] \in M /\ rank(c[rank(l) + 1]) = (rank(l) + 1) - 1
    BY <1>7, <2>1
  <2>3. rank(l) \in Int
    BY <1>1, <1>4
  <2>4. rank(c[rank(l) + 1]) = rank(l)
    BY <2>2, <2>3
  <2>5. c[rank(l) + 1] = l
    BY <1>4, <2>2, <2>4
  <2>6. DOMAIN c = 1..N
    BY <1>6
  <2> QED
    BY <2>1, <2>5, <2>6
<1> QED
  BY <1>8, <1>9 DEF c, M

-----------------------------------------------------------------------------
(* What a new state consists of.                                           *)

LeadSet(s) == { s.leads[k] : k \in DOMAIN s.leads }

\* Every lead at the start of a variant of a rule was expanded from a lead with
\* its dot before the rule; only the end of the file follows grammar_root.
WellLabelled(g, S) ==
  /\ \A x \in S : IsLead(g, x)
  /\ \A x \in S : x.position = 0 /\ x.rule # Root => \E y \in S : After(g, y) = x.rule
  /\ \A x \in S : x.rule = Root => x.terminals = {TKN_EOF}

Kernel(g, kernel) ==
  /\ IsFiniteSet(kernel)
  /\ \A x \in kernel : /\ IsLead(g, x)
                       /\ x.position = 0 => x.rule = Root
                       /\ x.rule = Root => x.terminals = {TKN_EOF}

IsSeq(s) == \E S : s \in Seq(S)
Shape(s) ==
  /\ s = [leads |-> s.leads, token_actions |-> s.token_actions, rule_actions |-> s.rule_actions]
  /\ IsSeq(s.leads) /\ IsSeq(s.token_actions) /\ IsSeq(s.rule_actions)

LEMMA NewStateFacts ==
  ASSUME NEW g, Grammatical(g), NEW kernel, Kernel(g, kernel)
  PROVE  LET s == NewState(g, kernel)
         IN  /\ Shape(s) /\ s.token_actions = <<>> /\ s.rule_actions = <<>>
             /\ WellLabelled(g, LeadSet(s))
             /\ \A x \in LeadSet(s) : x.position > 0 \/ x.rule = Root => \E y \in kernel : SameCore(y, x)
             /\ \A y \in kernel : \E x \in LeadSet(s) : SameCore(y, x)
<1> DEFINE leads == gather_leads(g, kernel)
           c == consolidate_leads(g, leads)
           s == NewState(g, kernel)
           M == Merged(leads)
<1>1. /\ IsFiniteSet(leads) /\ kernel \subseteq leads
      /\ \A x \in leads : /\ IsLead(g, x)
                          /\ x \in kernel \/ \E y \in leads : x \in ExpandLead(g, y)
  BY GatherFacts DEF Kernel
<1>2. s = [leads |-> c, token_actions |-> <<>>, rule_actions |-> <<>>]
  BY DEF NewState
<1>3. c \in Seq(M) /\ \A l \in M : \E n \in DOMAIN c : c[n] = l
  BY <1>1, ConsolidateFacts
<1>4. LeadSet(s) = M
  <2> HIDE DEF c, M
  <2>1. \A n \in DOMAIN c : c[n] \in M
    BY <1>3, ElementOfSeq, LenProperties
  <2> QED
    BY <1>2, <1>3, <2>1 DEF LeadSet
<1>5. Shape(s) /\ s.token_actions = <<>> /\ s.rule_actions = <<>>
  <2> HIDE DEF c
  <2>1. IsSeq(c) /\ IsSeq(<<>>)
    BY <1>3, EmptySeq DEF IsSeq
  <2> QED
    BY <1>2, <2>1 DEF Shape
<1> HIDE DEF leads, c, s
<1>6. \A x \in leads : x \in kernel \/ (x.position = 0 /\ x.rule # Root /\ \E y \in leads : After(g, y) = x.rule)
  BY <1>1, ExpandFacts
<1>7. /\ \A x \in leads : x.rule = Root => x.terminals = {TKN_EOF}
      /\ \A x \in leads : x.position = 0 /\ x.rule # Root => \E y \in leads : After(g, y) = x.rule
  BY <1>6 DEF Kernel
<1>8. /\ \A l \in M : /\ IsLead(g, l)
                      /\ \E x \in leads : SameCore(x, l)
                      /\ l.rule = Root => l.terminals = {TKN_EOF}
      /\ \A x \in leads : \E l \in M : SameCore(x, l)
  BY <1>1, <1>7, StrictOrder
<1>9. \A x, y : SameCore(x, y) => After(g, x) = After(g, y)
  BY DEF SameCore, After, variant_get_symbol
<1> HIDE DEF M
<1>10. \A l \in M : l.position = 0 /\ l.rule # Root => \E m \in M : After(g, m) = l.rule
  <2> SUFFICES ASSUME NEW l \in M, l.position = 0, l.rule # Root PROVE \E m \in M : After(g, m) = l.rule
    OBVIOUS
  <2>1. PICK x \in leads : SameCore(x, l)
    BY <1>8
  <2>2. PICK y \in leads : After(g, y) = l.rule
    BY <1>7, <2>1 DEF SameCore
  <2>3. PICK m \in M : SameCore(y, m)
    BY <1>8
  <2> QED
    BY <1>9, <2>2, <2>3
<1>11. \A l \in M : l.position > 0 \/ l.rule = Root => \E y \in kernel : SameCore(y, l)
  <2> SUFFICES ASSUME NEW l \in M, l.position > 0 \/ l.rule = Root PROVE \E y \in kernel : SameCore(y, l)
    OBVIOUS
  <2>1. PICK x \in leads : SameCore(x, l)
    BY <1>8
  <2>2. x \in kernel
    BY <1>6, <2>1 DEF SameCore
  <2> QED
    BY <2>1, <2>2
<1>12. \A y \in kernel : \E l \in M : SameCore(y, l)
  BY <1>1, <1>8
<1> QED
  BY <1>4, <1>5, <1>8, <1>10, <1>11, <1>12 DEF WellLabelled, s

-----------------------------------------------------------------------------
(* The automaton: what the rows of every state stand for.                  *)

\* y is x with its dot one symbol further to the left.
Behind(y, x) == y.rule = x.rule /\ y.variant = x.variant /\ y.position + 1 = x.position

\* The dots of T have just moved over the symbol, from leads of S.
Goes(g, S, symbol, T) ==
  /\ \A x \in T : x.position > 0 => /\ Elements(g, x)[x.position] = symbol
                                    /\ \E y \in S : Behind(y, x)
  /\ \A x \in T : x.rule = Root => x.position > 0

Number(sts, n) == n \in Nat /\ n + 1 \in DOMAIN sts

ActionFits(g, sts, k, a) ==
  \/ /\ a.rule = Nil /\ Number(sts, a.state)
     /\ \E symbol \in Tokens : /\ a.tokens = {symbol}
                               /\ Goes(g, LeadSet(sts[k]), symbol, LeadSet(sts[a.state + 1]))
  \/ \E x \in LeadSet(sts[k]) :
       Over(g, x) /\ a.tokens = x.terminals /\ a.rule = x.rule /\ a.length = x.position

GotoFits(g, sts, k, a) ==
  /\ Number(sts, a.state)
  /\ IsRule(g, a.rule)
  /\ Goes(g, LeadSet(sts[k]), a.rule, LeadSet(sts[a.state + 1]))

Automaton(g, sts) ==
  /\ IsSeq(sts) /\ sts # <<>>
  /\ \A k \in DOMAIN sts :
       /\ Shape(sts[k])
       /\ WellLabelled(g, LeadSet(sts[k]))
       /\ \A n \in DOMAIN sts[k].token_actions : ActionFits(g, sts, k, sts[k].token_actions[n])
       /\ \A n \in DOMAIN sts[k].rule_actions : GotoFits(g, sts, k, sts[k].rule_actions[n])
  /\ \A x \in LeadSet(sts[1]) : x.position = 0

\* The state has a goto for every rule behind a dot of its leads before n.
Passed(g, s, n) ==
  \A m \in DOMAIN s.leads :
    m < n /\ IsRule(g, After(g, s.leads[m])) =>
      \E i \in DOMAIN s.rule_actions : s.rule_actions[i].rule = After(g, s.leads[m])

Closed(g, s) ==
  \A x \in LeadSet(s) : IsRule(g, After(g, x)) =>
    \E i \in DOMAIN s.rule_actions : s.rule_actions[i].rule = After(g, x)

LEMMA SeqGrows ==
  ASSUME NEW s, IsSeq(s), NEW a
  PROVE  /\ IsSeq(Append(s, a)) /\ Append(s, a) # <<>>
         /\ Len(s) \in Nat /\ DOMAIN s = 1..Len(s)
         /\ DOMAIN Append(s, a) = 1..(Len(s) + 1)
         /\ \A n \in DOMAIN s : Append(s, a)[n] = s[n]
         /\ Append(s, a)[Len(s) + 1] = a
<1>1. PICK S : s \in Seq(S)
  BY DEF IsSeq
<1> DEFINE T == S \cup {a}
<1>2. s \in Seq(T)
  BY <1>1, SeqMonotonic
<1>3. a \in T
  OBVIOUS
<1> HIDE DEF T
<1>4. /\ Append(s, a) \in Seq(T) /\ Append(s, a) # <<>>
      /\ Len(s) \in Nat /\ DOMAIN s = 1..Len(s) /\ Len(Append(s, a)) = Len(s) + 1
      /\ \A n \in 1..Len(s) : Append(s, a)[n] = s[n]
      /\ Append(s, a)[Len(s) + 1] = a
  BY <1>2, <1>3, AppendProperties, LenProperties
<1>5. DOMAIN Append(s, a) = 1..(Len(s) + 1)
  BY <1>4, LenProperties
<1> QED
  BY <1>4, <1>5 DEF IsSeq

\* Rows go on fitting when states are added and no state changes its leads.
LEMMA FitsKept ==
  ASSUME NEW g, NEW sts, NEW t,
         DOMAIN sts \subseteq DOMAIN t,
         \A j \in DOMAIN sts : LeadSet(t[j]) = LeadSet(sts[j]),
         NEW k \in DOMAIN sts, NEW a
  PROVE  /\ ActionFits(g, sts, k, a) => ActionFits(g, t, k, a)
         /\ GotoFits(g, sts, k, a) => GotoFits(g, t, k, a)
<1>1. ASSUME NEW n, Number(sts, n)
      PROVE  Number(t, n) /\ LeadSet(t[n + 1]) = LeadSet(sts[n + 1])
  BY <1>1 DEF Number
<1> QED
  BY <1>1 DEF ActionFits, GotoFits

LEMMA RowAdded ==
  ASSUME NEW g, NEW sts, Automaton(g, sts), NEW k \in DOMAIN sts, NEW a,
         NEW t, t = [sts EXCEPT ![k] = t[k]],
         Shape(t[k]), t[k].leads = sts[k].leads,
         \A n \in DOMAIN t[k].token_actions :
           \/ n \in DOMAIN sts[k].token_actions /\ t[k].token_actions[n] = sts[k].token_actions[n]
           \/ t[k].token_actions[n] = a /\ ActionFits(g, sts, k, a),
         \A n \in DOMAIN t[k].rule_actions :
           \/ n \in DOMAIN sts[k].rule_actions /\ t[k].rule_actions[n] = sts[k].rule_actions[n]
           \/ t[k].rule_actions[n] = a /\ GotoFits(g, sts, k, a)
  PROVE  Automaton(g, t)
<1>1. DOMAIN t = DOMAIN sts /\ \A j \in DOMAIN sts : j # k => t[j] = sts[j]
  OBVIOUS
<1>2. \A j \in DOMAIN sts : LeadSet(t[j]) = LeadSet(sts[j])
  BY <1>1 DEF LeadSet
<1>3. IsSeq(t) /\ t # <<>>
  <2>1. PICK S : sts \in Seq(S)
    BY DEF Automaton, IsSeq
  <2> DEFINE T == S \cup {t[k]}
  <2>2. DOMAIN sts = 1..Len(sts) /\ Len(sts) \in Nat /\ \A j \in 1..Len(sts) : sts[j] \in S
    BY <2>1, LenProperties, ElementOfSeq
  <2>3. \A j \in 1..Len(sts) : t[j] \in T
    BY <1>1, <2>2
  <2>4. t = [j \in 1..Len(sts) |-> t[j]]
    BY <1>1, <2>2
  <2>5. t \in Seq(T)
    <3> HIDE DEF T
    <3> QED
      BY <2>2, <2>3, <2>4, IsASeq
  <2>6. DOMAIN t # {}
    BY <1>1
  <2> HIDE DEF T
  <2> QED
    BY <2>5, <2>6, EmptySeq DEF IsSeq
<1>4. \A j \in DOMAIN sts : \A b : /\ ActionFits(g, sts, j, b) => ActionFits(g, t, j, b)
                                   /\ GotoFits(g, sts, j, b) => GotoFits(g, t, j, b)
  BY <1>1, <1>2, FitsKept
<1>5. 1 \in DOMAIN sts
  <2>1. PICK S : sts \in Seq(S) /\ sts # <<>>
    BY DEF Automaton, IsSeq
  <2> QED
    BY <2>1, LenProperties, EmptySeq
<1>6. ASSUME NEW j \in DOMAIN t
      PROVE  /\ Shape(t[j])
             /\ WellLabelled(g, LeadSet(t[j]))
             /\ \A n \in DOMAIN t[j].token_actions : ActionFits(g, t, j, t[j].token_actions[n])
             /\ \A n \in DOMAIN t[j].rule_actions : GotoFits(g, t, j, t[j].rule_actions[n])
  <2>1. /\ Shape(sts[j]) /\ WellLabelled(g, LeadSet(sts[j]))
        /\ \A n \in DOMAIN sts[j].token_actions : ActionFits(g, sts, j, sts[j].token_actions[n])
        /\ \A n \in DOMAIN sts[j].rule_actions : GotoFits(g, sts, j, sts[j].rule_actions[n])
    BY <1>1 DEF Automaton
  <2>2. CASE j # k
    BY <1>1, <1>2, <1>4, <2>1, <2>2
  <2>3. CASE j = k
    BY <1>2, <1>4, <2>1, <2>3
  <2> QED
    BY <2>2, <2>3
<1> QED
  BY <1>2, <1>3, <1>5, <1>6 DEF Automaton

LEMMA StateAdded ==
  ASSUME NEW g, NEW sts, Automaton(g, sts), NEW s, Shape(s),
         s.token_actions = <<>>, s.rule_actions = <<>>, WellLabelled(g, LeadSet(s))
  PROVE  Automaton(g, Append(sts, s))
<1> DEFINE t == Append(sts, s)
<1>1. /\ IsSeq(t) /\ t # <<>> /\ Len(sts) \in Nat /\ DOMAIN sts = 1..Len(sts)
      /\ DOMAIN t = 1..(Len(sts) + 1)
      /\ \A n \in DOMAIN sts : t[n] = sts[n]
      /\ t[Len(sts) + 1] = s
  BY SeqGrows DEF Automaton
<1> HIDE DEF t
<1>2. DOMAIN sts \subseteq DOMAIN t /\ \A j \in DOMAIN sts : LeadSet(t[j]) = LeadSet(sts[j])
  BY <1>1
<1>3. \A j \in DOMAIN sts : \A b : /\ ActionFits(g, sts, j, b) => ActionFits(g, t, j, b)
                                   /\ GotoFits(g, sts, j, b) => GotoFits(g, t, j, b)
  BY <1>2, FitsKept
<1>4. 1 \in DOMAIN sts
  <2>1. PICK S : sts \in Seq(S) /\ sts # <<>>
    BY DEF Automaton, IsSeq
  <2> QED
    BY <2>1, LenProperties, EmptySeq
<1>5. ASSUME NEW j \in DOMAIN t
      PROVE  /\ Shape(t[j])
             /\ WellLabelled(g, LeadSet(t[j]))
             /\ \A n \in DOMAIN t[j].token_actions : ActionFits(g, t, j, t[j].token_actions[n])
             /\ \A n \in DOMAIN t[j].rule_actions : GotoFits(g, t, j, t[j].rule_actions[n])
  <2>1. CASE j \in DOMAIN sts
    BY <1>1, <1>3, <2>1 DEF Automaton
  <2>2. CASE j = Len(sts) + 1
    <3>1. t[j] = s
      BY <1>1, <2>2
    <3>2. DOMAIN <<>> = {}
      OBVIOUS
    <3> QED
      BY <3>1, <3>2
  <2> QED
    BY <1>1, <2>1, <2>2
<1>6. \A x \in LeadSet(t[1]) : x.position = 0
  BY <1>2, <1>4 DEF Automaton
<1>7. Automaton(g, t)
  BY <1>1, <1>5, <1>6 DEF Automaton
<1> QED
  BY <1>7 DEF t

-----------------------------------------------------------------------------
(* gather_states keeps the automaton.                                      *)

\* The leads of a group, moved on, are the kernel of a state behind them.
MovedOver(g, s, symbol) ==
  { [s.leads[k] EXCEPT !.position = @ + 1] : k \in { j \in DOMAIN s.leads : After(g, s.leads[j]) = symbol } }

LEMMA MovedFacts ==
  ASSUME NEW g, Grammatical(g), NEW s, Shape(s), WellLabelled(g, LeadSet(s)),
         NEW symbol, symbol # Nil
  PROVE  /\ Kernel(g, MovedOver(g, s, symbol))
         /\ Goes(g, LeadSet(s), symbol, LeadSet(NewState(g, MovedOver(g, s, symbol))))
<1> DEFINE G == { j \in DOMAIN s.leads : After(g, s.leads[j]) = symbol }
           f == [k \in G |-> [s.leads[k] EXCEPT !.position = @ + 1]]
           K == { [s.leads[k] EXCEPT !.position = @ + 1] : k \in G }
           S == LeadSet(s)
           T == LeadSet(NewState(g, K))
<1>1. IsFiniteSet(K)
  <2>1. PICK Any : s.leads \in Seq(Any)
    BY DEF Shape, IsSeq
  <2>2. IsFiniteSet(DOMAIN s.leads)
    BY <2>1, LenProperties, FS_Interval
  <2>3. G \in SUBSET DOMAIN s.leads
    OBVIOUS
  <2>4. K = { f[k] : k \in G }
    OBVIOUS
  <2> HIDE DEF G, f, K
  <2>5. IsFiniteSet(G)
    BY <2>2, <2>3, FS_Subset
  <2> QED
    BY <2>4, <2>5, ImageFinite
<1>2. ASSUME NEW k \in G
      PROVE  LET x == s.leads[k]
                 y == [x EXCEPT !.position = @ + 1]
             IN  /\ x \in S /\ After(g, x) = symbol
                 /\ y = [rule |-> x.rule, variant |-> x.variant, position |-> x.position + 1, terminals |-> x.terminals]
                 /\ IsLead(g, y) /\ y.position > 0 /\ Elements(g, y)[y.position] = symbol
                 /\ y.rule = Root => y.terminals = {TKN_EOF}
                 /\ Behind(x, y)
  <2> DEFINE x == s.leads[k]
             y == [x EXCEPT !.position = @ + 1]
  <2>1. x \in S /\ After(g, x) = symbol
    BY DEF LeadSet
  <2>2. IsLead(g, x) /\ (x.rule = Root => x.terminals = {TKN_EOF})
    BY <2>1 DEF WellLabelled
  <2> HIDE DEF x, S
  <2>3. y = [rule |-> x.rule, variant |-> x.variant, position |-> x.position + 1, terminals |-> x.terminals]
    <3>1. x = [rule |-> x.rule, variant |-> x.variant, position |-> x.position, terminals |-> x.terminals]
      BY <2>2 DEF IsLead
    <3> QED
      BY <3>1
  <2> HIDE DEF y
  <2>4. x.position + 1 \in 1..Len(Elements(g, x)) /\ Elements(g, x)[x.position + 1] = symbol
    BY <2>1, <2>2, AfterFacts
  <2>5. Elements(g, y) = Elements(g, x)
    BY <2>3 DEF Elements
  <2>6. Len(Elements(g, x)) \in Nat
    BY <2>2, VariantFacts
  <2>7. IsLead(g, y)
    BY <2>2, <2>3, <2>4, <2>5, <2>6 DEF IsLead
  <2> QED
    BY <2>1, <2>2, <2>3, <2>4, <2>5, <2>7 DEF Behind, x, y
<1>3. ASSUME NEW y \in K
      PROVE  /\ IsLead(g, y) /\ y.position > 0 /\ Elements(g, y)[y.position] = symbol
             /\ y.rule = Root => y.terminals = {TKN_EOF}
             /\ \E x \in S : Behind(x, y)
  <2> HIDE DEF S
  <2>1. PICK k \in G : y = [s.leads[k] EXCEPT !.position = @ + 1]
    OBVIOUS
  <2> QED
    BY <1>2, <2>1
<1> HIDE DEF K, S
<1>4. Kernel(g, K)
  BY <1>1, <1>3 DEF Kernel
<1>5. \A x \in T : x.position > 0 \/ x.rule = Root => \E y \in K : SameCore(y, x)
  BY <1>4, NewStateFacts
<1>6. ASSUME NEW x \in T, x.position > 0
      PROVE  Elements(g, x)[x.position] = symbol /\ \E y \in S : Behind(y, x)
  <2>1. PICK y \in K : SameCore(y, x)
    BY <1>5, <1>6
  <2> QED
    BY <1>3, <2>1 DEF SameCore, Elements, Behind
<1>7. ASSUME NEW x \in T, x.rule = Root
      PROVE  x.position > 0
  BY <1>3, <1>5, <1>7 DEF SameCore
<1>8. Goes(g, S, symbol, T)
  BY <1>6, <1>7 DEF Goes
<1> QED
  BY <1>4, <1>8 DEF K, S, MovedOver

GatherInvariant ==
  /\ Automaton(grammar, states)
  /\ index \in 0..Len(states) /\ next \in Nat \ {0}
  /\ \A k \in 1..index : Closed(grammar, states[k])
  /\ index < Len(states) => Passed(grammar, states[index + 1], next)

\* The table is that of the automaton sts.
Emitted(sts) ==
  /\ Automaton(grammar, sts)
  /\ \A k \in DOMAIN sts : Closed(grammar, sts[k])
  /\ table = [n \in DOMAIN sts |-> EmitState(sts[n])]

GeneratorInvariant ==
  /\ grammar \in Grammars
  /\ table = <<>> => GatherInvariant
  /\ table # <<>> =>
       /\ states = <<>> /\ index \in Nat
       /\ \E sts : Emitted(sts)

LEMMA GeneratorStarts ==
  ASSUME GeneratorInit
  PROVE  GeneratorInvariant
<1> DEFINE root == [rule |-> Root, variant |-> 1, position |-> 0, terminals |-> {TKN_EOF}]
           s == NewState(grammar, {root})
<1>1. grammar \in Grammars /\ states = <<s>> /\ index = 0 /\ next = 1 /\ table = <<>>
  BY DEF GeneratorInit, Root
<1>2. Grammatical(grammar)
  BY <1>1, GrammarsAssumption
<1>3. Kernel(grammar, {root})
  <2>1. grammar.variants[Root] \in Seq(Seq((DOMAIN grammar.variants \ {Root}) \cup Tokens) \ { <<>> })
    BY <1>2 DEF Grammatical, Root, IsRule
  <2>2. 1 \in DOMAIN grammar.variants[Root]
    BY <1>2, <2>1, LenProperties, EmptySeq DEF Grammatical, Root
  <2>3. grammar.variants[Root][1] \in Seq((DOMAIN grammar.variants \ {Root}) \cup Tokens)
    BY <2>1, <2>2, ElementOfSeq, LenProperties
  <2>4. Len(grammar.variants[Root][1]) \in Nat
    BY <2>3, LenProperties
  <2>5. IsLead(grammar, root)
    BY <1>2, <2>2, <2>4 DEF IsLead, Elements, Grammatical, Root
  <2> HIDE DEF root
  <2>6. IsFiniteSet({root})
    BY FS_Singleton
  <2> QED
    BY <2>5, <2>6 DEF Kernel, root
<1> HIDE DEF s
<1>4. /\ Shape(s) /\ s.token_actions = <<>> /\ s.rule_actions = <<>>
      /\ WellLabelled(grammar, LeadSet(s))
      /\ \A x \in LeadSet(s) : x.position > 0 \/ x.rule = Root => SameCore(root, x)
  <2> HIDE DEF root
  <2> QED
    BY <1>2, <1>3, NewStateFacts DEF s
<1>5. \A x \in LeadSet(s) : x.position = 0
  <2> SUFFICES ASSUME NEW x \in LeadSet(s), x.position # 0 PROVE FALSE
    OBVIOUS
  <2>1. IsLead(grammar, x)
    BY <1>4 DEF WellLabelled
  <2>2. x.position > 0
    BY <2>1, <1>2, VariantFacts DEF IsLead
  <2> QED
    BY <1>4, <2>2 DEF SameCore
<1>6. IsSeq(states) /\ states # <<>> /\ DOMAIN states = {1} /\ states[1] = s /\ Len(states) = 1
  <2>1. <<s>> \in Seq({s})
    OBVIOUS
  <2>2. IsSeq(<<s>>)
    BY <2>1 DEF IsSeq
  <2>3. <<s>> # <<>> /\ DOMAIN <<s>> = {1} /\ <<s>>[1] = s /\ Len(<<s>>) = 1
    OBVIOUS
  <2> QED
    BY <1>1, <2>2, <2>3
<1>7. DOMAIN <<>> = {}
  OBVIOUS
<1>8. Automaton(grammar, states)
  BY <1>4, <1>5, <1>6, <1>7 DEF Automaton
<1>9. Passed(grammar, states[1], 1)
  <2>1. PICK Any : s.leads \in Seq(Any)
    BY <1>4 DEF Shape, IsSeq
  <2>2. DOMAIN s.leads = 1..Len(s.leads)
    BY <2>1, LenProperties
  <2> QED
    BY <1>6, <2>2 DEF Passed
<1>10. GatherInvariant
  BY <1>1, <1>6, <1>8, <1>9 DEF GatherInvariant
<1> QED
  BY <1>1, <1>10 DEF GeneratorInvariant

LEMMA StateForFacts ==
  ASSUME NEW sts, IsSeq(sts), NEW s
  PROVE  LET target == StateFor(sts, s.leads)
             grown == IF target = Len(sts) THEN Append(sts, s) ELSE sts
         IN  /\ Number(grown, target)
             /\ grown[target + 1].leads = s.leads
<1> DEFINE same == { k \in DOMAIN sts : sts[k].leads = s.leads }
           target == StateFor(sts, s.leads)
           grown == IF target = Len(sts) THEN Append(sts, s) ELSE sts
<1>1. Len(sts) \in Nat /\ DOMAIN sts = 1..Len(sts)
  BY SeqGrows
<1>2. target = IF same = {} THEN Len(sts) ELSE (CHOOSE k \in same : \A j \in same : k <= j) - 1
  BY DEF StateFor
<1> HIDE DEF target
<1>3. CASE same = {}
  <2>1. target = Len(sts) /\ grown = Append(sts, s)
    BY <1>2, <1>3
  <2>2. DOMAIN grown = 1..(Len(sts) + 1) /\ grown[Len(sts) + 1] = s
    BY <2>1, SeqGrows
  <2> HIDE DEF grown
  <2>3. Number(grown, target) /\ grown[target + 1].leads = s.leads
    BY <1>1, <2>1, <2>2 DEF Number
  <2> QED
    BY <2>3 DEF grown, target
<1>4. CASE same # {}
  <2>1. same \in SUBSET Nat
    BY <1>1
  <2> DEFINE k == CHOOSE k \in same : \A j \in same : k <= j
  <2>2. \E n \in same : \A j \in same : n <= j
    <3> HIDE DEF same
    <3> QED
      BY <1>4, <2>1, LeastNumber
  <2>3. k \in same
    <3> HIDE DEF same
    <3> QED
      BY <2>2
  <2>4. target = k - 1
    BY <1>2, <1>4
  <2>5. k \in 1..Len(sts) /\ sts[k].leads = s.leads
    BY <1>1, <2>3
  <2> HIDE DEF k
  <2>6. target \in Nat /\ target + 1 = k /\ target # Len(sts) /\ target + 1 \in DOMAIN sts
    BY <1>1, <2>4, <2>5
  <2>7. grown = sts
    BY <2>6
  <2>8. Number(grown, target) /\ grown[target + 1].leads = s.leads
    BY <2>5, <2>6, <2>7 DEF Number
  <2> QED
    BY <2>8 DEF target
<1> QED
  BY <1>3, <1>4

LEMMA PassedOne ==
  ASSUME NEW g, NEW s, Shape(s), NEW n \in Nat \ {0}, Passed(g, s, n),
         n \in DOMAIN s.leads /\ IsRule(g, After(g, s.leads[n])) =>
           \E i \in DOMAIN s.rule_actions : s.rule_actions[i].rule = After(g, s.leads[n])
  PROVE  Passed(g, s, n + 1)
<1>1. DOMAIN s.leads = 1..Len(s.leads) /\ Len(s.leads) \in Nat
  BY SeqGrows DEF Shape
<1>2. \A m \in DOMAIN s.leads : m < n + 1 => m < n \/ m = n
  BY <1>1
<1> QED
  BY <1>2 DEF Passed

\* A row added to a state keeps what its rows did for the leads before.
LEMMA PassedKept ==
  ASSUME NEW g, NEW s, NEW t, t.leads = s.leads,
         \A n \in DOMAIN s.rule_actions :
           n \in DOMAIN t.rule_actions /\ t.rule_actions[n] = s.rule_actions[n]
  PROVE  /\ \A n : Passed(g, s, n) => Passed(g, t, n)
         /\ Closed(g, s) => Closed(g, t)
  BY DEF Passed, Closed, LeadSet

LEMMA gather_handledKeeps ==
  ASSUME GatherInvariant, grammar \in Grammars, gather_handled
  PROVE  GatherInvariant'
<1> USE GrammarsAssumption
<1>1. /\ index < Len(states) /\ next' = next + 1
      /\ grammar' = grammar /\ states' = states /\ index' = index
      /\ \E k \in DOMAIN Expanded.leads : k < next /\ Symbol(k) = Symbol(next)
  BY DEF gather_handled, AtLead, Handled, Group
<1>2. /\ index \in Nat /\ next \in Nat \ {0} /\ index + 1 \in DOMAIN states
      /\ Passed(grammar, Expanded, next) /\ Shape(Expanded)
  <2>1. index + 1 \in DOMAIN states /\ index \in Nat
    BY <1>1, SeqGrows DEF GatherInvariant, Automaton
  <2> QED
    BY <1>1, <2>1 DEF GatherInvariant, Automaton, Expanded
<1>3. Passed(grammar, Expanded, next + 1)
  <2>1. \A k : Symbol(k) = After(grammar, Expanded.leads[k])
    BY DEF Symbol, After
  <2>2. IsRule(grammar, Symbol(next)) =>
          \E i \in DOMAIN Expanded.rule_actions : Expanded.rule_actions[i].rule = Symbol(next)
    BY <1>1, <1>2, <2>1 DEF Passed
  <2> HIDE DEF Expanded
  <2> QED
    BY <1>2, <2>1, <2>2, PassedOne
<1> QED
  BY <1>1, <1>2, <1>3 DEF GatherInvariant, Expanded

LEMMA gather_nextKeeps ==
  ASSUME GatherInvariant, grammar \in Grammars, gather_next
  PROVE  GatherInvariant'
<1>1. /\ index < Len(states) /\ next > Len(Expanded.leads) /\ index' = index + 1 /\ next' = 1
      /\ grammar' = grammar /\ states' = states
  BY DEF gather_next
<1>2. /\ index \in Nat /\ next \in Nat \ {0} /\ Len(states) \in Nat /\ DOMAIN states = 1..Len(states)
      /\ Passed(grammar, Expanded, next)
      /\ \A k \in DOMAIN states : /\ Shape(states[k])
                                  /\ DOMAIN states[k].leads = 1..Len(states[k].leads)
                                  /\ Len(states[k].leads) \in Nat
  <2>1. Len(states) \in Nat /\ DOMAIN states = 1..Len(states) /\ \A k \in DOMAIN states : Shape(states[k])
    BY SeqGrows DEF GatherInvariant, Automaton
  <2>2. \A k \in DOMAIN states : /\ DOMAIN states[k].leads = 1..Len(states[k].leads)
                                 /\ Len(states[k].leads) \in Nat
    BY <2>1, SeqGrows DEF Shape
  <2> QED
    BY <1>1, <2>1, <2>2 DEF GatherInvariant, Expanded
<1>3. Closed(grammar, states[index + 1])
  <2>1. \A m \in DOMAIN Expanded.leads : m < next
    BY <1>1, <1>2 DEF Expanded
  <2> QED
    BY <1>2, <2>1 DEF Passed, Closed, LeadSet, Expanded
<1>4. index + 1 < Len(states) => Passed(grammar, states[(index + 1) + 1], 1)
  BY <1>2 DEF Passed
<1>5. \A k \in 1..(index + 1) : k \in 1..index \/ k = index + 1
  BY <1>2
<1>6. index + 1 \in 0..Len(states)
  BY <1>1, <1>2
<1> QED
  BY <1>1, <1>3, <1>4, <1>5, <1>6 DEF GatherInvariant

\* What remains to be shown of an action that looks at a lead.
LEMMA StepKeeps ==
  ASSUME GatherInvariant, index < Len(states),
         index' = index, next' = next + 1, grammar' = grammar,
         Automaton(grammar, states'),
         DOMAIN states \subseteq DOMAIN states',
         \A j \in DOMAIN states :
           /\ states'[j].leads = states[j].leads
           /\ \A n \in DOMAIN states[j].rule_actions :
                n \in DOMAIN states'[j].rule_actions /\ states'[j].rule_actions[n] = states[j].rule_actions[n],
         LET s == states'[index + 1]
         IN  IsRule(grammar, After(grammar, s.leads[next])) =>
               \E i \in DOMAIN s.rule_actions : s.rule_actions[i].rule = After(grammar, s.leads[next])
  PROVE  GatherInvariant'
<1> DEFINE k == index + 1
<1>1. /\ Len(states) \in Nat /\ DOMAIN states = 1..Len(states)
      /\ Len(states') \in Nat /\ DOMAIN states' = 1..Len(states')
  BY SeqGrows DEF GatherInvariant, Automaton
<1>2. index \in Nat /\ next \in Nat \ {0} /\ k \in DOMAIN states /\ Passed(grammar, states[k], next)
  BY <1>1 DEF GatherInvariant
<1>2a. \A j \in 1..index : j \in DOMAIN states /\ Closed(grammar, states[j])
  BY <1>1, <1>2 DEF GatherInvariant
<1> HIDE DEF k
<1>3. ASSUME NEW j \in DOMAIN states
      PROVE  /\ Passed(grammar, states[j], next) => Passed(grammar, states'[j], next)
             /\ Closed(grammar, states[j]) => Closed(grammar, states'[j])
  <2> DEFINE old == states[j]
             new == states'[j]
  <2>1. /\ new.leads = old.leads
        /\ \A n \in DOMAIN old.rule_actions :
             n \in DOMAIN new.rule_actions /\ new.rule_actions[n] = old.rule_actions[n]
    OBVIOUS
  <2> HIDE DEF old, new
  <2>2. /\ \A n : Passed(grammar, old, n) => Passed(grammar, new, n)
        /\ Closed(grammar, old) => Closed(grammar, new)
    BY <2>1, PassedKept
  <2>3. Passed(grammar, old, next) => Passed(grammar, new, next)
    BY <2>2
  <2> QED
    BY <2>2, <2>3 DEF old, new
<1>4. Passed(grammar, states'[k], next + 1)
  <2>1. Shape(states'[k])
    BY <1>2 DEF Automaton
  <2>2. Passed(grammar, states'[k], next)
    BY <1>2, <1>3
  <2> QED
    BY <1>2, <2>1, <2>2, PassedOne DEF k
<1>5. \A j \in 1..index : Closed(grammar, states'[j])
  BY <1>2a, <1>3
<1>6. Len(states) <= Len(states')
  BY <1>1, <1>2
<1>7. index' \in 0..Len(states') /\ next' \in Nat \ {0}
  BY <1>1, <1>2, <1>6
<1> QED
  BY <1>4, <1>5, <1>7 DEF GatherInvariant, k

LEMMA gather_reduceKeeps ==
  ASSUME GatherInvariant, grammar \in Grammars, gather_reduce
  PROVE  GatherInvariant'
<1> DEFINE k == index + 1
           lead == Expanded.leads[next]
           a == [tokens |-> lead.terminals, rule |-> lead.rule, length |-> lead.position, state |-> 0]
           t == [states EXCEPT ![k].token_actions = Append(@, a)]
<1>1. /\ index < Len(states) /\ next <= Len(Expanded.leads) /\ Symbol(next) = Nil
      /\ states' = t /\ next' = next + 1 /\ grammar' = grammar /\ index' = index
  BY DEF gather_reduce, AtLead
<1>2. /\ index \in Nat /\ next \in Nat \ {0} /\ Len(states) \in Nat /\ DOMAIN states = 1..Len(states)
      /\ k \in DOMAIN states /\ Expanded = states[k]
      /\ Passed(grammar, states[k], next) /\ Shape(states[k]) /\ Automaton(grammar, states)
      /\ WellLabelled(grammar, LeadSet(states[k]))
  <2>1. Len(states) \in Nat /\ DOMAIN states = 1..Len(states) /\ index \in Nat /\ k \in DOMAIN states
    BY <1>1, SeqGrows DEF GatherInvariant, Automaton
  <2> QED
    BY <1>1, <2>1 DEF GatherInvariant, Expanded, Automaton
<1>3. Grammatical(grammar)
  BY GrammarsAssumption
<1>4. lead \in LeadSet(states[k]) /\ Over(grammar, lead) /\ After(grammar, lead) = Nil
  <2>1. next \in DOMAIN states[k].leads
    BY <1>1, <1>2, SeqGrows DEF Shape
  <2>2. lead \in LeadSet(states[k])
    BY <1>2, <2>1 DEF LeadSet
  <2>3. IsLead(grammar, lead)
    BY <1>2, <2>2 DEF WellLabelled
  <2>4. After(grammar, lead) = Nil
    BY <1>1 DEF After, Symbol
  <2> QED
    BY <1>3, <2>2, <2>3, <2>4, AfterFacts
<1>5. ActionFits(grammar, states, k, a)
  BY <1>4 DEF ActionFits
<1> HIDE DEF a
<1>6. /\ DOMAIN t = DOMAIN states /\ \A j \in DOMAIN states : j # k => t[j] = states[j]
      /\ t[k] = [states[k] EXCEPT !.token_actions = Append(@, a)]
  BY <1>2
<1>7. /\ t[k].leads = states[k].leads /\ t[k].rule_actions = states[k].rule_actions
      /\ t[k].token_actions = Append(states[k].token_actions, a) /\ Shape(t[k])
  <2>1. IsSeq(Append(states[k].token_actions, a))
    BY <1>2, SeqGrows DEF Shape
  <2>2. t[k] = [leads |-> states[k].leads, token_actions |-> Append(states[k].token_actions, a),
                rule_actions |-> states[k].rule_actions]
    BY <1>2, <1>6 DEF Shape
  <2> HIDE DEF t
  <2> QED
    BY <1>2, <2>1, <2>2 DEF Shape
<1>8. t = [states EXCEPT ![k] = t[k]]
  BY <1>2
<1> HIDE DEF t, k
<1>9. Automaton(grammar, t)
  <2>1. \A n \in DOMAIN t[k].token_actions :
           \/ n \in DOMAIN states[k].token_actions /\ t[k].token_actions[n] = states[k].token_actions[n]
           \/ t[k].token_actions[n] = a
    <3>1. IsSeq(states[k].token_actions)
      BY <1>2 DEF Shape
    <3> QED
      BY <1>7, <3>1, SeqGrows
  <2> QED
    BY <1>2, <1>5, <1>7, <1>8, <2>1, RowAdded
<1>10. ~IsRule(grammar, After(grammar, states'[k].leads[next]))
  BY <1>1, <1>2, <1>3, <1>4, <1>7 DEF Grammatical, IsRule
<1>11. \A j \in DOMAIN states : states'[j].leads = states[j].leads /\ states'[j].rule_actions = states[j].rule_actions
  BY <1>1, <1>6, <1>7
<1> QED
  BY <1>1, <1>6, <1>9, <1>10, <1>11, StepKeeps DEF k

LEMMA gather_shiftKeeps ==
  ASSUME GatherInvariant, grammar \in Grammars, gather_shift
  PROVE  GatherInvariant'
<1> DEFINE k == index + 1
           old == states[k]
           symbol == Symbol(next)
           K == MovedOver(grammar, old, symbol)
           new == NewState(grammar, K)
           target == StateFor(states, new.leads)
           grown == IF target = Len(states) THEN Append(states, new) ELSE states
           a == IF IsRule(grammar, symbol) THEN [rule |-> symbol, state |-> target]
                ELSE [tokens |-> {symbol}, rule |-> Nil, length |-> 0, state |-> target]
           row == IF IsRule(grammar, symbol) THEN [grown[k] EXCEPT !.rule_actions = Append(@, a)]
                  ELSE [grown[k] EXCEPT !.token_actions = Append(@, a)]
<1>1. /\ index < Len(states) /\ next <= Len(old.leads) /\ symbol # Nil
      /\ symbol = After(grammar, old.leads[next])
      /\ states' = [grown EXCEPT ![k] = row]
      /\ next' = next + 1 /\ grammar' = grammar /\ index' = index
  <2>1. K = { [Expanded.leads[n] EXCEPT !.position = @ + 1] : n \in Group }
    BY DEF Group, Symbol, Expanded, After, MovedOver
  <2> HIDE DEF K
  <2>2. /\ index < Len(states) /\ next <= Len(old.leads) /\ symbol # Nil
        /\ next' = next + 1 /\ grammar' = grammar /\ index' = index
    BY DEF gather_shift, AtLead, Expanded
  <2>3. symbol = After(grammar, old.leads[next])
    BY DEF Symbol, Expanded, After
  <2>4. states' = IF IsRule(grammar, symbol)
                  THEN [grown EXCEPT ![index + 1].rule_actions = Append(@, [rule |-> symbol, state |-> target])]
                  ELSE [grown EXCEPT ![index + 1].token_actions =
                          Append(@, [tokens |-> {symbol}, rule |-> Nil, length |-> 0, state |-> target])]
    BY <2>1 DEF gather_shift
  <2> HIDE DEF symbol, target, grown
  <2>5. states' = [grown EXCEPT ![k] = row]
    BY <2>4
  <2> QED
    BY <2>2, <2>3, <2>5
<1> HIDE DEF symbol
<1>2. /\ index \in Nat /\ next \in Nat \ {0} /\ Len(states) \in Nat /\ DOMAIN states = 1..Len(states)
      /\ k \in DOMAIN states /\ IsSeq(states) /\ Automaton(grammar, states)
      /\ Shape(old) /\ WellLabelled(grammar, LeadSet(old))
  <2>1. Len(states) \in Nat /\ DOMAIN states = 1..Len(states) /\ IsSeq(states)
    BY SeqGrows DEF GatherInvariant, Automaton
  <2>2. index \in 0..Len(states) /\ index < Len(states)
    <3> HIDE DEF row, grown, target, new, K, old, a
    <3> QED
      BY <1>1 DEF GatherInvariant
  <2>3. k \in DOMAIN states
    BY <2>1, <2>2
  <2> HIDE DEF k
  <2> QED
    BY <2>1, <2>2, <2>3 DEF GatherInvariant, Automaton
<1>3. Grammatical(grammar)
  BY GrammarsAssumption
<1>4. Kernel(grammar, K) /\ Goes(grammar, LeadSet(old), symbol, LeadSet(new))
  <2> HIDE DEF old, k
  <2> QED
    BY <1>1, <1>2, <1>3, MovedFacts
<1> HIDE DEF K
<1>5. /\ Shape(new) /\ new.token_actions = <<>> /\ new.rule_actions = <<>>
      /\ WellLabelled(grammar, LeadSet(new))
  BY <1>3, <1>4, NewStateFacts
<1> HIDE DEF new
<1>6. Number(grown, target) /\ grown[target + 1].leads = new.leads
  BY <1>2, StateForFacts
<1> HIDE DEF target
<1>7. /\ Automaton(grammar, grown)
      /\ DOMAIN states \subseteq DOMAIN grown /\ \A j \in DOMAIN states : grown[j] = states[j]
  <2>1. CASE target = Len(states)
    BY <1>2, <1>5, <2>1, StateAdded, SeqGrows
  <2>2. CASE target # Len(states)
    BY <1>2, <2>2
  <2> QED
    BY <2>1, <2>2
<1> HIDE DEF grown
<1>8. k \in DOMAIN grown /\ grown[k] = old
  BY <1>2, <1>7
<1> DEFINE t == [grown EXCEPT ![k] = row]
<1>9. LeadSet(grown[target + 1]) = LeadSet(new)
  BY <1>6 DEF LeadSet
<1>10. /\ DOMAIN t = DOMAIN grown /\ t[k] = row
       /\ \A j \in DOMAIN grown : j # k => t[j] = grown[j]
       /\ t = [grown EXCEPT ![k] = t[k]]
  <2> HIDE DEF row
  <2> QED
    BY <1>8
<1>11. IsSeq(old.token_actions) /\ IsSeq(old.rule_actions)
       /\ IsSeq(Append(old.token_actions, a)) /\ IsSeq(Append(old.rule_actions, a))
  <2> HIDE DEF a, old
  <2> QED
    BY <1>2, SeqGrows DEF Shape
<1>12. /\ Automaton(grammar, t)
       /\ t[k].leads = old.leads
       /\ \A n \in DOMAIN old.rule_actions :
            n \in DOMAIN t[k].rule_actions /\ t[k].rule_actions[n] = old.rule_actions[n]
       /\ IsRule(grammar, symbol) => \E i \in DOMAIN t[k].rule_actions : t[k].rule_actions[i].rule = symbol
  <2>1. CASE IsRule(grammar, symbol)
    <3>1. t[k] = [leads |-> old.leads, token_actions |-> old.token_actions,
                  rule_actions |-> Append(old.rule_actions, a)]
      <4> HIDE DEF t, a, old
      <4> QED
        BY <1>2, <1>8, <1>10, <2>1 DEF Shape
    <3>2. GotoFits(grammar, grown, k, a) /\ a.rule = symbol
      BY <1>4, <1>6, <1>8, <1>9, <2>1 DEF GotoFits
    <3> HIDE DEF t, a, old, row
    <3>3. Shape(t[k])
      BY <1>2, <1>11, <3>1 DEF Shape
    <3>4. /\ \A n \in DOMAIN t[k].rule_actions :
               \/ n \in DOMAIN old.rule_actions /\ t[k].rule_actions[n] = old.rule_actions[n]
               \/ t[k].rule_actions[n] = a
          /\ \A n \in DOMAIN old.rule_actions :
               n \in DOMAIN t[k].rule_actions /\ t[k].rule_actions[n] = old.rule_actions[n]
          /\ \E i \in DOMAIN t[k].rule_actions : t[k].rule_actions[i] = a
      <4>1. t[k].rule_actions = Append(old.rule_actions, a)
        BY <3>1
      <4>2. Len(old.rule_actions) + 1 \in DOMAIN Append(old.rule_actions, a)
        BY <1>11, SeqGrows
      <4> QED
        BY <1>11, <4>1, <4>2, SeqGrows
    <3>5. t[k].leads = old.leads /\ t[k].token_actions = old.token_actions
      BY <3>1
    <3>6. Automaton(grammar, t)
      BY <1>7, <1>8, <1>10, <3>2, <3>3, <3>4, <3>5, RowAdded
    <3> QED
      BY <3>2, <3>4, <3>5, <3>6
  <2>2. CASE ~IsRule(grammar, symbol)
    <3>1. t[k] = [leads |-> old.leads, token_actions |-> Append(old.token_actions, a),
                  rule_actions |-> old.rule_actions]
      <4> HIDE DEF t, a, old
      <4> QED
        BY <1>2, <1>8, <1>10, <2>2 DEF Shape
    <3>2. symbol \in Tokens
      <4>1. next \in DOMAIN old.leads
        BY <1>1, <1>2, SeqGrows DEF Shape
      <4>2. old.leads[next] \in LeadSet(old)
        BY <4>1 DEF LeadSet
      <4>3. IsLead(grammar, old.leads[next])
        BY <1>2, <4>2 DEF WellLabelled
      <4> QED
        BY <1>1, <1>3, <2>2, <4>3, AfterFacts DEF IsRule
    <3>3. ActionFits(grammar, grown, k, a)
      BY <1>4, <1>6, <1>8, <1>9, <2>2, <3>2 DEF ActionFits
    <3> HIDE DEF t, a, old, row
    <3>4. Shape(t[k])
      BY <1>2, <1>11, <3>1 DEF Shape
    <3>5. \A n \in DOMAIN t[k].token_actions :
            \/ n \in DOMAIN old.token_actions /\ t[k].token_actions[n] = old.token_actions[n]
            \/ t[k].token_actions[n] = a
      <4>1. t[k].token_actions = Append(old.token_actions, a)
        BY <3>1
      <4> QED
        BY <1>11, <4>1, SeqGrows
    <3>6. t[k].leads = old.leads /\ t[k].rule_actions = old.rule_actions
      BY <3>1
    <3>7. Automaton(grammar, t)
      BY <1>7, <1>8, <1>10, <3>3, <3>4, <3>5, <3>6, RowAdded
    <3> QED
      BY <2>2, <3>6, <3>7
  <2> QED
    BY <2>1, <2>2
<1>13. states' = t
  BY <1>1
<1> HIDE DEF t, row, a
<1>14. DOMAIN states \subseteq DOMAIN t
  BY <1>7, <1>10
<1>15. \A j \in DOMAIN states :
         /\ t[j].leads = states[j].leads
         /\ \A n \in DOMAIN states[j].rule_actions :
              n \in DOMAIN t[j].rule_actions /\ t[j].rule_actions[n] = states[j].rule_actions[n]
  BY <1>7, <1>10, <1>12
<1> QED
  BY <1>1, <1>12, <1>13, <1>14, <1>15, StepKeeps

LEMMA GeneratorKeeps ==
  ASSUME GeneratorInvariant, [GeneratorNext]_genVars
  PROVE  GeneratorInvariant'
<1> USE DEF GeneratorInvariant
<1>1. CASE GeneratorNext
  <2>1. table = <<>>
    <3>1. index < Len(states) \/ table = <<>>
      BY <1>1 DEF GeneratorNext, gather_handled, gather_reduce, gather_shift, gather_next, emit, AtLead
    <3>2. table # <<>> => ~(index < Len(states))
      <4> SUFFICES ASSUME states = <<>>, index \in Nat PROVE ~(index < Len(states))
        OBVIOUS
      <4>1. Len(<<>>) = 0
        OBVIOUS
      <4> QED
        BY <4>1
    <3> QED
      BY <3>1, <3>2
  <2>2. GatherInvariant /\ grammar \in Grammars
    BY <2>1
  <2>3. CASE gather_handled
    BY <2>1, <2>2, <2>3, gather_handledKeeps DEF gather_handled
  <2>4. CASE gather_reduce
    BY <2>1, <2>2, <2>4, gather_reduceKeeps DEF gather_reduce
  <2>5. CASE gather_shift
    BY <2>1, <2>2, <2>5, gather_shiftKeeps DEF gather_shift
  <2>6. CASE gather_next
    BY <2>1, <2>2, <2>6, gather_nextKeeps DEF gather_next
  <2>7. CASE emit
    <3>1. /\ index = Len(states) /\ states' = <<>> /\ index' = index /\ grammar' = grammar
          /\ table' = [n \in DOMAIN states |-> EmitState(states[n])]
      BY <2>7 DEF emit
    <3>2. /\ Automaton(grammar, states) /\ IsSeq(states) /\ states # <<>>
          /\ \A k \in 1..index : Closed(grammar, states[k])
      BY <2>2 DEF GatherInvariant, Automaton
    <3>3. Len(states) \in Nat /\ DOMAIN states = 1..Len(states)
      BY <3>2, SeqGrows
    <3>4. DOMAIN states # {}
      <4>1. PICK S : states \in Seq(S)
        BY <3>2 DEF IsSeq
      <4> QED
        BY <3>2, <3>3, <4>1, EmptySeq
    <3>5. DOMAIN table' = DOMAIN states
      BY <3>1
    <3>6. table' # <<>>
      BY <3>4, <3>5
    <3>7. \E sts : /\ Automaton(grammar, sts)
                   /\ \A k \in DOMAIN sts : Closed(grammar, sts[k])
                   /\ table' = [n \in DOMAIN sts |-> EmitState(sts[n])]
      BY <3>1, <3>2, <3>3
    <3>8. \E sts : Emitted(sts)'
      BY <3>1, <3>7 DEF Emitted
    <3> QED
      BY <2>2, <3>1, <3>3, <3>6, <3>8
  <2> QED
    BY <1>1, <2>3, <2>4, <2>5, <2>6, <2>7 DEF GeneratorNext
<1>2. CASE UNCHANGED genVars
  BY <1>2 DEF genVars, GatherInvariant, Emitted
<1> QED
  BY <1>1, <1>2

\* A row of the table for state n, as the parser sees it.
RowFits(g, sts, n, a) ==
  \/ /\ a.rule = Nil /\ a.state_or_length >= 0 /\ Number(sts, a.state_or_length)
     /\ \E symbol \in Tokens :
          /\ a.tokens = {symbol}
          /\ Goes(g, LeadSet(sts[n + 1]), symbol, LeadSet(sts[a.state_or_length + 1]))
  \/ \E x \in LeadSet(sts[n + 1]) :
       /\ Over(g, x) /\ x.position > 0 /\ a.tokens = x.terminals
       /\ a.state_or_length = 0 - x.position /\ a.state_or_length < 0
       /\ IF x.rule = Root THEN a.rule = Nil ELSE a.rule = x.rule /\ a.rule # Nil

\* What of the table the parser relies on.
LEMMA EmittedRows ==
  ASSUME NEW g, Grammatical(g), NEW sts, Automaton(g, sts),
         table = [n \in DOMAIN sts |-> EmitState(sts[n])],
         NEW n, Number(sts, n)
  PROVE  /\ table[n + 1].gotos = sts[n + 1].rule_actions
         /\ IsSeq(table[n + 1].actions)
         /\ IsSeq(table[n + 1].gotos)
         /\ \A i \in DOMAIN table[n + 1].actions : RowFits(g, sts, n, table[n + 1].actions[i])
<1> DEFINE s == sts[n + 1]
           row(a) == [tokens |-> a.tokens,
                      state_or_length |-> IF a.rule = Nil THEN a.state ELSE 0 - a.length,
                      rule |-> IF a.rule = "grammar_root" THEN Nil ELSE a.rule]
<1>1. n + 1 \in DOMAIN sts /\ n \in Nat
  BY DEF Number
<1>2. table[n + 1] = [actions |-> [i \in DOMAIN s.token_actions |-> row(s.token_actions[i])],
                      gotos |-> s.rule_actions]
  BY <1>1 DEF EmitState
<1>3. /\ Shape(s) /\ WellLabelled(g, LeadSet(s))
      /\ \A i \in DOMAIN s.token_actions : ActionFits(g, sts, n + 1, s.token_actions[i])
  BY <1>1 DEF Automaton
<1> HIDE DEF s, row
<1>4. IsSeq(table[n + 1].actions) /\ IsSeq(table[n + 1].gotos)
  <2>1. IsSeq(s.rule_actions) /\ Len(s.token_actions) \in Nat /\ DOMAIN s.token_actions = 1..Len(s.token_actions)
    BY <1>3, SeqGrows DEF Shape
  <2> DEFINE e == [i \in 1..Len(s.token_actions) |-> row(s.token_actions[i])]
             T == { row(s.token_actions[i]) : i \in 1..Len(s.token_actions) }
  <2>2. e \in Seq(T)
    <3>1. \A i \in 1..Len(s.token_actions) : e[i] \in T
      OBVIOUS
    <3>2. e = [i \in 1..Len(s.token_actions) |-> e[i]]
      OBVIOUS
    <3> HIDE DEF T, e
    <3> QED
      BY <2>1, <3>1, <3>2, IsASeq
  <2>3. table[n + 1].actions = e /\ table[n + 1].gotos = s.rule_actions
    <3> DEFINE f == [i \in DOMAIN s.token_actions |-> row(s.token_actions[i])]
    <3>1. f = e
      BY <2>1
    <3>2. table[n + 1] = [actions |-> f, gotos |-> s.rule_actions]
      BY <1>2
    <3> HIDE DEF f, e
    <3> QED
      BY <3>1, <3>2
  <2> HIDE DEF e, T
  <2> QED
    BY <2>1, <2>2, <2>3 DEF IsSeq
<1>5. ASSUME NEW i \in DOMAIN s.token_actions
      PROVE  LET b == s.token_actions[i]
             IN  \/ b.rule = Nil /\ ActionFits(g, sts, n + 1, b) /\ b.rule # Root
                 \/ /\ b.rule # Nil
                    /\ \E x \in LeadSet(s) : /\ Over(g, x) /\ x.position \in Nat \ {0}
                                             /\ b.tokens = x.terminals /\ b.rule = x.rule /\ b.length = x.position
  <2> DEFINE b == s.token_actions[i]
  <2>1. ActionFits(g, sts, n + 1, b)
    BY <1>3
  <2> HIDE DEF b
  <2>2. Nil # Root
    BY DEF Nil, Root
  <2>3. ASSUME NEW x \in LeadSet(s), Over(g, x), b.rule = x.rule, b.length = x.position, b.tokens = x.terminals
        PROVE  b.rule # Nil /\ x.position \in Nat \ {0}
    <3>1. IsLead(g, x)
      BY <1>3 DEF WellLabelled
    <3>2. x.rule # Nil
      BY <3>1 DEF IsLead, IsRule, Grammatical
    <3> QED
      BY <2>3, <3>1, <3>2, VariantFacts DEF Over
  <2> QED
    BY <2>1, <2>2, <2>3 DEF ActionFits, s, b
<1>6. ASSUME NEW i \in DOMAIN s.token_actions
      PROVE  RowFits(g, sts, n, row(s.token_actions[i]))
  <2> DEFINE b == s.token_actions[i]
             a == row(b)
  <2>1. /\ a.tokens = b.tokens
        /\ a.state_or_length = IF b.rule = Nil THEN b.state ELSE 0 - b.length
        /\ a.rule = IF b.rule = Root THEN Nil ELSE b.rule
    BY DEF row, Root
  <2>2. \/ b.rule = Nil /\ ActionFits(g, sts, n + 1, b) /\ b.rule # Root
        \/ /\ b.rule # Nil
           /\ \E x \in LeadSet(s) : /\ Over(g, x) /\ x.position \in Nat \ {0}
                                    /\ b.tokens = x.terminals /\ b.rule = x.rule /\ b.length = x.position
    BY <1>5
  <2> HIDE DEF a, b
  <2>3. CASE b.rule = Nil
    <3>1. ActionFits(g, sts, n + 1, b) /\ a.rule = Nil /\ a.state_or_length = b.state
      BY <2>1, <2>2, <2>3
    <3>2. \A x \in LeadSet(s) : x.rule # Nil
      BY <1>3 DEF WellLabelled, IsLead, IsRule, Grammatical
    <3>3. /\ Number(sts, b.state)
          /\ \E symbol \in Tokens : /\ b.tokens = {symbol}
                                    /\ Goes(g, LeadSet(s), symbol, LeadSet(sts[b.state + 1]))
      BY <2>3, <3>1, <3>2 DEF ActionFits, s
    <3>4. b.state >= 0
      BY <3>3 DEF Number
    <3> QED
      BY <2>1, <3>1, <3>3, <3>4 DEF a, b, s, RowFits
  <2>4. CASE b.rule # Nil
    <3>1. PICK x \in LeadSet(s) : /\ Over(g, x) /\ x.position \in Nat \ {0}
                                  /\ b.tokens = x.terminals /\ b.rule = x.rule /\ b.length = x.position
      BY <2>2, <2>4
    <3>2. 0 - x.position < 0 /\ x.position > 0
      BY <3>1
    <3>3. /\ Over(g, x) /\ x.position > 0 /\ a.tokens = x.terminals
          /\ a.state_or_length = 0 - x.position /\ a.state_or_length < 0
          /\ IF x.rule = Root THEN a.rule = Nil ELSE a.rule = x.rule /\ a.rule # Nil
      BY <2>1, <2>4, <3>1, <3>2
    <3> QED
      BY <3>3 DEF a, b, s, RowFits
  <2> QED
    BY <2>3, <2>4
<1>7. table[n + 1].gotos = s.rule_actions
  BY <1>2
<1>8. ASSUME NEW i \in DOMAIN table[n + 1].actions
      PROVE  i \in DOMAIN s.token_actions /\ table[n + 1].actions[i] = row(s.token_actions[i])
  BY <1>2
<1>9. \A i \in DOMAIN table[n + 1].actions : RowFits(g, sts, n, table[n + 1].actions[i])
  BY <1>6, <1>8
<1> QED
  BY <1>4, <1>7, <1>9 DEF s

-----------------------------------------------------------------------------
(* Sentences.                                                              *)

Texts(g, Y, symbol) == IF IsRule(g, symbol) THEN Y[symbol] ELSE { <<symbol>> }

LEMMA JoinMember ==
  ASSUME NEW S, NEW T, NEW p \in S, NEW q \in T
  PROVE  p \o q \in Join(S, T)
  BY DEF Join

\* Texts of the elements one after the other are a text of all of them.
LEMMA PiecesJoin ==
  ASSUME NEW g, NEW Y, NEW elements, Len(elements) \in Nat,
         NEW w \in Seq(Tokens), Len(w) <= MaxTokens,
         NEW cut, \A k \in 0..Len(elements) : cut[k] \in 0..Len(w),
         \A k \in 1..Len(elements) : /\ cut[k - 1] <= cut[k]
                                     /\ SubSeq(w, cut[k - 1] + 1, cut[k]) \in Texts(g, Y, elements[k])
  PROVE  SubSeq(w, cut[0] + 1, cut[Len(elements)]) \in SentencesOf(g, Y, elements)
<1> DEFINE m == Len(elements)
           More(k, U) == Short(Join(U, Texts(g, Y, elements[k])))
           Upto(n, h) == h = [k \in 0..n |-> IF k = 0 THEN { <<>> } ELSE More(k, h[k - 1])]
           piece(k) == SubSeq(w, cut[0] + 1, cut[k])
<1>1. m \in Nat /\ Len(w) \in Nat /\ MaxTokens \in Nat
  BY LenProperties, TokensAssumption
<1>2. SentencesOf(g, Y, elements) = (CHOOSE h : Upto(m, h))[m]
  BY DEF SentencesOf, Texts
<1> HIDE DEF More, m
<1>3. \E h : Upto(m, h)
  <2> DEFINE Bad == { n \in Nat : ~\E h : Upto(n, h) }
  <2> SUFFICES Bad = {}
    BY <1>1
  <2> SUFFICES ASSUME Bad # {} PROVE FALSE
    OBVIOUS
  <2>1. PICK n \in Bad : \A k \in Bad : n <= k
    <3> Bad \in SUBSET Nat
      OBVIOUS
    <3> HIDE DEF Bad
    <3> QED
      BY LeastNumber
  <2>2. n \in Nat /\ ~\E h : Upto(n, h)
    OBVIOUS
  <2>3. n # 0
    <3> DEFINE h == [c \in 0..0 |-> { <<>> }]
    <3>1. Upto(0, h)
      OBVIOUS
    <3> QED
      BY <2>2, <3>1
  <2>4. n - 1 \in Nat /\ ~(n <= n - 1)
    BY <2>2, <2>3
  <2>5. PICK h : Upto(n - 1, h)
    BY <2>1, <2>4
  <2> DEFINE i == [c \in 0..n |-> IF c = 0 THEN { <<>> } ELSE More(c, h[c - 1])]
  <2>6. ASSUME NEW c \in 0..(n - 1) PROVE i[c] = h[c]
    <3>1. c \in 0..n
      BY <2>2
    <3>2. i[c] = IF c = 0 THEN { <<>> } ELSE More(c, h[c - 1])
      BY <3>1
    <3>3. h[c] = IF c = 0 THEN { <<>> } ELSE More(c, h[c - 1])
      BY <2>5
    <3> QED
      BY <3>2, <3>3
  <2>7. \A c \in 0..n : c # 0 => c - 1 \in 0..(n - 1)
    BY <2>2
  <2>8. i = [c \in 0..n |-> IF c = 0 THEN { <<>> } ELSE More(c, i[c - 1])]
    <3> DEFINE j == [c \in 0..n |-> IF c = 0 THEN { <<>> } ELSE More(c, i[c - 1])]
    <3>1. ASSUME NEW c \in 0..n PROVE i[c] = j[c]
      <4>1. CASE c = 0
        BY <4>1
      <4>2. CASE c # 0
        <5>1. i[c - 1] = h[c - 1]
          <6> HIDE DEF i
          <6> QED
            BY <2>6, <2>7, <4>2
        <5>2. i[c] = More(c, h[c - 1]) /\ j[c] = More(c, i[c - 1])
          BY <4>2
        <5> QED
          BY <5>1, <5>2
      <4> QED
        BY <4>1, <4>2
    <3> QED
      BY <3>1
  <2> QED
    BY <2>2, <2>8
<1>4. PICK h : Upto(m, h) /\ SentencesOf(g, Y, elements) = h[m]
  BY <1>2, <1>3
<1> DEFINE Bad == { k \in 0..m : ~(cut[0] <= cut[k] /\ piece(k) \in h[k]) }
<1>5. Bad = {}
  <2> SUFFICES ASSUME Bad # {} PROVE FALSE
    OBVIOUS
  <2>1. PICK k \in Bad : \A j \in Bad : k <= j
    <3> Bad \in SUBSET Nat
      BY <1>1
    <3> HIDE DEF Bad
    <3> QED
      BY LeastNumber
  <2>2. k \in 0..m /\ ~(cut[0] <= cut[k] /\ piece(k) \in h[k])
    OBVIOUS
  <2>3. 0 \in 0..m /\ cut[0] \in 0..Len(w) /\ cut[k] \in 0..Len(w)
    BY <1>1, <2>2 DEF m
  <2>4. CASE k = 0
    <3>1. h[k] = { <<>> }
      BY <1>4, <2>2, <2>4
    <3>2. piece(k) = <<>>
      BY <1>1, <2>3, <2>4, SubSeqEmpty
    <3>3. cut[0] <= cut[k]
      BY <1>1, <2>3, <2>4
    <3> QED
      BY <2>2, <3>1, <3>2, <3>3
  <2>5. CASE k # 0
    <3>1. k - 1 \in 0..m /\ ~(k <= k - 1) /\ k \in 1..m
      BY <1>1, <2>2, <2>5
    <3>2. cut[0] <= cut[k - 1] /\ piece(k - 1) \in h[k - 1]
      BY <2>1, <3>1
    <3>3. /\ cut[k - 1] \in 0..Len(w) /\ cut[k - 1] <= cut[k]
          /\ SubSeq(w, cut[k - 1] + 1, cut[k]) \in Texts(g, Y, elements[k])
      BY <3>1 DEF m
    <3>4. piece(k - 1) \o SubSeq(w, cut[k - 1] + 1, cut[k]) = piece(k)
      <4> DEFINE a == cut[0]
                 b == cut[k - 1]
                 c == cut[k]
      <4>1. a + 1 \in 1..(Len(w) + 1) /\ b \in ((a + 1) - 1)..Len(w) /\ c \in b..Len(w)
        BY <1>1, <2>3, <3>2, <3>3
      <4> HIDE DEF a, b, c
      <4>2. SubSeq(w, a + 1, b) \o SubSeq(w, b + 1, c) = SubSeq(w, a + 1, c)
        BY <4>1, ConcatAdjacentSubSeq
      <4> QED
        BY <4>2 DEF a, b, c
    <3>5. cut[0] <= cut[k]
      BY <1>1, <2>3, <3>2, <3>3
    <3>6. Len(piece(k)) <= MaxTokens
      <4> DEFINE a == cut[0]
                 c == cut[k]
      <4>1. a \in Nat /\ c \in Nat /\ a <= c /\ c <= Len(w)
        BY <1>1, <2>3, <3>5
      <4> HIDE DEF a, c
      <4>2. \A i \in (a + 1)..c : w[i] \in Tokens
        BY <1>1, <4>1, ElementOfSeq
      <4>3. Len(SubSeq(w, a + 1, c)) = IF a + 1 <= c THEN c - (a + 1) + 1 ELSE 0
        BY <4>1, <4>2, SubSeqProperties
      <4>4. Len(SubSeq(w, a + 1, c)) <= MaxTokens
        BY <1>1, <4>1, <4>3
      <4> QED
        BY <4>4 DEF a, c
    <3>7. h[k] = More(k, h[k - 1])
      BY <1>4, <2>2, <2>5
    <3>8. piece(k) \in Join(h[k - 1], Texts(g, Y, elements[k]))
      <4> DEFINE p == piece(k - 1)
                 q == SubSeq(w, cut[k - 1] + 1, cut[k])
                 T == Texts(g, Y, elements[k])
      <4>1. p \in h[k - 1] /\ q \in T
        BY <3>2, <3>3
      <4> HIDE DEF p, q, T
      <4>2. p \o q \in Join(h[k - 1], T)
        BY <4>1, JoinMember
      <4> QED
        BY <3>4, <4>2 DEF p, q, T
    <3>9. piece(k) \in h[k]
      BY <3>6, <3>7, <3>8 DEF More, Short
    <3> QED
      BY <2>2, <3>5, <3>9
  <2> QED
    BY <2>4, <2>5
<1>6. m \in 0..m
  BY <1>1
<1> QED
  BY <1>4, <1>5, <1>6 DEF m

\* What a rule derives contains what its variants do: nothing is missing after
\* the rounds.
LEMMA VariantDerives ==
  ASSUME NEW g \in Grammars, NEW x, IsLead(g, x), NEW text,
         text \in SentencesOf(g, Sentences[g], Elements(g, x))
  PROVE  text \in Sentences[g][x.rule]
<1> DEFINE Y == Sentences[g]
<1>1. Derive(g, Y) = Y
  BY RoundsAssumption
<1>2. x.rule \in DOMAIN g.variants /\ x.variant \in DOMAIN g.variants[x.rule]
  BY DEF IsLead, IsRule
<1> HIDE DEF Y
<1>3. Derive(g, Y)[x.rule] = UNION { SentencesOf(g, Y, g.variants[x.rule][v]) : v \in DOMAIN g.variants[x.rule] }
  BY <1>2 DEF Derive
<1>4. text \in Derive(g, Y)[x.rule]
  BY <1>2, <1>3 DEF Elements, Y
<1> QED
  BY <1>1, <1>4 DEF Y

-----------------------------------------------------------------------------
(* The stack.                                                              *)

Bottom == [state |-> 0, id |-> NoRule, first |-> 0, last |-> 0]

\* e stands on "below" when w has been read.
Linked(g, sts, w, below, e) ==
  /\ e = [state |-> e.state, id |-> e.id, first |-> e.first, last |-> e.last]
  /\ Number(sts, e.state)
  /\ e.id \in Tokens \/ IsRule(g, e.id)
  /\ Goes(g, LeadSet(sts[below.state + 1]), e.id, LeadSet(sts[e.state + 1]))
  /\ e.last \in 0..Len(w) /\ e.first = below.last /\ e.first <= e.last
  /\ SubSeq(w, e.first + 1, e.last) \in Texts(g, Sentences[g], e.id)

Standing(g, sts, stk, w) ==
  /\ IsSeq(stk) /\ stk # <<>> /\ stk[1] = Bottom
  /\ \A k \in DOMAIN stk : k # 1 => Linked(g, sts, w, stk[k - 1], stk[k])
  /\ stk[Len(stk)].last = Len(w)
  /\ w \in Seq(Tokens) /\ Len(w) <= MaxTokens

LEMMA StandingFacts ==
  ASSUME NEW g, NEW sts, Automaton(g, sts), NEW stk, NEW w, Standing(g, sts, stk, w)
  PROVE  /\ Len(stk) \in Nat \ {0} /\ DOMAIN stk = 1..Len(stk) /\ Len(w) \in Nat
         /\ \A k \in 1..Len(stk) : /\ Number(sts, stk[k].state)
                                   /\ stk[k].last \in 0..Len(w)
         /\ \A k \in 2..Len(stk) : Linked(g, sts, w, stk[k - 1], stk[k])
<1>1. PICK S : stk \in Seq(S)
  BY DEF Standing, IsSeq
<1>2. Len(stk) \in Nat \ {0} /\ DOMAIN stk = 1..Len(stk) /\ Len(w) \in Nat
  BY <1>1, LenProperties, EmptySeq DEF Standing
<1>3. Number(sts, 0)
  <2>1. IsSeq(sts) /\ sts # <<>>
    BY DEF Automaton
  <2>2. PICK T : sts \in Seq(T)
    BY <2>1 DEF IsSeq
  <2> QED
    BY <2>1, <2>2, LenProperties, EmptySeq DEF Number
<1>4. Number(sts, stk[1].state) /\ stk[1].last \in 0..Len(w)
  BY <1>2, <1>3 DEF Standing, Bottom
<1>5. ASSUME NEW k \in 2..Len(stk) PROVE Linked(g, sts, w, stk[k - 1], stk[k])
  <2>1. k \in DOMAIN stk /\ k # 1
    BY <1>2
  <2>2. \A i \in DOMAIN stk : i # 1 => Linked(g, sts, w, stk[i - 1], stk[i])
    BY DEF Standing
  <2> QED
    BY <2>1, <2>2, Zenon
<1>6. \A k \in 2..Len(stk) : Number(sts, stk[k].state) /\ stk[k].last \in 0..Len(w)
  BY <1>5 DEF Linked
<1>7. \A k \in 1..Len(stk) : k = 1 \/ k \in 2..Len(stk)
  BY <1>2
<1> QED
  BY <1>2, <1>4, <1>5, <1>6, <1>7

\* A lead of the topmost state tells what is on the stack as far down as its
\* variant begins.
LEMMA PathBelow ==
  ASSUME NEW g, Grammatical(g), NEW sts, Automaton(g, sts), NEW stk, NEW w, Standing(g, sts, stk, w),
         NEW x \in LeadSet(sts[stk[Len(stk)].state + 1])
  PROVE  /\ x.position \in 0..(Len(stk) - 1)
         /\ \A j \in 0..x.position :
              \E y \in LeadSet(sts[stk[Len(stk) - j].state + 1]) :
                y.rule = x.rule /\ y.variant = x.variant /\ y.position = x.position - j
         /\ \A j \in 1..x.position : stk[Len(stk) - j + 1].id = Elements(g, x)[x.position - j + 1]
<1> DEFINE N == Len(stk)
           S(k) == LeadSet(sts[stk[k].state + 1])
           Same(j) == \E y \in S(N - j) :
                        y.rule = x.rule /\ y.variant = x.variant /\ y.position = x.position - j
           Id(j) == j > 0 => stk[N - j + 1].id = Elements(g, x)[x.position - j + 1]
           P(j) == j <= N - 1 /\ Same(j) /\ Id(j)
           Bad == { j \in 0..x.position : ~P(j) }
<1>1. /\ N \in Nat \ {0} /\ \A k \in 1..N : Number(sts, stk[k].state)
      /\ \A k \in 2..N : Linked(g, sts, w, stk[k - 1], stk[k])
      /\ stk[1].state = 0
  BY StandingFacts DEF Standing, Bottom
<1>2. \A k \in 1..N : \A y \in S(k) : IsLead(g, y) /\ y.position \in Nat
  <2> SUFFICES ASSUME NEW k \in 1..N, NEW y \in S(k) PROVE IsLead(g, y) /\ y.position \in Nat
    OBVIOUS
  <2>1. IsLead(g, y)
    BY <1>1 DEF Automaton, WellLabelled, Number
  <2> QED
    BY <2>1, VariantFacts DEF IsLead
<1>3. \A y \in S(1) : y.position = 0
  BY <1>1 DEF Automaton
<1>4. x.position \in Nat /\ x \in S(N)
  BY <1>1, <1>2
<1> HIDE DEF N, S
<1>5. Bad = {}
  <2> SUFFICES ASSUME Bad # {} PROVE FALSE
    OBVIOUS
  <2>1. PICK j \in Bad : \A k \in Bad : j <= k
    <3> Bad \in SUBSET Nat
      BY <1>4
    <3> HIDE DEF Bad
    <3> QED
      BY LeastNumber
  <2>2. j \in 0..x.position /\ ~P(j)
    OBVIOUS
  <2>3. CASE j = 0
    <3>1. N - j = N /\ x.position - j = x.position /\ 0 <= N - 1
      BY <1>1, <1>4, <2>3
    <3>2. Same(j)
      BY <1>4, <3>1
    <3> QED
      BY <2>2, <2>3, <3>1, <3>2
  <2>4. CASE j # 0
    <3>1. j - 1 \in 0..x.position /\ ~(j <= j - 1) /\ j \in Nat
      BY <1>4, <2>2, <2>4
    <3>2. j - 1 <= N - 1 /\ Same(j - 1)
      BY <2>1, <3>1
    <3>3. PICK y \in S(N - (j - 1)) :
            y.rule = x.rule /\ y.variant = x.variant /\ y.position = x.position - (j - 1)
      BY <3>2
    <3>4. y.position > 0 /\ N - (j - 1) \in 1..N
      BY <1>1, <1>4, <2>2, <3>1, <3>2, <3>3
    <3>5. N - (j - 1) # 1
      BY <1>3, <3>3, <3>4
    <3>6. /\ N - (j - 1) \in 2..N /\ N - (j - 1) - 1 = N - j /\ N - j + 1 = N - (j - 1)
          /\ x.position - j + 1 = y.position /\ j <= N - 1
      BY <1>1, <1>4, <3>1, <3>3, <3>4, <3>5
    <3>7. Linked(g, sts, w, stk[N - j], stk[N - j + 1])
      BY <1>1, <3>6
    <3>8. Goes(g, S(N - j), stk[N - j + 1].id, S(N - j + 1))
      BY <3>7 DEF Linked, S
    <3>9. /\ Elements(g, y)[y.position] = stk[N - j + 1].id
          /\ \E z \in S(N - j) : Behind(z, y)
      BY <3>3, <3>4, <3>6, <3>8 DEF Goes
    <3>10. Elements(g, y) = Elements(g, x)
      BY <3>3 DEF Elements
    <3>11. Id(j)
      BY <3>6, <3>9, <3>10
    <3>12. PICK z \in S(N - j) : Behind(z, y)
      BY <3>9
    <3>13. N - j \in 1..N
      <4>1. N \in Nat
        BY <1>1
      <4>2. j \in Nat /\ j <= N - 1
        BY <3>1, <3>6
      <4> QED
        BY <4>1, <4>2
    <3>14. z.position \in Nat
      BY <1>2, <3>13
    <3>15. z.rule = x.rule /\ z.variant = x.variant /\ z.position = x.position - j
      BY <1>4, <3>1, <3>3, <3>12, <3>14 DEF Behind
    <3> QED
      BY <2>2, <3>6, <3>11, <3>15
  <2> QED
    BY <2>3, <2>4
<1>6. \A j \in 0..x.position : P(j)
  BY <1>5
<1>7. x.position \in 0..(N - 1)
  <2>1. x.position \in 0..x.position
    BY <1>4
  <2> QED
    BY <1>1, <1>4, <1>6, <2>1
<1>8. \A j \in 1..x.position : Id(j) /\ j > 0
  BY <1>4, <1>6
<1> QED
  BY <1>6, <1>7, <1>8 DEF N, S

\* What a reduction takes off the stack: the texts of its elements, down to a
\* state that waits for the rule.
LEMMA ReductionFacts ==
  ASSUME NEW g \in Grammars, NEW sts, Automaton(g, sts), NEW stk, NEW w, Standing(g, sts, stk, w),
         NEW x \in LeadSet(sts[stk[Len(stk)].state + 1]), Over(g, x)
  PROVE  LET base == Len(stk) - x.position
         IN  /\ x.position \in Nat \ {0} /\ base \in 1..(Len(stk) - 1)
             /\ \A k \in base..Len(stk) : stk[base].last <= stk[k].last
             /\ SubSeq(w, stk[base].last + 1, Len(w)) \in Sentences[g][x.rule]
             /\ x.rule = Root => base = 1
             /\ x.rule # Root => \E y \in LeadSet(sts[stk[base].state + 1]) : After(g, y) = x.rule
<1> DEFINE N == Len(stk)
           m == x.position
           base == N - m
           cut == [k \in 0..m |-> stk[base + k].last]
<1>1. Grammatical(g)
  BY GrammarsAssumption
<1>2. /\ N \in Nat \ {0} /\ Len(w) \in Nat
      /\ \A k \in 1..N : Number(sts, stk[k].state) /\ stk[k].last \in 0..Len(w)
      /\ \A k \in 2..N : Linked(g, sts, w, stk[k - 1], stk[k])
      /\ stk[N].last = Len(w) /\ w \in Seq(Tokens) /\ Len(w) <= MaxTokens
  BY StandingFacts DEF Standing
<1>3. \A k \in 1..N : WellLabelled(g, LeadSet(sts[stk[k].state + 1]))
  BY <1>2 DEF Number, Automaton
<1>4. IsLead(g, x) /\ m = Len(Elements(g, x)) /\ m \in Nat \ {0}
  <2>1. IsLead(g, x)
    BY <1>2, <1>3 DEF WellLabelled
  <2> QED
    BY <1>1, <2>1, VariantFacts DEF Over
<1>5. /\ m \in 0..(N - 1)
      /\ \A j \in 0..m : \E y \in LeadSet(sts[stk[N - j].state + 1]) :
           y.rule = x.rule /\ y.variant = x.variant /\ y.position = m - j
      /\ \A j \in 1..m : stk[N - j + 1].id = Elements(g, x)[m - j + 1]
  BY <1>1, PathBelow
<1> HIDE DEF N, m
<1>6. base \in 1..(N - 1)
  BY <1>2, <1>4, <1>5
<1>7. \A k \in 1..m : /\ base + k \in 2..N /\ (base + k) - 1 = base + (k - 1) /\ k - 1 \in 0..m /\ k \in 0..m
                      /\ m - k + 1 \in 1..m /\ N - (m - k + 1) + 1 = base + k /\ m - (m - k + 1) + 1 = k
  BY <1>2, <1>4, <1>6
<1>8. \A k \in 0..m : cut[k] = stk[base + k].last /\ cut[k] \in 0..Len(w)
  <2> SUFFICES ASSUME NEW k \in 0..m PROVE cut[k] = stk[base + k].last /\ cut[k] \in 0..Len(w)
    OBVIOUS
  <2>1. base + k \in 1..N
    BY <1>2, <1>4, <1>6
  <2> QED
    BY <1>2, <2>1
<1> HIDE DEF cut
<1>9. \A k \in 1..m : /\ cut[k - 1] <= cut[k]
                      /\ SubSeq(w, cut[k - 1] + 1, cut[k]) \in Texts(g, Sentences[g], Elements(g, x)[k])
  <2> SUFFICES ASSUME NEW k \in 1..m
               PROVE  /\ cut[k - 1] <= cut[k]
                      /\ SubSeq(w, cut[k - 1] + 1, cut[k]) \in Texts(g, Sentences[g], Elements(g, x)[k])
    OBVIOUS
  <2>1. stk[base + k].id = Elements(g, x)[k]
    BY <1>5, <1>7
  <2>2. Linked(g, sts, w, stk[base + (k - 1)], stk[base + k])
    BY <1>2, <1>7
  <2>3. cut[k - 1] = stk[base + (k - 1)].last /\ cut[k] = stk[base + k].last
    BY <1>7, <1>8
  <2> HIDE DEF base
  <2> QED
    BY <2>1, <2>2, <2>3 DEF Linked
<1>10. cut[0] = stk[base].last /\ cut[m] = Len(w)
  <2>1. 0 \in 0..m /\ m \in 0..m /\ base + 0 = base /\ base + m = N
    BY <1>2, <1>4, <1>6
  <2> QED
    BY <1>2, <1>8, <2>1
<1>11. SubSeq(w, stk[base].last + 1, Len(w)) \in Sentences[g][x.rule]
  <2>1. SubSeq(w, cut[0] + 1, cut[m]) \in SentencesOf(g, Sentences[g], Elements(g, x))
    BY <1>2, <1>4, <1>8, <1>9, PiecesJoin
  <2>2. SubSeq(w, stk[base].last + 1, Len(w)) \in SentencesOf(g, Sentences[g], Elements(g, x))
    BY <1>10, <2>1
  <2> QED
    BY <1>4, <2>2, VariantDerives
<1>12. PICK y \in LeadSet(sts[stk[base].state + 1]) : y.rule = x.rule /\ y.position = 0
  <2>1. m \in 0..m /\ m - m = 0
    BY <1>4
  <2> QED
    BY <1>5, <2>1
<1>13. x.rule = Root => base = 1
  <2> SUFFICES ASSUME base # 1, x.rule = Root PROVE FALSE
    OBVIOUS
  <2>1. base \in 2..N
    BY <1>2, <1>6
  <2>2. Linked(g, sts, w, stk[base - 1], stk[base])
    BY <1>2, <2>1
  <2> HIDE DEF base
  <2>3. y.position > 0
    BY <1>12, <2>2 DEF Linked, Goes
  <2> QED
    BY <1>12, <2>3
<1>14. x.rule # Root => \E z \in LeadSet(sts[stk[base].state + 1]) : After(g, z) = x.rule
  <2>1. WellLabelled(g, LeadSet(sts[stk[base].state + 1]))
    BY <1>2, <1>3, <1>6
  <2> QED
    BY <1>12, <2>1 DEF WellLabelled
<1>15. \A k \in base..N : stk[base].last <= stk[k].last
  <2> DEFINE Bad == { k \in 0..m : ~(cut[0] <= cut[k]) }
  <2>1. Bad = {}
    <3> SUFFICES ASSUME Bad # {} PROVE FALSE
      OBVIOUS
    <3>1. PICK k \in Bad : \A j \in Bad : k <= j
      <4> Bad \in SUBSET Nat
        BY <1>4
      <4> HIDE DEF Bad
      <4> QED
        BY LeastNumber
    <3>2. k \in 0..m /\ ~(cut[0] <= cut[k]) /\ 0 \in 0..m
      BY <1>4
    <3>3. k # 0
      BY <1>2, <1>8, <3>2
    <3>4. k \in 1..m /\ k - 1 \in 0..m /\ ~(k <= k - 1)
      BY <1>4, <3>2, <3>3
    <3>5. cut[0] <= cut[k - 1] /\ cut[k - 1] <= cut[k]
      BY <1>9, <3>1, <3>4
    <3> QED
      BY <1>2, <1>8, <3>2, <3>4, <3>5
  <2> SUFFICES ASSUME NEW k \in base..N PROVE stk[base].last <= stk[k].last
    OBVIOUS
  <2>2. k - base \in 0..m /\ base + (k - base) = k
    <3>1. N \in Int /\ m \in Int /\ k \in Int /\ base \in Int /\ base = N - m /\ base <= k /\ k <= N
      BY <1>2, <1>4, <1>6
    <3> HIDE DEF base
    <3> QED
      BY <3>1
  <2>3. cut[k - base] = stk[k].last /\ cut[0] <= cut[k - base]
    BY <1>8, <2>1, <2>2
  <2> QED
    BY <1>10, <2>3
<1> QED
  BY <1>4, <1>6, <1>11, <1>13, <1>14, <1>15 DEF N, m

\* A text read on keeps the parts it had.
LEMMA PartKept ==
  ASSUME NEW w \in Seq(Tokens), NEW v \in Seq(Tokens), Len(w) <= Len(v),
         \A i \in 1..Len(w) : v[i] = w[i],
         NEW a \in 0..Len(w), NEW b \in 0..Len(w)
  PROVE  SubSeq(v, a + 1, b) = SubSeq(w, a + 1, b)
<1>1. Len(w) \in Nat /\ Len(v) \in Nat
  BY LenProperties
<1>2. \A i \in (a + 1)..b : i \in 1..Len(w) /\ w[i] \in Tokens /\ v[i] = w[i]
  BY <1>1, ElementOfSeq
<1> DEFINE s == SubSeq(v, a + 1, b)
           t == SubSeq(w, a + 1, b)
<1>3. a + 1 \in Int /\ b \in Int
  BY <1>1
<1>4. /\ s \in Seq(Tokens) /\ Len(s) = (IF a + 1 <= b THEN b - (a + 1) + 1 ELSE 0)
      /\ \A i \in 1..(b - (a + 1) + 1) : s[i] = v[(a + 1) + i - 1]
  BY <1>2, <1>3, SubSeqProperties
<1>5. /\ t \in Seq(Tokens) /\ Len(t) = (IF a + 1 <= b THEN b - (a + 1) + 1 ELSE 0)
      /\ \A i \in 1..(b - (a + 1) + 1) : t[i] = w[(a + 1) + i - 1]
  BY <1>2, <1>3, SubSeqProperties
<1> HIDE DEF s, t
<1>6. \A i \in 1..Len(s) : s[i] = t[i]
  <2> SUFFICES ASSUME NEW i \in 1..Len(s) PROVE s[i] = t[i]
    OBVIOUS
  <2>1. i \in 1..(b - (a + 1) + 1) /\ (a + 1) + i - 1 \in (a + 1)..b
    BY <1>1, <1>3, <1>4
  <2> QED
    BY <1>2, <1>4, <1>5, <2>1
<1>7. s = t
  BY <1>4, <1>5, <1>6, SeqEqual
<1> QED
  BY <1>7 DEF s, t

\* Entries off the top, a linked one on it.
LEMMA Pushed ==
  ASSUME NEW g, NEW sts, Automaton(g, sts), NEW stk, NEW w, Standing(g, sts, stk, w),
         NEW n \in 1..Len(stk), NEW e, NEW v \in Seq(Tokens),
         Linked(g, sts, v, stk[n], e), e.last = Len(v), Len(v) <= MaxTokens,
         Len(w) <= Len(v), \A i \in 1..Len(w) : v[i] = w[i]
  PROVE  Standing(g, sts, Append(SubSeq(stk, 1, n), e), v)
<1> DEFINE kept == SubSeq(stk, 1, n)
           new == Append(kept, e)
<1>1. /\ Len(stk) \in Nat \ {0} /\ DOMAIN stk = 1..Len(stk) /\ Len(w) \in Nat
      /\ \A k \in 1..Len(stk) : stk[k].last \in 0..Len(w)
      /\ \A k \in 2..Len(stk) : Linked(g, sts, w, stk[k - 1], stk[k])
      /\ w \in Seq(Tokens) /\ stk[1] = Bottom
  BY StandingFacts DEF Standing
<1>2. PICK S : stk \in Seq(S)
  BY DEF Standing, IsSeq
<1>3. /\ kept \in Seq(S) /\ Len(kept) = n /\ \A k \in 1..n : kept[k] = stk[k]
  <2>1. 1 \in Int /\ n \in Int /\ 1 <= n
    BY <1>1
  <2>2. \A k \in 1..n : k \in 1..Len(stk)
    BY <1>1
  <2>3. \A k \in 1..n : stk[k] \in S
    BY <1>2, <2>2, ElementOfSeq
  <2>4. /\ kept \in Seq(S) /\ Len(kept) = (IF 1 <= n THEN n - 1 + 1 ELSE 0)
        /\ \A k \in 1..(n - 1 + 1) : kept[k] = stk[1 + k - 1]
    BY <2>1, <2>3, SubSeqProperties
  <2>5. n - 1 + 1 = n /\ \A k \in 1..n : 1 + k - 1 = k
    BY <2>1
  <2> QED
    BY <2>1, <2>4, <2>5
<1> HIDE DEF kept
<1>4. /\ IsSeq(new) /\ new # <<>> /\ DOMAIN new = 1..(n + 1)
      /\ \A k \in 1..n : new[k] = kept[k]
      /\ new[n + 1] = e
  <2>1. IsSeq(kept)
    BY <1>3 DEF IsSeq
  <2>2. DOMAIN kept = 1..n
    BY <1>3, LenProperties
  <2> QED
    BY <1>3, <2>1, <2>2, SeqGrows
<1>5. Len(new) = n + 1
  <2>1. Len(new) \in Nat /\ DOMAIN new = 1..Len(new)
    BY <1>4, SeqGrows
  <2> QED
    BY <1>1, <1>4, <2>1
<1> HIDE DEF new
<1>6. new[1] = Bottom
  <2>1. 1 \in 1..n
    BY <1>1
  <2> QED
    BY <1>1, <1>3, <1>4, <2>1
<1>7. ASSUME NEW k \in DOMAIN new, k # 1
      PROVE  Linked(g, sts, v, new[k - 1], new[k])
  <2>1. CASE k = n + 1
    <3>1. (n + 1) - 1 = n /\ n \in 1..n
      BY <1>1
    <3> QED
      BY <1>3, <1>4, <2>1, <3>1
  <2>2. CASE k # n + 1
    <3>1. k \in 2..Len(stk) /\ k \in 1..n /\ k - 1 \in 1..n /\ k - 1 \in 1..Len(stk)
      BY <1>1, <1>4, <1>7, <2>2
    <3>2. Linked(g, sts, w, stk[k - 1], stk[k]) /\ new[k - 1] = stk[k - 1] /\ new[k] = stk[k]
      BY <1>1, <1>3, <1>4, <3>1
    <3>3. stk[k].first \in 0..Len(w) /\ stk[k].last \in 0..Len(w)
      BY <1>1, <3>1, <3>2 DEF Linked
    <3>4. SubSeq(v, stk[k].first + 1, stk[k].last) = SubSeq(w, stk[k].first + 1, stk[k].last)
      BY <1>1, <3>3, PartKept
    <3>5. stk[k].last \in 0..Len(v)
      <4>1. Len(v) \in Nat
        BY LenProperties
      <4> QED
        BY <1>1, <3>3, <4>1
    <3> QED
      BY <3>2, <3>4, <3>5 DEF Linked
  <2> QED
    BY <2>1, <2>2
<1>8. new[Len(new)].last = Len(v)
  BY <1>4, <1>5
<1>9. Standing(g, sts, new, v)
  BY <1>4, <1>6, <1>7, <1>8 DEF Standing
<1> QED
  BY <1>9 DEF new, kept

LEMMA MatchFacts ==
  ASSUME IsSeq(Actions), Matching # {}
  PROVE  \E i \in DOMAIN Actions : FirstMatch = Actions[i] /\ token \in Actions[i].tokens
<1>1. DOMAIN Actions \subseteq Nat
  BY SeqGrows
<1>2. Matching \in SUBSET Nat
  BY <1>1 DEF Matching
<1>3. \E i \in Matching : \A j \in Matching : i <= j
  BY <1>2, LeastNumber
<1>4. PICK i \in Matching : FirstMatch = Actions[i]
  BY <1>3 DEF FirstMatch
<1> QED
  BY <1>4 DEF Matching

\* The action the parser takes is a shift of the token or the reduction of a
\* lead that is over.
LEMMA ActionTaken ==
  ASSUME grammar \in Grammars, NEW sts, Emitted(sts), Standing(grammar, sts, stack, consumed), Matching # {}
  PROVE  LET S == LeadSet(sts[stack[Len(stack)].state + 1])
             a == FirstMatch
         IN  \/ /\ a.rule = Nil /\ a.state_or_length >= 0 /\ Number(sts, a.state_or_length)
                /\ token \in Tokens
                /\ Goes(grammar, S, token, LeadSet(sts[a.state_or_length + 1]))
             \/ \E x \in S :
                  /\ Over(grammar, x) /\ x.position > 0
                  /\ a.state_or_length = 0 - x.position /\ a.state_or_length < 0
                  /\ IF x.rule = Root THEN a.rule = Nil /\ token = Eof
                     ELSE a.rule = x.rule /\ a.rule # Nil
<1> DEFINE n == current.state
           S == LeadSet(sts[n + 1])
<1>1. Grammatical(grammar) /\ Automaton(grammar, sts)
  BY GrammarsAssumption DEF Emitted
<1>2. Number(sts, n)
  <2>1. Len(stack) \in 1..Len(stack) /\ Number(sts, stack[Len(stack)].state)
    BY <1>1, StandingFacts
  <2> QED
    BY <2>1 DEF current
<1>3. IsSeq(Actions) /\ Actions = table[n + 1].actions
  BY <1>1, <1>2, EmittedRows DEF Emitted, Actions
<1>4. PICK i \in DOMAIN Actions : FirstMatch = Actions[i] /\ token \in Actions[i].tokens
  BY <1>3, MatchFacts
<1> DEFINE a == Actions[i]
<1>5. RowFits(grammar, sts, n, a)
  <2>1. table = [k \in DOMAIN sts |-> EmitState(sts[k])]
    BY DEF Emitted
  <2> HIDE DEF n
  <2>2. \A k \in DOMAIN table[n + 1].actions : RowFits(grammar, sts, n, table[n + 1].actions[k])
    BY <1>1, <1>2, <2>1, EmittedRows
  <2> QED
    BY <1>3, <2>2
<1>6. \A x \in S : x.rule = Root => x.terminals = {Eof}
  BY <1>1, <1>2 DEF Automaton, WellLabelled, Number, Eof, TKN_EOF
<1>7. FirstMatch = a /\ token \in a.tokens /\ S = LeadSet(sts[stack[Len(stack)].state + 1])
  BY <1>4 DEF current
<1>8. \/ /\ a.rule = Nil /\ a.state_or_length >= 0 /\ Number(sts, a.state_or_length)
         /\ \E symbol \in Tokens : a.tokens = {symbol} /\ Goes(grammar, S, symbol, LeadSet(sts[a.state_or_length + 1]))
      \/ \E x \in S : /\ Over(grammar, x) /\ x.position > 0 /\ a.tokens = x.terminals
                      /\ a.state_or_length = 0 - x.position /\ a.state_or_length < 0
                      /\ IF x.rule = Root THEN a.rule = Nil ELSE a.rule = x.rule /\ a.rule # Nil
  <2> HIDE DEF a
  <2> QED
    BY <1>5 DEF RowFits
<1> HIDE DEF a, S
<1> QED
  BY <1>6, <1>7, <1>8

\* A state that waits for a rule has a goto for it.
LEMMA GotoFacts ==
  ASSUME grammar \in Grammars, NEW sts, Emitted(sts), NEW base, Number(sts, base.state), NEW rule,
         IsRule(grammar, rule), \E y \in LeadSet(sts[base.state + 1]) : After(grammar, y) = rule, NEW old
  PROVE  /\ \E k \in DOMAIN table[base.state + 1].gotos : table[base.state + 1].gotos[k].rule = rule
         /\ Number(sts, Goto(base, rule, old))
         /\ Goes(grammar, LeadSet(sts[base.state + 1]), rule, LeadSet(sts[Goto(base, rule, old) + 1]))
<1> DEFINE n == base.state
           gotos == table[n + 1].gotos
           hits == { i \in DOMAIN gotos : gotos[i].rule = rule }
<1>1. Grammatical(grammar) /\ Automaton(grammar, sts) /\ n + 1 \in DOMAIN sts
  BY GrammarsAssumption DEF Emitted, Number
<1>2. gotos = sts[n + 1].rule_actions /\ IsSeq(gotos)
  BY <1>1, EmittedRows DEF Emitted
<1>3. Closed(grammar, sts[n + 1])
  BY <1>1 DEF Emitted
<1>4. hits # {}
  <2>1. PICK y \in LeadSet(sts[n + 1]) : After(grammar, y) = rule
    OBVIOUS
  <2> QED
    BY <1>2, <1>3, <2>1 DEF Closed
<1>5. Goto(base, rule, old) = gotos[CHOOSE i \in hits : \A j \in hits : i <= j].state
  BY <1>4 DEF Goto
<1>6. hits \in SUBSET Nat
  BY <1>2, SeqGrows
<1>7. \E i \in hits : \A j \in hits : i <= j
  <2> HIDE DEF hits
  <2> QED
    BY <1>4, <1>6, LeastNumber
<1>8. PICK i \in hits : Goto(base, rule, old) = gotos[i].state
  <2> HIDE DEF hits, gotos
  <2> QED
    BY <1>5, <1>7
<1>9. GotoFits(grammar, sts, n + 1, gotos[i]) /\ gotos[i].rule = rule
  BY <1>1, <1>2 DEF Automaton
<1> HIDE DEF gotos
<1>10. \E k \in DOMAIN gotos : gotos[k].rule = rule
  BY <1>4
<1> QED
  BY <1>8, <1>9, <1>10 DEF GotoFits, gotos

-----------------------------------------------------------------------------
(* parse() keeps the stack standing.                                       *)

LEMMA parseStarts ==
  ASSUME NEW sts, consumed = <<>>, parse
  PROVE  Standing(grammar, sts, stack', consumed') /\ token' \in Delivered(Len(consumed'))
<1>1. stack' = <<Bottom>> /\ consumed' = <<>> /\ token' \in Delivered(0)
  BY DEF parse, Bottom
<1>2. Len(<<>>) = 0 /\ <<>> \in Seq(Tokens) /\ 0 <= MaxTokens
  BY TokensAssumption
<1>3. /\ <<Bottom>> \in Seq({Bottom}) /\ <<Bottom>> # <<>> /\ DOMAIN <<Bottom>> = {1}
      /\ <<Bottom>>[1] = Bottom /\ Len(<<Bottom>>) = 1
  OBVIOUS
<1>4. IsSeq(<<Bottom>>) /\ Bottom.last = 0
  BY <1>3 DEF IsSeq, Bottom
<1>5. Standing(grammar, sts, <<Bottom>>, <<>>)
  BY <1>2, <1>3, <1>4 DEF Standing
<1> QED
  BY <1>1, <1>2, <1>5

LEMMA acceptKeeps ==
  ASSUME grammar \in Grammars, NEW sts, Emitted(sts), Standing(grammar, sts, stack, consumed), accept
  PROVE  token = Eof /\ consumed \in Sentences[grammar][Root]
<1>1. Matching # {} /\ FirstMatch.state_or_length < 0 /\ FirstMatch.rule = Nil
  BY DEF accept, NoRule, Nil
<1>2. Automaton(grammar, sts)
  BY DEF Emitted
<1>3. ~(FirstMatch.state_or_length >= 0 /\ Number(sts, FirstMatch.state_or_length))
  BY <1>1 DEF Number
<1>4. PICK x \in LeadSet(sts[stack[Len(stack)].state + 1]) :
        /\ Over(grammar, x)
        /\ IF x.rule = Root THEN token = Eof ELSE FirstMatch.rule # Nil
  BY <1>1, <1>3, ActionTaken
<1>5. x.rule = Root /\ token = Eof
  BY <1>1, <1>4
<1>6. /\ SubSeq(consumed, stack[1].last + 1, Len(consumed)) \in Sentences[grammar][Root]
  BY <1>2, <1>4, <1>5, ReductionFacts
<1>7. stack[1].last = 0 /\ consumed \in Seq(Tokens)
  BY DEF Standing, Bottom
<1>8. SubSeq(consumed, stack[1].last + 1, Len(consumed)) = consumed
  BY <1>7, SubSeqFull
<1> QED
  BY <1>5, <1>6, <1>8

LEMMA shiftKeeps ==
  ASSUME grammar \in Grammars, NEW sts, Emitted(sts), Standing(grammar, sts, stack, consumed),
         token \in Delivered(Len(consumed)), shift
  PROVE  Standing(grammar, sts, stack', consumed') /\ token' \in Delivered(Len(consumed'))
<1> DEFINE a == FirstMatch
           e == [state |-> a.state_or_length, id |-> token,
                 first |-> Len(consumed), last |-> Len(consumed) + 1]
           v == Append(consumed, token)
           S == LeadSet(sts[stack[Len(stack)].state + 1])
<1>1. /\ Matching # {} /\ a.state_or_length >= 0
      /\ stack' = Append(stack, e) /\ consumed' = v /\ token' \in Delivered(Len(consumed) + 1)
  BY DEF shift
<1>2. Automaton(grammar, sts) /\ Grammatical(grammar)
  BY GrammarsAssumption DEF Emitted
<1>3. /\ Len(stack) \in Nat \ {0} /\ consumed \in Seq(Tokens) /\ Len(consumed) \in Nat
      /\ Len(consumed) <= MaxTokens /\ stack[Len(stack)].last = Len(consumed)
  BY <1>2, StandingFacts DEF Standing
<1> HIDE DEF a
<1>4. Number(sts, a.state_or_length) /\ token \in Tokens /\ Goes(grammar, S, token, LeadSet(sts[a.state_or_length + 1]))
  <2>1. \A x \in S : ~(a.state_or_length = 0 - x.position /\ a.state_or_length < 0)
    <3> SUFFICES ASSUME NEW x \in S, a.state_or_length = 0 - x.position, a.state_or_length < 0 PROVE FALSE
      OBVIOUS
    <3>1. Len(stack) \in 1..Len(stack)
      BY <1>3
    <3>2. IsLead(grammar, x)
      BY <1>2, <3>1, StandingFacts DEF Automaton, WellLabelled, Number
    <3>3. x.position \in Nat
      BY <1>2, <3>2, VariantFacts DEF IsLead
    <3> QED
      BY <1>1, <3>3
  <2> QED
    BY <1>1, <2>1, ActionTaken DEF a
<1>5. Len(consumed) < MaxTokens
  BY <1>3, <1>4, TokensAssumption DEF Delivered
<1>6. /\ v \in Seq(Tokens) /\ Len(v) = Len(consumed) + 1 /\ v[Len(consumed) + 1] = token
      /\ \A i \in 1..Len(consumed) : v[i] = consumed[i]
  BY <1>3, <1>4, AppendProperties
<1> HIDE DEF v
<1>7. /\ e.state = a.state_or_length /\ e.id = token /\ e.first = Len(consumed) /\ e.last = Len(consumed) + 1
      /\ e = [state |-> e.state, id |-> e.id, first |-> e.first, last |-> e.last]
  OBVIOUS
<1> HIDE DEF e
<1>8. SubSeq(v, e.first + 1, e.last) = <<token>>
  <2> DEFINE n == Len(consumed) + 1
  <2>1. n \in 1..Len(v) /\ n \in n..Len(v) /\ n \in Int /\ n + 1 \in Int /\ n < n + 1
    BY <1>3, <1>6
  <2> HIDE DEF n
  <2>2. SubSeq(v, n, n) = <<v[n]>> \o SubSeq(v, n + 1, n)
    BY <1>6, <2>1, SubSeqRecursiveFirst
  <2>3. SubSeq(v, n + 1, n) = <<>>
    BY <2>1, SubSeqEmpty
  <2>4. <<v[n]>> \in Seq({v[n]})
    OBVIOUS
  <2>5. SubSeq(v, n, n) = <<v[n]>>
    BY <2>2, <2>3, <2>4, ConcatEmptySeq
  <2>6. e.first + 1 = n /\ e.last = n /\ v[n] = token
    BY <1>6, <1>7 DEF n
  <2> QED
    BY <2>5, <2>6
<1>9. SubSeq(v, e.first + 1, e.last) \in Texts(grammar, Sentences[grammar], e.id)
  BY <1>2, <1>4, <1>7, <1>8 DEF Texts, Grammatical, IsRule
<1>10. Linked(grammar, sts, v, stack[Len(stack)], e)
  <2>1. e.last \in 0..Len(v) /\ e.first <= e.last
    BY <1>3, <1>6, <1>7
  <2> QED
    BY <1>3, <1>4, <1>7, <1>9, <2>1 DEF Linked
<1>11. Standing(grammar, sts, Append(SubSeq(stack, 1, Len(stack)), e), v)
  <2>1. Len(stack) \in 1..Len(stack) /\ Len(v) <= MaxTokens /\ Len(consumed) <= Len(v) /\ e.last = Len(v)
    BY <1>3, <1>5, <1>6, <1>7, TokensAssumption
  <2> QED
    BY <1>2, <1>6, <1>10, <2>1, Pushed
<1>12. SubSeq(stack, 1, Len(stack)) = stack
  <2>1. PICK T : stack \in Seq(T)
    BY DEF Standing, IsSeq
  <2> QED
    BY <2>1, SubSeqFull
<1> QED
  BY <1>1, <1>6, <1>11, <1>12

\* The symbols of a reduction are on the stack, above a state with a goto.
LEMMA Reducing ==
  ASSUME grammar \in Grammars, NEW sts, Emitted(sts), Standing(grammar, sts, stack, consumed),
         Matching # {}, FirstMatch.state_or_length < 0, FirstMatch.rule # Nil
  PROVE  LET base == Len(stack) + FirstMatch.state_or_length
             rule == FirstMatch.rule
         IN  /\ base \in 1..(Len(stack) - 1) /\ FirstMatch.state_or_length \in Int
             /\ IsRule(grammar, rule)
             /\ Number(sts, stack[base].state)
             /\ \E y \in LeadSet(sts[stack[base].state + 1]) : After(grammar, y) = rule
             /\ stack[base].last <= Len(consumed)
             /\ SubSeq(consumed, stack[base].last + 1, Len(consumed)) \in Sentences[grammar][rule]
<1> DEFINE base == Len(stack) + FirstMatch.state_or_length
<1>1. Automaton(grammar, sts) /\ Grammatical(grammar)
  BY GrammarsAssumption DEF Emitted
<1>2. PICK x \in LeadSet(sts[stack[Len(stack)].state + 1]) :
        /\ Over(grammar, x) /\ FirstMatch.state_or_length = 0 - x.position
        /\ IF x.rule = Root THEN FirstMatch.rule = Nil ELSE FirstMatch.rule = x.rule
  BY ActionTaken
<1>3. x.rule = FirstMatch.rule /\ x.rule # Root
  BY <1>2
<1> DEFINE at == Len(stack) - x.position
<1>4. /\ Len(stack) \in Nat \ {0} /\ stack[Len(stack)].last = Len(consumed)
      /\ \A k \in 1..Len(stack) : Number(sts, stack[k].state)
  BY <1>1, StandingFacts DEF Standing
<1>5. /\ x.position \in Nat \ {0} /\ at \in 1..(Len(stack) - 1)
      /\ \A k \in at..Len(stack) : stack[at].last <= stack[k].last
      /\ SubSeq(consumed, stack[at].last + 1, Len(consumed)) \in Sentences[grammar][x.rule]
      /\ \E y \in LeadSet(sts[stack[at].state + 1]) : After(grammar, y) = x.rule
  BY <1>1, <1>2, <1>3, ReductionFacts
<1>6. base = at /\ at \in 1..Len(stack) /\ Len(stack) \in at..Len(stack) /\ FirstMatch.state_or_length \in Int
  BY <1>2, <1>4, <1>5
<1>7. IsRule(grammar, x.rule)
  <2>1. Len(stack) \in 1..Len(stack)
    BY <1>4
  <2>2. IsLead(grammar, x)
    BY <1>1, <1>4, <2>1 DEF Automaton, WellLabelled, Number
  <2> QED
    BY <2>2 DEF IsLead
<1> HIDE DEF at
<1> QED
  BY <1>3, <1>4, <1>5, <1>6, <1>7

LEMMA reduceKeeps ==
  ASSUME grammar \in Grammars, NEW sts, Emitted(sts), Standing(grammar, sts, stack, consumed), reduce
  PROVE  Standing(grammar, sts, stack', consumed')
<1> DEFINE rule == FirstMatch.rule
           n == 0 - FirstMatch.state_or_length
           at == Len(stack) - n + 1
           base == Len(stack) + FirstMatch.state_or_length
           goto == Goto(stack[at - 1], rule, stack[at].state)
           e == [Reduced(stack[at], rule) EXCEPT !.state = Goto(Base(at), rule, @)]
<1>1. /\ Matching # {} /\ FirstMatch.state_or_length < 0 /\ rule # Nil
      /\ stack' = Append(SubSeq(stack, 1, at - 1), e) /\ consumed' = consumed
  BY DEF reduce, NoRule, Nil
<1>2. /\ base \in 1..(Len(stack) - 1) /\ FirstMatch.state_or_length \in Int
      /\ IsRule(grammar, rule)
      /\ Number(sts, stack[base].state)
      /\ \E y \in LeadSet(sts[stack[base].state + 1]) : After(grammar, y) = rule
      /\ stack[base].last <= Len(consumed)
      /\ SubSeq(consumed, stack[base].last + 1, Len(consumed)) \in Sentences[grammar][rule]
  BY <1>1, Reducing
<1> HIDE DEF rule
<1>3. Automaton(grammar, sts)
  BY DEF Emitted
<1>4. /\ Len(stack) \in Nat \ {0} /\ stack[Len(stack)].last = Len(consumed) /\ Len(consumed) \in Nat
      /\ consumed \in Seq(Tokens) /\ Len(consumed) <= MaxTokens
      /\ \A k \in 2..Len(stack) : Linked(grammar, sts, consumed, stack[k - 1], stack[k])
  BY <1>3, StandingFacts DEF Standing
<1>5. at - 1 = base /\ at \in 2..Len(stack) /\ base \in 1..Len(stack)
  BY <1>2, <1>4
<1> HIDE DEF base, at
<1>6. Linked(grammar, sts, consumed, stack[base], stack[at])
  BY <1>4, <1>5
<1>7. e = [state |-> goto, id |-> rule, first |-> stack[base].last, last |-> Len(consumed)]
  <2>1. /\ stack[at] = [state |-> stack[at].state, id |-> stack[at].id,
                        first |-> stack[at].first, last |-> stack[at].last]
        /\ stack[at].first = stack[base].last
    BY <1>6 DEF Linked
  <2> DEFINE s == stack[at]
  <2>2. Reduced(s, rule) = [state |-> s.state, id |-> rule, first |-> s.first, last |-> Len(consumed)]
    <3>1. current.last = Len(consumed)
      BY <1>4 DEF current
    <3>2. s = [state |-> s.state, id |-> s.id, first |-> s.first, last |-> s.last]
      BY <2>1
    <3> DEFINE c == current.last
    <3>3. Reduced(s, rule) = [s EXCEPT !.id = rule, !.last = c]
      BY DEF Reduced
    <3> HIDE DEF s, c
    <3>4. [s EXCEPT !.id = rule, !.last = c] = [state |-> s.state, id |-> rule, first |-> s.first, last |-> c]
      <4> DEFINE f == [s EXCEPT !.id = rule]
      <4>1. f = [state |-> s.state, id |-> rule, first |-> s.first, last |-> s.last]
        BY <3>2
      <4>2. [s EXCEPT !.id = rule, !.last = c] = [f EXCEPT !.last = c]
        BY <3>2
      <4> HIDE DEF f
      <4>3. [f EXCEPT !.last = c] = [state |-> s.state, id |-> rule, first |-> s.first, last |-> c]
        BY <4>1
      <4> QED
        BY <4>2, <4>3
    <3> QED
      BY <3>1, <3>3, <3>4 DEF c
  <2>3. Base(at) = stack[at - 1] /\ Reduced(s, rule).state = s.state
    BY <2>2 DEF Base
  <2> HIDE DEF s
  <2>4. [Reduced(s, rule) EXCEPT !.state = Goto(Base(at), rule, @)] =
          [state |-> Goto(stack[at - 1], rule, s.state), id |-> rule, first |-> s.first, last |-> Len(consumed)]
    BY <2>2, <2>3
  <2> QED
    BY <2>1, <2>4 DEF s
<1>8. Number(sts, goto) /\ Goes(grammar, LeadSet(sts[stack[base].state + 1]), rule, LeadSet(sts[goto + 1]))
  BY <1>2, <1>5, GotoFacts
<1> HIDE DEF goto, e
<1>9. Linked(grammar, sts, consumed, stack[base], e)
  <2>1. /\ e.state = goto /\ e.id = rule /\ e.first = stack[base].last /\ e.last = Len(consumed)
        /\ e = [state |-> e.state, id |-> e.id, first |-> e.first, last |-> e.last]
    BY <1>7
  <2>2. e.last \in 0..Len(consumed) /\ e.first <= e.last
    BY <1>2, <1>4, <2>1
  <2>3. SubSeq(consumed, e.first + 1, e.last) \in Texts(grammar, Sentences[grammar], e.id)
    BY <1>2, <2>1 DEF Texts
  <2> QED
    BY <1>2, <1>8, <2>1, <2>2, <2>3 DEF Linked
<1>10. e.last = Len(consumed)
  BY <1>7
<1>11. Standing(grammar, sts, Append(SubSeq(stack, 1, base), e), consumed)
  BY <1>3, <1>4, <1>5, <1>9, <1>10, Pushed
<1> QED
  BY <1>1, <1>5, <1>11

-----------------------------------------------------------------------------
(* The theorems.                                                           *)

StackInvariant ==
  /\ table = <<>> => status = "idle"
  /\ status = "idle" => consumed = <<>>
  /\ status # "idle" => /\ token \in Delivered(Len(consumed))
                        /\ \E sts : Emitted(sts) /\ Standing(grammar, sts, stack, consumed)
  /\ AcceptsOnlySentences

IInv == GeneratorInvariant /\ StackInvariant

LEMMA Starts ==
  ASSUME Init
  PROVE  IInv
<1>1. GeneratorInvariant
  BY GeneratorStarts DEF Init
<1>2. status = "idle" /\ consumed = <<>>
  BY DEF Init, ParserInit
<1> QED
  BY <1>1, <1>2 DEF IInv, StackInvariant, AcceptsOnlySentences

LEMMA ParseKeeps ==
  ASSUME IInv, table # <<>>, ParserNext, UNCHANGED <<grammar, states, index, next>>
  PROVE  IInv'
<1>1. /\ grammar \in Grammars /\ states = <<>> /\ index \in Nat /\ \E sts : Emitted(sts)
      /\ status = "idle" => consumed = <<>>
      /\ status # "idle" => /\ token \in Delivered(Len(consumed))
                            /\ \E sts : Emitted(sts) /\ Standing(grammar, sts, stack, consumed)
  BY DEF IInv, GeneratorInvariant, StackInvariant
<1>2. table' = table /\ grammar' = grammar /\ states' = states /\ index' = index
  BY DEF ParserNext, parse, syntax_error, accept, reduce, shift
<1>3. \A sts : Emitted(sts)' <=> Emitted(sts)
  BY <1>2 DEF Emitted
<1>4. GeneratorInvariant'
  BY <1>1, <1>2, <1>3 DEF GeneratorInvariant
<1>5. CASE parse
  <2>1. PICK sts : Emitted(sts)
    BY <1>1
  <2>2. Standing(grammar, sts, stack', consumed') /\ token' \in Delivered(Len(consumed'))
    BY <1>1, <1>5, parseStarts DEF parse
  <2>3. status' = "parsing"
    BY <1>5 DEF parse
  <2>4. Emitted(sts)' /\ Standing(grammar, sts, stack, consumed)'
    BY <1>2, <1>3, <2>1, <2>2 DEF Standing, Linked
  <2> QED
    BY <1>2, <1>4, <2>2, <2>3, <2>4 DEF IInv, StackInvariant, AcceptsOnlySentences, Delivered
<1>6. CASE ~parse
  <2>1. /\ syntax_error \/ accept \/ reduce \/ shift
        /\ status = "parsing"
    BY <1>6 DEF ParserNext, syntax_error, accept, reduce, shift
  <2>2. PICK sts : Emitted(sts) /\ Standing(grammar, sts, stack, consumed)
    BY <1>1, <2>1
  <2>3. token \in Delivered(Len(consumed))
    BY <1>1, <2>1
  <2>4. Standing(grammar, sts, stack', consumed') /\ token' \in Delivered(Len(consumed'))
    <3>1. CASE syntax_error \/ accept
      BY <2>2, <2>3, <3>1 DEF syntax_error, accept
    <3>2. CASE reduce
      <4>1. consumed' = consumed /\ token' = token
        BY <3>2 DEF reduce
      <4> QED
        BY <1>1, <2>2, <2>3, <3>2, <4>1, reduceKeeps
    <3>3. CASE shift
      BY <1>1, <2>2, <2>3, <3>3, shiftKeeps
    <3> QED
      BY <2>1, <3>1, <3>2, <3>3
  <2>5. AcceptsOnlySentences'
    <3>1. CASE accept
      <4>1. token = Eof /\ consumed \in Sentences[grammar][Root]
        BY <1>1, <2>2, <3>1, acceptKeeps
      <4> QED
        BY <1>2, <3>1, <4>1 DEF accept, AcceptsOnlySentences, Root
    <3>2. CASE ~accept
      BY <2>1, <3>2 DEF syntax_error, reduce, shift, AcceptsOnlySentences
    <3> QED
      BY <3>1, <3>2
  <2>6. status' # "idle"
    BY <2>1 DEF syntax_error, accept, reduce, shift
  <2>7. Emitted(sts)' /\ Standing(grammar, sts, stack, consumed)'
    BY <1>2, <1>3, <2>2, <2>4 DEF Standing, Linked
  <2> QED
    BY <1>2, <1>4, <2>4, <2>5, <2>6, <2>7 DEF IInv, StackInvariant, Delivered
<1> QED
  BY <1>5, <1>6

LEMMA Keeps ==
  ASSUME IInv, [Next]_vars
  PROVE  IInv'
<1>1. CASE Generate
  <2>1. GeneratorInvariant'
    BY <1>1, GeneratorKeeps DEF IInv, Generate
  <2>2. table = <<>>
    <3>1. index < Len(states) \/ table = <<>>
      BY <1>1 DEF Generate, GeneratorNext, gather_handled, gather_reduce, gather_shift, gather_next, emit, AtLead
    <3>2. table # <<>> => states = <<>> /\ index \in Nat
      BY DEF IInv, GeneratorInvariant
    <3>3. Len(<<>>) = 0
      OBVIOUS
    <3> QED
      BY <3>1, <3>2, <3>3
  <2>3. status = "idle" /\ consumed = <<>>
    BY <2>2 DEF IInv, StackInvariant
  <2>4. status' = "idle" /\ consumed' = <<>>
    BY <1>1, <2>3 DEF Generate, parserVars
  <2> QED
    BY <2>1, <2>4 DEF IInv, StackInvariant, AcceptsOnlySentences
<1>2. CASE Parse
  BY <1>2, ParseKeeps DEF Parse
<1>3. CASE Done \/ UNCHANGED vars
  <2>1. UNCHANGED vars
    BY <1>3 DEF Done
  <2> QED
    BY <2>1 DEF vars, genVars, parserVars, IInv, GeneratorInvariant, GatherInvariant, StackInvariant,
                Emitted, Standing, Linked, AcceptsOnlySentences, Delivered
<1> QED
  BY <1>1, <1>2, <1>3 DEF Next

THEOREM InvariantHolds == Spec => []IInv
<1>1. Init => IInv
  BY Starts
<1>2. IInv /\ [Next]_vars => IInv'
  BY Keeps
<1> QED
  BY <1>1, <1>2, PTL DEF Spec

\* The parser accepts only sentences of the grammar its tables were made for,
\* whatever the grammar (parser.c:58-61).
THEOREM OnlySentencesAccepted == Spec => []AcceptsOnlySentences
<1>1. IInv => AcceptsOnlySentences
  BY DEF IInv, StackInvariant
<1> QED
  BY <1>1, InvariantHolds, PTL

\* The spans on the stack tile the text, and each covers a text that its symbol
\* derives (parser.c:72-75, 89-97).
THEOREM StackTextDerived == Spec => []StackDerivesText
<1>1. IInv => StackDerivesText
  <2> SUFFICES ASSUME IInv, status # "idle"
               PROVE  /\ stack[Len(stack)].last = Len(consumed)
                      /\ \A k \in 2..Len(stack) :
                           LET text == SubSeq(consumed, stack[k].first + 1, stack[k].last)
                           IN  /\ stack[k].first = stack[k - 1].last
                               /\ IF stack[k].id \in Tokens THEN text = <<stack[k].id>>
                                  ELSE text \in Sentences[grammar][stack[k].id]
    BY DEF StackDerivesText
  <2>1. PICK sts : Automaton(grammar, sts) /\ Standing(grammar, sts, stack, consumed)
    BY DEF IInv, StackInvariant, Emitted
  <2>2. Grammatical(grammar)
    BY GrammarsAssumption DEF IInv, GeneratorInvariant
  <2>3. stack[Len(stack)].last = Len(consumed)
    BY <2>1 DEF Standing
  <2>4. ASSUME NEW k \in 2..Len(stack)
        PROVE  LET text == SubSeq(consumed, stack[k].first + 1, stack[k].last)
               IN  /\ stack[k].first = stack[k - 1].last
                   /\ IF stack[k].id \in Tokens THEN text = <<stack[k].id>>
                      ELSE text \in Sentences[grammar][stack[k].id]
    <3>1. Linked(grammar, sts, consumed, stack[k - 1], stack[k])
      BY <2>1, StandingFacts
    <3>2. stack[k].id \in Tokens => ~IsRule(grammar, stack[k].id)
      BY <2>2 DEF Grammatical, IsRule
    <3> QED
      BY <3>1, <3>2 DEF Linked, Texts
  <2> QED
    BY <2>3, <2>4
<1> QED
  BY <1>1, InvariantHolds, PTL

\* No reduction reaches below the stack or misses its goto (parser.c:68-69,
\* 82-88).
THEOREM ReductionsGoOn == Spec => []ReductionsFindTheirGoto
<1>1. IInv => ReductionsFindTheirGoto
  <2> SUFFICES ASSUME IInv, status = "parsing", Matching # {}, FirstMatch.state_or_length < 0,
                      FirstMatch.rule # NoRule
               PROVE  LET base == Len(stack) + FirstMatch.state_or_length
                      IN  /\ base >= 1
                          /\ LET gotos == table[stack[base].state + 1].gotos
                             IN  \E k \in DOMAIN gotos : gotos[k].rule = FirstMatch.rule
    BY DEF ReductionsFindTheirGoto
  <2>1. PICK sts : Emitted(sts) /\ Standing(grammar, sts, stack, consumed)
    BY DEF IInv, StackInvariant
  <2>2. grammar \in Grammars /\ FirstMatch.rule # Nil
    BY DEF IInv, GeneratorInvariant, NoRule, Nil
  <2> DEFINE base == Len(stack) + FirstMatch.state_or_length
  <2>3. /\ base \in 1..(Len(stack) - 1) /\ IsRule(grammar, FirstMatch.rule)
        /\ Number(sts, stack[base].state)
        /\ \E y \in LeadSet(sts[stack[base].state + 1]) : After(grammar, y) = FirstMatch.rule
    BY <2>1, <2>2, Reducing
  <2>4. \E k \in DOMAIN table[stack[base].state + 1].gotos :
          table[stack[base].state + 1].gotos[k].rule = FirstMatch.rule
    <3> DEFINE entry == stack[base]
               rule == FirstMatch.rule
    <3>1. /\ IsRule(grammar, rule) /\ Number(sts, entry.state)
          /\ \E y \in LeadSet(sts[entry.state + 1]) : After(grammar, y) = rule
      BY <2>3
    <3> HIDE DEF entry, rule
    <3>2. \E k \in DOMAIN table[entry.state + 1].gotos : table[entry.state + 1].gotos[k].rule = rule
      BY <2>1, <2>2, <3>1, GotoFacts
    <3> QED
      BY <3>2 DEF entry, rule
  <2>5. base >= 1
    BY <2>3
  <2> QED
    BY <2>4, <2>5
<1> QED
  BY <1>1, InvariantHolds, PTL

=============================================================================
