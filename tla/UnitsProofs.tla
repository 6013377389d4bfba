----------------------------- MODULE UnitsProofs -----------------------------
(***************************************************************************)
(* In every file and for every order of its units, a function that is      *)
(* declared and defined is one function, and whether the file compiles     *)
(* depends on what it declares alone.                                      *)
(***************************************************************************)
EXTENDS UnitsMeaning, FiniteSetTheorems, FunctionTheorems, SequenceTheorems, LeastNumbers, TLAPS

-----------------------------------------------------------------------------
(***************************************************************************)
(* Orders, names and the first symbol of a name.                           *)
(***************************************************************************)

\* An order of a finite set has each of its members in one place.
LEMMA OrdersAreOneToOne ==
  ASSUME NEW S, IsFiniteSet(S), NEW s \in Orders(S)
  PROVE  /\ s \in Seq(S)
         /\ \A m, n \in DOMAIN s : s[m] = s[n] => m = n
<1> DEFINE N == Cardinality(S)
<1>1. N \in Nat
  BY FS_CardinalityType
<1>2. IsFiniteSet(1..N) /\ Cardinality(1..N) = N
  BY <1>1, FS_Interval
<1> HIDE DEF N
<1>3. s \in [1..N -> S] /\ S = { s[n] : n \in DOMAIN s }
  BY DEF Orders, N
<1>4. s \in Surjection(1..N, S)
  BY <1>3 DEF Surjection
<1>5. Cardinality(1..N) = Cardinality(S)
  BY <1>2 DEF N
<1>6. s \in Injection(1..N, S)
  BY <1>2, <1>4, <1>5, FS_SurjSameCardinalityImpliesInj
<1>7. \A m, n \in 1..N : s[m] = s[n] => m = n
  BY <1>6 DEF Injection, IsInjective
<1>8. s \in Seq(S)
  BY <1>1, <1>3, SMTT(30)
<1>9. DOMAIN s = 1..N
  BY <1>3
<1> QED
  BY <1>7, <1>8, <1>9

\* Sequences of one, two and any number of words.
LEMMA ShortSequences ==
  ASSUME NEW T, NEW x \in T, NEW y \in T, NEW k \in Nat
  PROVE  /\ <<x>> \in Seq(T) /\ Len(<<x>>) = 1 /\ <<x>>[1] = x
         /\ <<x, y>> \in Seq(T) /\ Len(<<x, y>>) = 2 /\ <<x, y>>[2] = y
         /\ [n \in 1..k |-> x] \in Seq(T) /\ Len([n \in 1..k |-> x]) = k
<1>1. [n \in 1..k |-> x] \in Seq(T) /\ Len([n \in 1..k |-> x]) = k
  OBVIOUS
<1> QED
  BY <1>1

LEMMA DifferentSequences ==
  ASSUME NEW p, NEW x, NEW y
  PROVE  /\ <<p, x>> = <<p, y>> => x = y
         /\ <<x>> # <<p, y>>
OBVIOUS

\* What names in the module are made of.
Word == STRING \cup {NoPackage, "suffix"}

\* Functions of different names are given different names in the module.
LEMMA MangledNames ==
  ASSUME package \in Word, NEW a \in Word, NEW b \in Word
  PROVE  /\ mangle_func_name(a) \in Seq(Word)
         /\ Len(mangle_func_name(a)) \in {1, 2}
         /\ ~(Len(mangle_func_name(a)) > 2)
         /\ mangle_func_name(a) = mangle_func_name(b) => a = b
<1>1. \A x \in Word : <<x>> \in Seq(Word) /\ Len(<<x>>) = 1 /\ <<x>>[1] = x
  BY ShortSequences, 0 \in Nat
<1>2. \A x, y \in Word : <<x, y>> \in Seq(Word) /\ Len(<<x, y>>) = 2 /\ <<x, y>>[2] = y
  BY ShortSequences, 0 \in Nat
<1>3. \A x \in Word : \/ mangle_func_name(x) = <<x>>
                        \/ mangle_func_name(x) = <<package, x>>
  BY DEF mangle_func_name
<1>4. mangle_func_name(a) \in Seq(Word) /\ Len(mangle_func_name(a)) \in {1, 2}
        /\ ~(Len(mangle_func_name(a)) > 2)
  <2>1. CASE mangle_func_name(a) = <<a>>
    BY <1>1, <2>1
  <2>2. CASE mangle_func_name(a) = <<package, a>>
    BY <1>2, <2>2
  <2> QED
    BY <1>3, <2>1, <2>2
<1>5. ASSUME mangle_func_name(a) = mangle_func_name(b)
      PROVE  a = b
  <2>1. CASE mangle_func_name(a) = <<a>> /\ mangle_func_name(b) = <<b>>
    BY <1>1, <1>5, <2>1
  <2>2. CASE mangle_func_name(a) = <<package, a>> /\ mangle_func_name(b) = <<package, b>>
    BY <1>5, <2>2, <<package, a>> = <<package, b>>, DifferentSequences
  <2>3. CASE mangle_func_name(a) = <<a>> /\ mangle_func_name(b) = <<package, b>>
    BY <1>5, <2>3, <<a>> = <<package, b>>, DifferentSequences
  <2>4. CASE mangle_func_name(a) = <<package, a>> /\ mangle_func_name(b) = <<b>>
    BY <1>5, <2>4, <<b>> = <<package, a>>, DifferentSequences
  <2> QED
    BY <1>3, <2>1, <2>2, <2>3, <2>4
<1> QED
  BY <1>4, <1>5

\* A name that gets a suffix is longer than any mangled name.
LEMMA SuffixedNames ==
  ASSUME NEW name \in Seq(Word), Len(name) >= 1, funcs \in Seq([name : Seq(Word), bodies : Nat])
  PROVE  /\ AddedName(name) \in Seq(Word)
         /\ AddedName(name) = name \/ Len(AddedName(name)) > 2
         /\ (\A n \in DOMAIN funcs : funcs[n].name # name) => AddedName(name) = name
<1> DEFINE rest == [n \in 1..(Len(funcs) + 1) |-> "suffix"]
<1>1. Len(funcs) \in Nat /\ DOMAIN funcs = 1..Len(funcs)
  OBVIOUS
<1>2. rest \in Seq(Word) /\ Len(rest) = Len(funcs) + 1
  <2>1. Len(funcs) + 1 \in Nat
    BY <1>1
  <2>2. "suffix" \in Word
    BY DEF Word
  <2> QED
    BY <2>1, <2>2, ShortSequences
<1> HIDE DEF rest
<1>3. name \o rest \in Seq(Word) /\ Len(name \o rest) = Len(name) + Len(funcs) + 1
  <2>1. name \o rest \in Seq(Word)
    BY <1>2, ConcatProperties
  <2>2. Len(name \o rest) = Len(name) + Len(rest)
    BY <1>2, ConcatProperties
  <2> QED
    BY <1>1, <1>2, <2>1, <2>2
<1>4. CASE \E n \in DOMAIN funcs : funcs[n].name = name
  <2>1. AddedName(name) = name \o rest
    BY <1>4 DEF AddedName, rest
  <2>2. Len(funcs) >= 1
    BY <1>1, <1>4
  <2> QED
    BY <1>1, <1>3, <1>4, <2>1, <2>2
<1>5. CASE ~\E n \in DOMAIN funcs : funcs[n].name = name
  <2>1. AddedName(name) = name
    BY <1>5 DEF AddedName
  <2> QED
    BY <1>5, <2>1
<1> QED
  BY <1>4, <1>5

\* The place of the symbol that codegen_context_find_symbol returns.
First(name) == CHOOSE n \in Found(name) : \A m \in Found(name) : n <= m

LEMMA FirstSymbol ==
  ASSUME NEW X, symbols \in Seq(X), NEW name, Found(name) # {}
  PROVE  /\ First(name) \in DOMAIN symbols
         /\ symbols[First(name)].name = name
         /\ \A m \in DOMAIN symbols : symbols[m].name = name => First(name) <= m
         /\ codegen_context_find_symbol(name) = symbols[First(name)]
<1>1. Found(name) \in SUBSET Nat
  BY DEF Found
<1>2. \E n \in Found(name) : \A m \in Found(name) : n <= m
  BY <1>1, LeastNumber
<1>3. First(name) \in Found(name) /\ \A m \in Found(name) : First(name) <= m
  BY <1>2 DEF First
<1>4. codegen_context_find_symbol(name) = symbols[First(name)]
  BY DEF codegen_context_find_symbol, First
<1> QED
  BY <1>3, <1>4 DEF Found

-----------------------------------------------------------------------------
(***************************************************************************)
(* The inductive invariant.                                                *)
(***************************************************************************)

\* The units are an order of one of the files, and the stages go over them.
UnitsInvariant ==
  /\ \E S \in Programs : units \in Orders(S)
  /\ stage \in -1..3
  /\ i \in 1..(Len(units) + 1)
  /\ status = "ok" => stage = 3

TypesInvariant ==
  /\ package \in Word
  /\ symbols \in Seq([name : Word, unit : Program, value : Nat])
  /\ funcs \in Seq([name : Seq(Word), bodies : Nat])

\* A symbol stands for a unit with a name, a function's for its own function.
SymbolsInvariant ==
  /\ \A k \in DOMAIN symbols :
       /\ symbols[k].name = symbols[k].unit.name
       /\ symbols[k].unit.kind # "package"
       /\ symbols[k].unit.kind = "func" => symbols[k].value \in DOMAIN funcs
  /\ \A k, m \in DOMAIN symbols :
       symbols[k].unit.kind = "func" /\ symbols[m].unit.kind = "func" /\ k # m
         => symbols[k].value # symbols[m].value
  /\ \A n \in DOMAIN units :
       units[n].kind = "func" /\ (stage >= 2 \/ (stage = 1 /\ n < i))
         => \E k \in DOMAIN symbols : symbols[k].unit = units[n]

\* The first function of a name bears the name; every function bears the name
\* of its symbol or one that is made unique.
NamesInvariant ==
  /\ stage = -1 => symbols = <<>> /\ funcs = <<>>
  /\ \A k \in DOMAIN symbols :
       /\ symbols[k].unit.kind = "func"
       /\ \A m \in DOMAIN symbols : m < k => symbols[m].name # symbols[k].name
       => funcs[symbols[k].value].name = mangle_func_name(symbols[k].name)
  /\ \A f \in DOMAIN funcs :
       \E k \in DOMAIN symbols :
         \/ funcs[f].name = mangle_func_name(symbols[k].name)
         \/ Len(funcs[f].name) > 2

\* The bodies are given to the first functions of their names.
BodiesInvariant ==
  /\ stage <= 1 => \A f \in DOMAIN funcs : funcs[f].bodies = 0
  /\ stage >= 2 =>
       \A n \in DOMAIN units :
         units[n].kind = "func" /\ units[n].full =>
           funcs[symbols[First(units[n].name)].value].bodies
             = IF stage = 3 \/ n < i THEN 1 ELSE 0

Invariant == UnitsInvariant /\ TypesInvariant /\ SymbolsInvariant /\ NamesInvariant /\ BodiesInvariant

\* What the assumption on files says of the units in their order.
LEMMA UnitFacts ==
  ASSUME UnitsInvariant
  PROVE  /\ Len(units) \in Nat /\ DOMAIN units = 1..Len(units)
         /\ \A n \in DOMAIN units : units[n].name \in Word /\ units[n] \in Program
         /\ \A n \in DOMAIN units : units[n].kind \in {"type", "func", "const", "package"}
         /\ \A m, n \in DOMAIN units :
              units[m].kind = "func" /\ units[n].kind = "func" /\ m # n
              /\ units[m].full /\ units[n].full => units[m].name # units[n].name
         /\ \A u, v \in Program :
              u.name = v.name /\ u.kind = "func" /\ v.kind # "package" => v.kind = "func"
<1>1. PICK S \in Programs : units \in Orders(S)
  BY DEF UnitsInvariant
<1>2. /\ IsFiniteSet(S)
      /\ \A u \in S : u.name \in STRING /\ u.kind \in {"type", "func", "const", "package"}
  BY ProgramsAssumption
<1>3. \A u, v \in S :
         u # v /\ u.name = v.name /\ u.kind # "package" /\ v.kind # "package"
           => u.kind = "func" /\ v.kind = "func" /\ ~(u.full /\ v.full)
  BY ProgramsAssumption
<1>4. units \in Seq(S)
  BY <1>1, <1>2, OrdersAreOneToOne
<1>5. \A m, n \in DOMAIN units : units[m] = units[n] => m = n
  BY <1>1, <1>2, OrdersAreOneToOne
<1>6. Len(units) \in Nat /\ DOMAIN units = 1..Len(units) /\ \A n \in DOMAIN units : units[n] \in S
  BY <1>4
<1>7. \A n \in DOMAIN units : units[n].name \in Word /\ units[n] \in Program
  BY <1>2, <1>6 DEF Word, Program
<1>8. \A u \in Program : u \in S
  BY <1>6 DEF Program
<1>9. \A n \in DOMAIN units : units[n].kind \in {"type", "func", "const", "package"}
  BY <1>2, <1>6
<1>10. ASSUME NEW m \in DOMAIN units, NEW n \in DOMAIN units, m # n,
              units[m].kind = "func", units[n].kind = "func", units[m].full, units[n].full
       PROVE  units[m].name # units[n].name
  <2>1. units[m] # units[n] /\ units[m] \in S /\ units[n] \in S
    BY <1>5, <1>6, <1>10
  <2>2. units[m].kind # "package" /\ units[n].kind # "package"
    BY <1>10
  <2> QED
    BY <1>3, <1>10, <2>1, <2>2
<1>11. ASSUME NEW u \in Program, NEW v \in Program,
              u.name = v.name, u.kind = "func", v.kind # "package"
       PROVE  v.kind = "func"
  <2>1. u.kind # "package" /\ u \in S /\ v \in S
    BY <1>8, <1>11
  <2> QED
    BY <1>3, <1>11, <2>1
<1> QED
  BY <1>6, <1>7, <1>9, <1>10, <1>11

LEMMA SymbolTypes ==
  ASSUME TypesInvariant, NEW k \in DOMAIN symbols
  PROVE  symbols[k].name \in Word /\ symbols[k].unit \in Program
<1> DEFINE Symbol == [name : Word, unit : Program, value : Nat]
<1>1. symbols \in Seq(Symbol)
  BY DEF TypesInvariant
<1> HIDE DEF Symbol
<1>2. symbols[k] \in Symbol
  BY <1>1, ElementOfSeq
<1> QED
  BY <1>2 DEF Symbol

\* Once a function is declared, the first symbol of its name is a function's.
LEMMA FunctionFound ==
  ASSUME Invariant, NEW n \in DOMAIN units, units[n].kind = "func",
         stage >= 2 \/ (stage = 1 /\ n < i)
  PROVE  /\ First(units[n].name) \in DOMAIN symbols
         /\ symbols[First(units[n].name)].name = units[n].name
         /\ symbols[First(units[n].name)].unit.kind = "func"
         /\ symbols[First(units[n].name)].value \in DOMAIN funcs
         /\ funcs[symbols[First(units[n].name)].value].name = mangle_func_name(units[n].name)
         /\ codegen_context_find_symbol(units[n].name) = symbols[First(units[n].name)]
<1> DEFINE name == units[n].name
           k == First(name)
<1>1. UnitsInvariant /\ TypesInvariant /\ SymbolsInvariant /\ NamesInvariant
  BY DEF Invariant
<1>2. PICK j \in DOMAIN symbols : symbols[j].unit = units[n]
  BY <1>1 DEF SymbolsInvariant
<1>3. symbols[j].name = name
  BY <1>1, <1>2 DEF SymbolsInvariant
<1>4. Found(name) # {}
  BY <1>3 DEF Found
<1>5. symbols \in Seq([name : Word, unit : Program, value : Nat])
  BY <1>1 DEF TypesInvariant
<1> HIDE DEF name, k
<1>6. /\ k \in DOMAIN symbols
      /\ symbols[k].name = name
      /\ \A m \in DOMAIN symbols : symbols[m].name = name => k <= m
      /\ codegen_context_find_symbol(name) = symbols[k]
  BY <1>4, <1>5, FirstSymbol DEF k
<1>7. symbols[k].unit \in Program /\ units[n] \in Program
  BY <1>1, <1>6, UnitFacts, SymbolTypes
<1>8. symbols[k].unit.name = name /\ symbols[k].unit.kind # "package"
  BY <1>1, <1>6 DEF SymbolsInvariant
<1>9. symbols[k].unit.kind = "func"
  BY <1>1, <1>7, <1>8, UnitFacts DEF name
<1>10. symbols[k].value \in DOMAIN funcs
  BY <1>1, <1>6, <1>9 DEF SymbolsInvariant
<1>11. \A m \in DOMAIN symbols : m < k => symbols[m].name # symbols[k].name
  <2>1. DOMAIN symbols \in SUBSET Nat
    BY <1>5
  <2> QED
    BY <1>6, <2>1
<1>12. funcs[symbols[k].value].name = mangle_func_name(symbols[k].name)
  BY <1>1, <1>6, <1>9, <1>11 DEF NamesInvariant
<1> QED
  BY <1>6, <1>9, <1>10, <1>12 DEF k, name

LEMMA InvariantInit == Init => Invariant
<1> SUFFICES ASSUME Init PROVE Invariant
  OBVIOUS
<1>1. PICK S \in Programs : units \in Orders(S)
  BY DEF Init
<1>2. units \in Seq(S)
  BY <1>1, ProgramsAssumption, OrdersAreOneToOne
<1>3. UnitsInvariant
  BY <1>1, <1>2 DEF Init, UnitsInvariant
<1>4. TypesInvariant
  BY DEF Init, TypesInvariant, Word
<1>5. symbols = <<>> /\ funcs = <<>> /\ stage = -1
  BY DEF Init
<1>6. DOMAIN symbols = {} /\ DOMAIN funcs = {}
  BY <1>5
<1>7. SymbolsInvariant
  BY <1>5, <1>6 DEF SymbolsInvariant
<1>8. NamesInvariant
  BY <1>5, <1>6 DEF NamesInvariant
<1>9. BodiesInvariant
  BY <1>5, <1>6 DEF BodiesInvariant
<1> QED
  BY <1>3, <1>4, <1>7, <1>8, <1>9 DEF Invariant

-----------------------------------------------------------------------------
(***************************************************************************)
(* The steps.                                                              *)
(***************************************************************************)

\* The package is read before there are symbols or functions.
LEMMA PackageStep ==
  ASSUME Invariant, codegen_package
  PROVE  Invariant'
<1>1. UnitsInvariant /\ TypesInvariant /\ SymbolsInvariant /\ NamesInvariant
  BY DEF Invariant
<1>2. /\ units' = units /\ i' = i /\ symbols' = symbols /\ funcs' = funcs
      /\ stage = -1 /\ stage' = 0 /\ status' # "ok"
  BY DEF codegen_package
<1>3. symbols = <<>> /\ funcs = <<>>
  BY <1>1, <1>2 DEF NamesInvariant
<1>4. DOMAIN symbols' = {} /\ DOMAIN funcs' = {}
  BY <1>2, <1>3
<1>5. UnitsInvariant'
  BY <1>1, <1>2 DEF UnitsInvariant
<1>6. package' \in Word
  <2>1. CASE package' = package
    BY <1>1, <2>1 DEF TypesInvariant
  <2>2. CASE package' = NoPackage
    BY <2>2 DEF Word
  <2>3. CASE Packages # {} /\ package' = units[CHOOSE n \in Packages : TRUE].name
    <3>1. (CHOOSE n \in Packages : TRUE) \in DOMAIN units
      BY <2>3 DEF Packages
    <3> QED
      BY <1>1, <2>3, <3>1, UnitFacts
  <2> QED
    BY <2>1, <2>2, <2>3 DEF codegen_package
<1>7. TypesInvariant'
  <2>1. Program' = Program
    BY <1>2 DEF Program
  <2> QED
    BY <1>1, <1>2, <1>6, <2>1 DEF TypesInvariant
<1>8. SymbolsInvariant'
  BY <1>2, <1>4 DEF SymbolsInvariant
<1>9. NamesInvariant'
  BY <1>2, <1>4 DEF NamesInvariant
<1>10. BodiesInvariant'
  BY <1>2, <1>4 DEF BodiesInvariant
<1> QED
  BY <1>5, <1>7, <1>8, <1>9, <1>10 DEF Invariant

\* A step that leaves symbols and functions alone goes on to the next unit.
LEMMA PassStep ==
  ASSUME Invariant,
         status = "running" /\ status' = status /\ i <= Len(units) /\ i' = i + 1,
         UNCHANGED <<units, package, stage, symbols, funcs>>,
         stage # 1 \/ units[i].kind # "func",
         stage # 2 \/ units[i].kind # "func" \/ ~units[i].full
  PROVE  Invariant'
<1>1. UnitsInvariant /\ TypesInvariant /\ SymbolsInvariant /\ NamesInvariant /\ BodiesInvariant
  BY DEF Invariant
<1>2. Len(units) \in Nat /\ DOMAIN units = 1..Len(units) /\ i \in DOMAIN units /\ stage \in -1..3
  <2>1. Len(units) \in Nat /\ DOMAIN units = 1..Len(units)
    BY <1>1, UnitFacts
  <2> QED
    BY <1>1, <2>1 DEF UnitsInvariant
<1>3. UnitsInvariant'
  BY <1>1, <1>2 DEF UnitsInvariant
<1>4. TypesInvariant'
  <2>1. Program' = Program
    BY DEF Program
  <2> QED
    BY <1>1, <2>1 DEF TypesInvariant
<1>5. \A n \in DOMAIN units : n < i' <=> n < i \/ n = i
  BY <1>2
<1>6. SymbolsInvariant'
  BY <1>1, <1>5 DEF SymbolsInvariant
<1>7. NamesInvariant'
  BY <1>1 DEF NamesInvariant, mangle_func_name
<1>8. BodiesInvariant'
  <2>1. \A x : First(x)' = First(x)
    BY DEF First, Found
  <2>2. CASE stage <= 1
    BY <1>1, <1>2, <2>2 DEF BodiesInvariant
  <2>3. CASE stage >= 2
    <3> SUFFICES ASSUME NEW n \in DOMAIN units, units[n].kind = "func", units[n].full
                 PROVE  funcs[symbols[First(units[n].name)].value].bodies
                          = IF stage = 3 \/ n < i' THEN 1 ELSE 0
      BY <1>2, <2>1, <2>3 DEF BodiesInvariant
    <3>1. funcs[symbols[First(units[n].name)].value].bodies
            = IF stage = 3 \/ n < i THEN 1 ELSE 0
      BY <1>1, <2>3 DEF BodiesInvariant
    <3>2. (stage = 3 \/ n < i') <=> (stage = 3 \/ n < i)
      BY <1>2, <1>5, <2>3
    <3> QED
      BY <3>1, <3>2
  <2> QED
    BY <1>2, <2>2, <2>3
<1> QED
  BY <1>3, <1>4, <1>6, <1>7, <1>8 DEF Invariant

\* The symbol of a type or a constant hides no function: its name is its own.
LEMMA SymbolStep ==
  ASSUME Invariant,
         i <= Len(units) /\ i' = i + 1 /\ stage \in 0..1 /\ status' # "ok",
         UNCHANGED <<units, package, stage, funcs>>,
         units[i].kind # "func" /\ units[i].kind # "package",
         AddSymbol(0)
  PROVE  Invariant'
<1> DEFINE new == [name |-> units[i].name, unit |-> units[i], value |-> 0]
           L == Len(symbols)
<1>1. UnitsInvariant /\ TypesInvariant /\ SymbolsInvariant /\ NamesInvariant /\ BodiesInvariant
  BY DEF Invariant
<1>2. Len(units) \in Nat /\ DOMAIN units = 1..Len(units) /\ i \in DOMAIN units
  <2>1. Len(units) \in Nat /\ DOMAIN units = 1..Len(units)
    BY <1>1, UnitFacts
  <2> QED
    BY <1>1, <2>1 DEF UnitsInvariant
<1>3. units[i].name \in Word /\ units[i] \in Program
  BY <1>1, <1>2, UnitFacts
<1>4. new \in [name : Word, unit : Program, value : Nat]
  BY <1>3
<1>5. new.name = units[i].name /\ new.unit = units[i]
  OBVIOUS
<1>6. symbols' = Append(symbols, new)
  BY DEF AddSymbol
<1> HIDE DEF new
<1>7. symbols \in Seq([name : Word, unit : Program, value : Nat])
  BY <1>1 DEF TypesInvariant
<1>8. symbols' \in Seq([name : Word, unit : Program, value : Nat])
  BY <1>4, <1>6, <1>7
<1>9. /\ L \in Nat /\ DOMAIN symbols = 1..L /\ DOMAIN symbols' = 1..(L + 1)
      /\ symbols'[L + 1] = new
      /\ \A k \in DOMAIN symbols : symbols'[k] = symbols[k]
  BY <1>6, <1>7
<1> HIDE DEF L
<1>10. \A k \in DOMAIN symbols' : k \in DOMAIN symbols \/ k = L + 1
  BY <1>9
<1>11. \A k \in DOMAIN symbols' : symbols'[k].unit.kind = "func" =>
          k \in DOMAIN symbols /\ symbols'[k] = symbols[k]
  BY <1>5, <1>9, <1>10
<1>12. UnitsInvariant'
  BY <1>1, <1>2 DEF UnitsInvariant
<1>13. TypesInvariant'
  <2>1. Program' = Program
    BY DEF Program
  <2> QED
    BY <1>1, <1>8, <2>1 DEF TypesInvariant
<1>14. SymbolsInvariant'
  <2>1. \A k \in DOMAIN symbols' :
          /\ symbols'[k].name = symbols'[k].unit.name
          /\ symbols'[k].unit.kind # "package"
          /\ symbols'[k].unit.kind = "func" => symbols'[k].value \in DOMAIN funcs
    <3> SUFFICES ASSUME NEW k \in DOMAIN symbols'
                 PROVE  /\ symbols'[k].name = symbols'[k].unit.name
                        /\ symbols'[k].unit.kind # "package"
                        /\ symbols'[k].unit.kind = "func" => symbols'[k].value \in DOMAIN funcs
      OBVIOUS
    <3>1. CASE k = L + 1
      BY <1>5, <1>9, <3>1
    <3>2. CASE k \in DOMAIN symbols
      BY <1>1, <1>9, <3>2 DEF SymbolsInvariant
    <3> QED
      BY <1>10, <3>1, <3>2
  <2>2. \A k, m \in DOMAIN symbols' :
          symbols'[k].unit.kind = "func" /\ symbols'[m].unit.kind = "func" /\ k # m
            => symbols'[k].value # symbols'[m].value
    BY <1>1, <1>11 DEF SymbolsInvariant
  <2>3. ASSUME NEW n \in DOMAIN units, units[n].kind = "func", stage = 1, n < i'
        PROVE  \E k \in DOMAIN symbols' : symbols'[k].unit = units[n]
    <3>1. n < i
      BY <1>2, <2>3
    <3>2. PICK k \in DOMAIN symbols : symbols[k].unit = units[n]
      BY <1>1, <2>3, <3>1 DEF SymbolsInvariant
    <3> QED
      BY <1>9, <3>2
  <2> QED
    BY <2>1, <2>2, <2>3 DEF SymbolsInvariant
<1>15. NamesInvariant'
  <2>1. \A x : mangle_func_name(x)' = mangle_func_name(x)
    BY DEF mangle_func_name
  <2>2. ASSUME NEW k \in DOMAIN symbols', symbols'[k].unit.kind = "func",
               \A m \in DOMAIN symbols' : m < k => symbols'[m].name # symbols'[k].name
        PROVE  funcs[symbols'[k].value].name = mangle_func_name(symbols'[k].name)
    <3>1. k \in DOMAIN symbols /\ symbols'[k] = symbols[k]
      BY <1>11, <2>2
    <3>2. \A m \in DOMAIN symbols : m < k => symbols[m].name # symbols[k].name
      BY <1>9, <2>2, <3>1
    <3> QED
      BY <1>1, <2>2, <3>1, <3>2 DEF NamesInvariant
  <2>3. ASSUME NEW f \in DOMAIN funcs
        PROVE  \E k \in DOMAIN symbols' : \/ funcs[f].name = mangle_func_name(symbols'[k].name)
                                           \/ Len(funcs[f].name) > 2
    <3>1. PICK k \in DOMAIN symbols : \/ funcs[f].name = mangle_func_name(symbols[k].name)
                                      \/ Len(funcs[f].name) > 2
      BY <1>1 DEF NamesInvariant
    <3> QED
      BY <1>9, <3>1
  <2> QED
    BY <2>1, <2>2, <2>3 DEF NamesInvariant
<1>16. BodiesInvariant'
  BY <1>1 DEF BodiesInvariant
<1> QED
  BY <1>12, <1>13, <1>14, <1>15, <1>16 DEF Invariant

\* A function is declared: the first of its name finds the name free, because a
\* function that has it already would have a symbol of that name.
LEMMA FuncStep ==
  ASSUME Invariant, stage_func
  PROVE  Invariant'
<1> DEFINE name == units[i].name
           mangled == mangle_func_name(name)
           L == Len(symbols)
           F == Len(funcs)
           new == [name |-> name, unit |-> units[i], value |-> F + 1]
           func == [name |-> AddedName(mangled), bodies |-> 0]
<1>1. UnitsInvariant /\ TypesInvariant /\ SymbolsInvariant /\ NamesInvariant /\ BodiesInvariant
  BY DEF Invariant
<1>2. /\ i <= Len(units) /\ i' = i + 1 /\ stage = 1 /\ stage' = 1 /\ units[i].kind = "func"
      /\ units' = units /\ package' = package /\ status' # "ok"
  BY DEF stage_func, At, Outcome
<1>3. symbols' = Append(symbols, new) /\ funcs' = Append(funcs, func)
  BY DEF stage_func, AddSymbol
<1>4. Len(units) \in Nat /\ DOMAIN units = 1..Len(units) /\ i \in DOMAIN units
  <2>1. Len(units) \in Nat /\ DOMAIN units = 1..Len(units)
    BY <1>1, UnitFacts
  <2> QED
    BY <1>1, <1>2, <2>1 DEF UnitsInvariant
<1>5. name \in Word /\ units[i] \in Program
  BY <1>1, <1>4, UnitFacts
<1>6. package \in Word /\ funcs \in Seq([name : Seq(Word), bodies : Nat])
  BY <1>1 DEF TypesInvariant
<1>7. symbols \in Seq([name : Word, unit : Program, value : Nat])
  BY <1>1 DEF TypesInvariant
<1>8. F \in Nat /\ DOMAIN funcs = 1..F
  BY <1>6
<1>9. new \in [name : Word, unit : Program, value : Nat]
  BY <1>5, <1>8
<1>10. new.name = name /\ new.unit = units[i] /\ new.value = F + 1
  OBVIOUS
<1>11. mangled \in Seq(Word) /\ Len(mangled) \in {1, 2} /\ ~(Len(mangled) > 2)
  BY <1>5, <1>6, MangledNames
<1> HIDE DEF mangled
<1>12. /\ AddedName(mangled) \in Seq(Word)
       /\ \/ AddedName(mangled) = mangled
          \/ Len(AddedName(mangled)) > 2
       /\ (\A n \in DOMAIN funcs : funcs[n].name # mangled)
            => AddedName(mangled) = mangled
  <2>1. Len(mangled) >= 1
    BY <1>11
  <2>2. mangled \in Seq(Word)
    BY <1>11
  <2>3. funcs \in Seq([name : Seq(Word), bodies : Nat])
    BY <1>6
  <2> QED
    BY <2>1, <2>2, <2>3, SuffixedNames
<1>13. func \in [name : Seq(Word), bodies : Nat]
  BY <1>12
<1>14. func.name = AddedName(mangled) /\ func.bodies = 0
  OBVIOUS
<1> HIDE DEF new, func
<1>15. /\ L \in Nat /\ DOMAIN symbols = 1..L /\ DOMAIN symbols' = 1..(L + 1)
       /\ symbols'[L + 1] = new
       /\ \A k \in DOMAIN symbols : symbols'[k] = symbols[k]
       /\ symbols' \in Seq([name : Word, unit : Program, value : Nat])
  BY <1>3, <1>7, <1>9
<1>16. /\ DOMAIN funcs' = 1..(F + 1)
       /\ funcs'[F + 1] = func
       /\ \A f \in DOMAIN funcs : funcs'[f] = funcs[f]
       /\ funcs' \in Seq([name : Seq(Word), bodies : Nat])
  BY <1>3, <1>6, <1>13
<1> HIDE DEF L, F
<1>17. /\ \A k \in DOMAIN symbols' : k \in DOMAIN symbols \/ k = L + 1
       /\ \A f \in DOMAIN funcs' : f \in DOMAIN funcs \/ f = F + 1
       /\ \A f \in DOMAIN funcs : f \in DOMAIN funcs' /\ f # F + 1
       /\ \A k \in DOMAIN symbols : k \in DOMAIN symbols' /\ k < L + 1
       /\ L + 1 \in DOMAIN symbols' /\ F + 1 \in DOMAIN funcs'
  BY <1>8, <1>15, <1>16, SMTT(30)
<1>18. \A k \in DOMAIN symbols : symbols[k].unit.kind = "func" => symbols[k].value \in DOMAIN funcs
  BY <1>1 DEF SymbolsInvariant
<1>19. UnitsInvariant'
  BY <1>1, <1>2, <1>4 DEF UnitsInvariant
<1>20. TypesInvariant'
  <2>1. Program' = Program
    BY <1>2 DEF Program
  <2> QED
    BY <1>1, <1>2, <1>15, <1>16, <2>1 DEF TypesInvariant
<1>21. SymbolsInvariant'
  <2>1. ASSUME NEW k \in DOMAIN symbols'
        PROVE  /\ symbols'[k].name = symbols'[k].unit.name
               /\ symbols'[k].unit.kind # "package"
               /\ symbols'[k].unit.kind = "func" => symbols'[k].value \in DOMAIN funcs'
    <3>1. CASE k = L + 1
      BY <1>2, <1>10, <1>15, <1>17, <3>1
    <3>2. CASE k \in DOMAIN symbols
      BY <1>1, <1>15, <1>17, <1>18, <3>2 DEF SymbolsInvariant
    <3> QED
      BY <1>17, <3>1, <3>2
  <2>2. ASSUME NEW k \in DOMAIN symbols', NEW m \in DOMAIN symbols', k # m,
               symbols'[k].unit.kind = "func", symbols'[m].unit.kind = "func"
        PROVE  symbols'[k].value # symbols'[m].value
    <3>1. CASE k = L + 1
      <4>1. m \in DOMAIN symbols /\ symbols'[m] = symbols[m]
        BY <1>15, <1>17, <2>2, <3>1
      <4>2. symbols[m].value # F + 1
        BY <1>17, <1>18, <2>2, <4>1
      <4> QED
        BY <1>10, <1>15, <3>1, <4>1, <4>2
    <3>2. CASE m = L + 1
      <4>1. k \in DOMAIN symbols /\ symbols'[k] = symbols[k]
        BY <1>15, <1>17, <2>2, <3>2
      <4>2. symbols[k].value # F + 1
        BY <1>17, <1>18, <2>2, <4>1
      <4> QED
        BY <1>10, <1>15, <3>2, <4>1, <4>2
    <3>3. CASE k \in DOMAIN symbols /\ m \in DOMAIN symbols
      <4>1. symbols'[k] = symbols[k] /\ symbols'[m] = symbols[m]
        BY <1>15, <3>3
      <4> QED
        BY <1>1, <2>2, <3>3, <4>1 DEF SymbolsInvariant
    <3> QED
      BY <1>17, <3>1, <3>2, <3>3
  <2>3. ASSUME NEW n \in DOMAIN units, units[n].kind = "func", n < i'
        PROVE  \E k \in DOMAIN symbols' : symbols'[k].unit = units[n]
    <3>1. CASE n = i
      BY <1>10, <1>15, <1>17, <3>1
    <3>2. CASE n < i
      <4>1. PICK k \in DOMAIN symbols : symbols[k].unit = units[n]
        BY <1>1, <1>2, <2>3, <3>2 DEF SymbolsInvariant
      <4> QED
        BY <1>15, <1>17, <4>1
    <3> QED
      BY <1>2, <1>4, <2>3, <3>1, <3>2
  <2> QED
    BY <1>2, <2>1, <2>2, <2>3 DEF SymbolsInvariant
<1>22. NamesInvariant'
  <2>1. \A x : mangle_func_name(x)' = mangle_func_name(x)
    BY <1>2 DEF mangle_func_name
  <2>2. ASSUME NEW k \in DOMAIN symbols', symbols'[k].unit.kind = "func",
               \A m \in DOMAIN symbols' : m < k => symbols'[m].name # symbols'[k].name
        PROVE  funcs'[symbols'[k].value].name = mangle_func_name(symbols'[k].name)
    <3>1. CASE k \in DOMAIN symbols
      <4>1. symbols'[k] = symbols[k] /\ symbols[k].value \in DOMAIN funcs
        BY <1>15, <1>18, <2>2, <3>1
      <4>2. \A m \in DOMAIN symbols : m < k => symbols[m].name # symbols[k].name
        BY <1>15, <1>17, <2>2, <4>1
      <4>3. funcs[symbols[k].value].name = mangle_func_name(symbols[k].name)
        BY <1>1, <2>2, <3>1, <4>1, <4>2 DEF NamesInvariant
      <4> QED
        BY <1>16, <4>1, <4>3
    <3>2. CASE k = L + 1
      <4>1. \A m \in DOMAIN symbols : symbols[m].name # name
        BY <1>10, <1>15, <1>17, <2>2, <3>2
      <4>2. ~(Len(mangled) > 2)
        BY <1>11
      <4>3. \A f \in DOMAIN funcs : funcs[f].name # mangled
        <5> SUFFICES ASSUME NEW f \in DOMAIN funcs, funcs[f].name = mangled
                     PROVE  FALSE
          OBVIOUS
        <5>1. PICK m \in DOMAIN symbols : \/ funcs[f].name = mangle_func_name(symbols[m].name)
                                          \/ Len(funcs[f].name) > 2
          BY <1>1 DEF NamesInvariant
        <5>2. funcs[f].name = mangle_func_name(symbols[m].name)
          BY <4>2, <5>1
        <5>3. symbols[m].name \in Word
          BY <1>1, SymbolTypes
        <5>4. symbols[m].name = name
          BY <1>5, <1>6, <5>2, <5>3, MangledNames DEF mangled
        <5> QED
          BY <4>1, <5>4
      <4>4. func.name = mangled
        BY <1>12, <1>14, <4>3
      <4>5. mangle_func_name(symbols'[k].name) = mangled
        BY <1>10, <1>15, <3>2 DEF mangled
      <4> QED
        BY <1>10, <1>15, <1>16, <3>2, <4>4, <4>5
    <3> QED
      BY <1>17, <3>1, <3>2
  <2>3. ASSUME NEW f \in DOMAIN funcs'
        PROVE  \E k \in DOMAIN symbols' : \/ funcs'[f].name = mangle_func_name(symbols'[k].name)
                                           \/ Len(funcs'[f].name) > 2
    <3>1. CASE f = F + 1
      <4>1. funcs'[f].name = mangled \/ Len(funcs'[f].name) > 2
        BY <1>12, <1>14, <1>16, <3>1
      <4>2. mangle_func_name(symbols'[L + 1].name) = mangled
        BY <1>10, <1>15 DEF mangled
      <4> QED
        BY <1>17, <4>1, <4>2
    <3>2. CASE f \in DOMAIN funcs
      <4>1. PICK k \in DOMAIN symbols : \/ funcs[f].name = mangle_func_name(symbols[k].name)
                                        \/ Len(funcs[f].name) > 2
        BY <1>1, <3>2 DEF NamesInvariant
      <4>2. k \in DOMAIN symbols' /\ symbols'[k] = symbols[k] /\ funcs'[f] = funcs[f]
        BY <1>15, <1>16, <1>17, <3>2
      <4> QED
        BY <4>1, <4>2
    <3> QED
      BY <1>17, <3>1, <3>2
  <2> QED
    BY <1>2, <2>1, <2>2, <2>3 DEF NamesInvariant
<1>23. BodiesInvariant'
  <2>1. ASSUME NEW f \in DOMAIN funcs'
        PROVE  funcs'[f].bodies = 0
    <3>1. CASE f = F + 1
      BY <1>14, <1>16, <3>1
    <3>2. CASE f \in DOMAIN funcs
      BY <1>1, <1>2, <1>16, <3>2 DEF BodiesInvariant
    <3> QED
      BY <1>17, <3>1, <3>2
  <2> QED
    BY <1>2, <2>1 DEF BodiesInvariant
<1> QED
  BY <1>19, <1>20, <1>21, <1>22, <1>23 DEF Invariant

\* A body goes to the first function of its name, and no other body does.
LEMMA BodyStep ==
  ASSUME Invariant, stage_body
  PROVE  Invariant'
<1> DEFINE target == symbols[First(units[i].name)].value
<1>1. UnitsInvariant /\ TypesInvariant /\ SymbolsInvariant /\ NamesInvariant /\ BodiesInvariant
  BY DEF Invariant
<1>2. /\ i <= Len(units) /\ i' = i + 1 /\ stage = 2 /\ stage' = 2
      /\ units[i].kind = "func" /\ units[i].full
      /\ units' = units /\ package' = package /\ symbols' = symbols /\ status' # "ok"
  BY DEF stage_body, At, Outcome
<1>3. Len(units) \in Nat /\ DOMAIN units = 1..Len(units) /\ i \in DOMAIN units
  <2>1. Len(units) \in Nat /\ DOMAIN units = 1..Len(units)
    BY <1>1, UnitFacts
  <2> QED
    BY <1>1, <1>2, <2>1 DEF UnitsInvariant
<1>4. stage >= 2
  BY <1>2
<1>5. /\ First(units[i].name) \in DOMAIN symbols
      /\ symbols[First(units[i].name)].name = units[i].name
      /\ symbols[First(units[i].name)].unit.kind = "func"
      /\ target \in DOMAIN funcs
      /\ codegen_context_find_symbol(units[i].name) = symbols[First(units[i].name)]
  BY <1>2, <1>3, <1>4, FunctionFound
<1>6. BodyTarget = target
  BY <1>5 DEF BodyTarget
<1> HIDE DEF target
<1>7. funcs' = [funcs EXCEPT ![target].bodies = @ + 1]
  BY <1>6 DEF stage_body
<1>8. funcs \in Seq([name : Seq(Word), bodies : Nat])
  BY <1>1 DEF TypesInvariant
<1>9. /\ DOMAIN funcs' = DOMAIN funcs
      /\ \A f \in DOMAIN funcs : f # target => funcs'[f] = funcs[f]
      /\ funcs'[target] = [funcs[target] EXCEPT !.bodies = @ + 1]
  BY <1>5, <1>7
<1> DEFINE Function == [name : Seq(Word), bodies : Nat]
<1>10. funcs[target] \in Function
  <2> HIDE DEF Function
  <2>1. funcs \in Seq(Function)
    BY <1>8 DEF Function
  <2> QED
    BY <1>5, <2>1, ElementOfSeq
<1>11. /\ funcs'[target].name = funcs[target].name
       /\ funcs'[target].bodies = funcs[target].bodies + 1
       /\ funcs'[target] \in Function
  BY <1>9, <1>10
<1>12. funcs' \in Seq(Function)
  <2> HIDE DEF Function
  <2>1. funcs \in Seq(Function)
    BY <1>8 DEF Function
  <2>2. funcs' = [funcs EXCEPT ![target] = funcs'[target]]
    BY <1>5, <1>7, <1>9
  <2> QED
    BY <1>5, <1>11, <2>1, <2>2, ExceptSeq
<1>13. \A f \in DOMAIN funcs : funcs'[f].name = funcs[f].name
  BY <1>9, <1>11
<1>14. UnitsInvariant'
  BY <1>1, <1>2, <1>3 DEF UnitsInvariant
<1>15. TypesInvariant'
  <2>1. Program' = Program
    BY <1>2 DEF Program
  <2> QED
    BY <1>1, <1>2, <1>12, <2>1 DEF TypesInvariant
<1>16. SymbolsInvariant'
  BY <1>1, <1>2, <1>9 DEF SymbolsInvariant
<1>17. NamesInvariant'
  <2>1. \A x : mangle_func_name(x)' = mangle_func_name(x)
    BY <1>2 DEF mangle_func_name
  <2>2. ASSUME NEW k \in DOMAIN symbols, symbols[k].unit.kind = "func",
               \A m \in DOMAIN symbols : m < k => symbols[m].name # symbols[k].name
        PROVE  funcs'[symbols[k].value].name = mangle_func_name(symbols[k].name)
    <3>1. symbols[k].value \in DOMAIN funcs
      BY <1>1, <2>2 DEF SymbolsInvariant
    <3>2. funcs[symbols[k].value].name = mangle_func_name(symbols[k].name)
      BY <1>1, <2>2 DEF NamesInvariant
    <3> QED
      BY <1>13, <3>1, <3>2
  <2>3. ASSUME NEW f \in DOMAIN funcs
        PROVE  \E k \in DOMAIN symbols : \/ funcs'[f].name = mangle_func_name(symbols[k].name)
                                          \/ Len(funcs'[f].name) > 2
    BY <1>1, <1>13 DEF NamesInvariant
  <2> QED
    BY <1>2, <1>9, <2>1, <2>2, <2>3 DEF NamesInvariant
<1>18. BodiesInvariant'
  <2>1. \A x : First(x)' = First(x)
    BY <1>2 DEF First, Found
  <2> SUFFICES ASSUME NEW n \in DOMAIN units, units[n].kind = "func", units[n].full
               PROVE  funcs'[symbols[First(units[n].name)].value].bodies
                        = IF n < i' THEN 1 ELSE 0
    BY <1>2, <2>1 DEF BodiesInvariant
  <2>2. funcs[symbols[First(units[n].name)].value].bodies = IF n < i THEN 1 ELSE 0
    BY <1>1, <1>2 DEF BodiesInvariant
  <2>3. CASE n = i
    <3>1. n < i' /\ ~(n < i)
      BY <1>2, <1>3, <2>3
    <3>2. funcs[target].bodies = 0
      BY <2>2, <2>3, <3>1 DEF target
    <3>3. funcs'[target].bodies = 1
      BY <1>11, <3>2
    <3> QED
      BY <2>3, <3>1, <3>3 DEF target
  <2>4. CASE n # i
    <3>1. n < i' <=> n < i
      BY <1>2, <1>3, <2>4
    <3>2. units[n].name # units[i].name
      BY <1>1, <1>2, <1>3, <2>4, UnitFacts
    <3>3. /\ First(units[n].name) \in DOMAIN symbols
          /\ symbols[First(units[n].name)].name = units[n].name
          /\ symbols[First(units[n].name)].unit.kind = "func"
          /\ symbols[First(units[n].name)].value \in DOMAIN funcs
      BY <1>4, FunctionFound
    <3>4. First(units[n].name) # First(units[i].name)
      BY <1>5, <3>2, <3>3
    <3>5. symbols[First(units[n].name)].value # target
      BY <1>1, <1>5, <3>3, <3>4 DEF SymbolsInvariant, target
    <3>6. funcs'[symbols[First(units[n].name)].value] = funcs[symbols[First(units[n].name)].value]
      BY <1>9, <3>3, <3>5
    <3> QED
      BY <2>2, <3>1, <3>6
  <2> QED
    BY <2>3, <2>4
<1> QED
  BY <1>14, <1>15, <1>16, <1>17, <1>18 DEF Invariant

\* All units have been passed when a stage ends.
LEMMA StageStep ==
  ASSUME Invariant, next_stage
  PROVE  Invariant'
<1>1. UnitsInvariant /\ TypesInvariant /\ SymbolsInvariant /\ NamesInvariant /\ BodiesInvariant
  BY DEF Invariant
<1>2. /\ stage \in 0..2 /\ i > Len(units) /\ stage' = stage + 1 /\ i' = 1
      /\ status = "running" /\ status' = IF stage = 2 THEN "ok" ELSE status
      /\ units' = units /\ package' = package /\ symbols' = symbols /\ funcs' = funcs
  BY DEF next_stage
<1>3. Len(units) \in Nat /\ DOMAIN units = 1..Len(units)
  BY <1>1, UnitFacts
<1>4. \A n \in DOMAIN units : n < i
  <2>1. i \in 1..(Len(units) + 1)
    BY <1>1 DEF UnitsInvariant
  <2> QED
    BY <1>2, <1>3, <2>1
<1>5. UnitsInvariant'
  BY <1>1, <1>2, <1>3 DEF UnitsInvariant
<1>6. TypesInvariant'
  <2>1. Program' = Program
    BY <1>2 DEF Program
  <2> QED
    BY <1>1, <1>2, <2>1 DEF TypesInvariant
<1>7. SymbolsInvariant'
  <2>1. ASSUME NEW n \in DOMAIN units, units[n].kind = "func", stage' >= 2
        PROVE  \E k \in DOMAIN symbols : symbols[k].unit = units[n]
    <3>1. stage >= 2 \/ (stage = 1 /\ n < i)
      BY <1>2, <1>4, <2>1
    <3> QED
      BY <1>1, <2>1, <3>1 DEF SymbolsInvariant
  <2>2. \A n \in DOMAIN units : ~(n < i')
    BY <1>2, <1>3
  <2> QED
    BY <1>1, <1>2, <2>1, <2>2 DEF SymbolsInvariant
<1>8. NamesInvariant'
  BY <1>1, <1>2 DEF NamesInvariant, mangle_func_name
<1>9. BodiesInvariant'
  <2>1. \A x : First(x)' = First(x)
    BY <1>2 DEF First, Found
  <2>2. CASE stage = 0
    BY <1>1, <1>2, <2>2 DEF BodiesInvariant
  <2>3. CASE stage = 1
    <3> SUFFICES ASSUME NEW n \in DOMAIN units, units[n].kind = "func", units[n].full
                 PROVE  funcs[symbols[First(units[n].name)].value].bodies = 0
      <4>1. \A n \in DOMAIN units : ~(stage' = 3 \/ n < i')
        BY <1>2, <1>3, <2>3
      <4>2. ~(stage' <= 1)
        BY <1>2, <2>3
      <4> QED
        BY <1>2, <2>1, <4>1, <4>2 DEF BodiesInvariant
    <3>1. symbols[First(units[n].name)].value \in DOMAIN funcs
      BY <1>4, <2>3, FunctionFound
    <3> QED
      BY <1>1, <2>3, <3>1 DEF BodiesInvariant
  <2>4. CASE stage = 2
    <3> SUFFICES ASSUME NEW n \in DOMAIN units, units[n].kind = "func", units[n].full
                 PROVE  funcs[symbols[First(units[n].name)].value].bodies = 1
      <4>1. stage' = 3 /\ ~(stage' <= 1)
        BY <1>2, <2>4
      <4> QED
        BY <1>2, <2>1, <4>1 DEF BodiesInvariant
    <3> QED
      BY <1>1, <1>4, <2>4 DEF BodiesInvariant
  <2> QED
    BY <1>2, <2>2, <2>3, <2>4
<1> QED
  BY <1>5, <1>6, <1>7, <1>8, <1>9 DEF Invariant

\* The stages keep the invariant, in every file.
LEMMA UnitsInvariantHolds == Spec => []Invariant
<1>1. Init => Invariant
  BY InvariantInit
<1>2. Invariant /\ [Next]_vars => Invariant'
  <2> SUFFICES ASSUME Invariant, [Next]_vars
               PROVE  Invariant'
    OBVIOUS
  <2>1. CASE codegen_package
    BY <2>1, PackageStep
  <2>2. CASE stage_types
    <3>1. CASE units[i].kind = "type"
      BY <2>2, <3>1, SymbolStep DEF stage_types, At
    <3>2. CASE units[i].kind # "type"
      BY <2>2, <3>2, PassStep DEF stage_types, At
    <3> QED
      BY <3>1, <3>2
  <2>3. CASE stage_func
    BY <2>3, FuncStep
  <2>4. CASE stage_const
    <3>1. /\ i <= Len(units) /\ i' = i + 1 /\ stage = 1 /\ units[i].kind = "const"
          /\ UNCHANGED <<units, package, stage, funcs>> /\ AddSymbol(0)
      BY <2>4 DEF stage_const, At
    <3>2. status' # "ok"
      <4>1. PICK result : Outcome(result)
        BY <2>4 DEF stage_const
      <4> QED
        BY <4>1 DEF Outcome
    <3> QED
      BY <3>1, <3>2, SymbolStep
  <2>5. CASE stage_decl_other
    BY <2>5, PassStep DEF stage_decl_other, At
  <2>6. CASE stage_body
    BY <2>6, BodyStep
  <2>7. CASE stage_def_other
    BY <2>7, PassStep DEF stage_def_other, At
  <2>8. CASE next_stage
    BY <2>8, StageStep
  <2>9. CASE UNCHANGED vars
    <3>1. \A x : First(x)' = First(x) /\ mangle_func_name(x)' = mangle_func_name(x)
      BY <2>9 DEF vars, First, Found, mangle_func_name
    <3>2. Program' = Program
      BY <2>9 DEF vars, Program
    <3>3. UnitsInvariant' /\ TypesInvariant'
      BY <2>9, <3>2 DEF vars, Invariant, UnitsInvariant, TypesInvariant
    <3>4. SymbolsInvariant' /\ NamesInvariant'
      BY <2>9, <3>1 DEF vars, Invariant, SymbolsInvariant, NamesInvariant
    <3>5. BodiesInvariant'
      BY <2>9, <3>1 DEF vars, Invariant, BodiesInvariant
    <3> QED
      BY <3>3, <3>4, <3>5 DEF Invariant
  <2> QED
    BY <2>1, <2>2, <2>3, <2>4, <2>5, <2>6, <2>7, <2>8, <2>9 DEF Next, Done
<1> QED
  BY <1>1, <1>2, PTL DEF Spec

\* When a file is through, every function with a body is one function: the one
\* that calls find by its name bears that name in the module and has exactly one
\* body, wherever declaration and definition stand (codegen.c:476-519, 587-610).
THEOREM DefinedFunctionsAreOne == Spec => []OneFunctionPerName
<1>1. Invariant => OneFunctionPerName
  <2> SUFFICES ASSUME Invariant, status = "ok", NEW n \in DOMAIN units,
                      units[n].kind = "func", units[n].full
               PROVE  /\ funcs[codegen_context_find_symbol(units[n].name).value].bodies = 1
                      /\ funcs[codegen_context_find_symbol(units[n].name).value].name
                           = mangle_func_name(units[n].name)
    BY DEF OneFunctionPerName, Program
  <2>1. stage = 3
    BY DEF Invariant, UnitsInvariant
  <2>2. /\ funcs[symbols[First(units[n].name)].value].name = mangle_func_name(units[n].name)
        /\ codegen_context_find_symbol(units[n].name) = symbols[First(units[n].name)]
    BY <2>1, FunctionFound
  <2>3. funcs[symbols[First(units[n].name)].value].bodies = 1
    BY <2>1 DEF Invariant, BodiesInvariant
  <2> QED
    BY <2>2, <2>3
<1> QED
  BY <1>1, UnitsInvariantHolds, PTL

-----------------------------------------------------------------------------
(***************************************************************************)
(* What names lead to.                                                     *)
(***************************************************************************)

\* The closure has the names and all it leads to, and is the least such set.
LEMMA ClosureIsLeast ==
  ASSUME NEW leads, NEW names \in SUBSET DOMAIN leads,
         \A x \in DOMAIN leads : leads[x] \subseteq DOMAIN leads
  PROVE  /\ Closure(names, leads) \subseteq DOMAIN leads
         /\ names \subseteq Closure(names, leads)
         /\ \A x \in Closure(names, leads) : leads[x] \subseteq Closure(names, leads)
         /\ \A S \in SUBSET DOMAIN leads :
              names \subseteq S /\ (\A x \in S : leads[x] \subseteq S)
                => Closure(names, leads) \subseteq S
<1> DEFINE closed == { S \in SUBSET DOMAIN leads :
                         names \subseteq S /\ \A x \in S : leads[x] \subseteq S }
<1>1. Closure(names, leads) = { x \in DOMAIN leads : \A S \in closed : x \in S }
  BY DEF Closure
<1>2. \A S \in closed : S \subseteq DOMAIN leads /\ names \subseteq S /\ \A x \in S : leads[x] \subseteq S
  OBVIOUS
<1>3. ASSUME NEW S \in SUBSET DOMAIN leads, names \subseteq S, \A x \in S : leads[x] \subseteq S
      PROVE  S \in closed
  BY <1>3
<1> HIDE DEF closed
<1>4. ASSUME NEW x \in Closure(names, leads), NEW y \in leads[x]
      PROVE  y \in Closure(names, leads)
  <2>1. x \in DOMAIN leads /\ \A S \in closed : x \in S
    BY <1>1, <1>4
  <2>2. y \in DOMAIN leads
    BY <1>4, <2>1
  <2>3. \A S \in closed : y \in S
    BY <1>2, <1>4, <2>1
  <2> QED
    BY <1>1, <2>2, <2>3
<1> QED
  BY <1>1, <1>2, <1>3, <1>4

\* What is in a closure leads to nothing outside it.
LEMMA ClosureWithin ==
  ASSUME NEW leads, NEW names \in SUBSET DOMAIN leads,
         \A x \in DOMAIN leads : leads[x] \subseteq DOMAIN leads,
         NEW y \in Closure(names, leads)
  PROVE  Closure(leads[y], leads) \subseteq Closure(names, leads)
<1> DEFINE C == Closure(names, leads)
<1>1. C \in SUBSET DOMAIN leads /\ \A x \in C : leads[x] \subseteq C
  BY ClosureIsLeast
<1>2. leads[y] \in SUBSET DOMAIN leads /\ leads[y] \subseteq C
  BY <1>1
<1> HIDE DEF C
<1>3. Closure(leads[y], leads) \subseteq C
  BY <1>1, <1>2, ClosureIsLeast
<1> QED
  BY <1>3 DEF C

\* Two ways to lead on from a name that agree on the closure have the same one.
LEMMA ClosuresAgree ==
  ASSUME NEW D, NEW f, NEW g, DOMAIN f = D, DOMAIN g = D,
         \A x \in D : f[x] \subseteq D /\ g[x] \subseteq D,
         NEW names \in SUBSET D,
         \A x \in Closure(names, f) : f[x] = g[x]
  PROVE  Closure(names, g) = Closure(names, f)
<1>1. /\ Closure(names, f) \in SUBSET D
      /\ names \subseteq Closure(names, f)
      /\ \A x \in Closure(names, f) : f[x] \subseteq Closure(names, f)
      /\ \A S \in SUBSET D :
           names \subseteq S /\ (\A x \in S : f[x] \subseteq S) => Closure(names, f) \subseteq S
  BY ClosureIsLeast
<1>2. /\ Closure(names, g) \in SUBSET D
      /\ names \subseteq Closure(names, g)
      /\ \A x \in Closure(names, g) : g[x] \subseteq Closure(names, g)
      /\ \A S \in SUBSET D :
           names \subseteq S /\ (\A x \in S : g[x] \subseteq S) => Closure(names, g) \subseteq S
  BY ClosureIsLeast
<1>3. Closure(names, g) \subseteq Closure(names, f)
  BY <1>1, <1>2
<1>4. \A x \in Closure(names, g) : f[x] \subseteq Closure(names, g)
  BY <1>2, <1>3
<1>5. Closure(names, f) \subseteq Closure(names, g)
  BY <1>1, <1>2, <1>4
<1> QED
  BY <1>3, <1>5

\* They loop together, too.
LEMMA LoopsAgree ==
  ASSUME NEW D, NEW f, NEW g, DOMAIN f = D, DOMAIN g = D,
         \A x \in D : f[x] \subseteq D /\ g[x] \subseteq D,
         NEW names \in SUBSET D,
         \A x \in Closure(names, f) : f[x] = g[x]
  PROVE  /\ Closure(names, g) = Closure(names, f)
         /\ Loops(names, f) <=> Loops(names, g)
<1>1. Closure(names, g) = Closure(names, f)
  BY ClosuresAgree
<1>2. ASSUME NEW x \in Closure(names, f)
      PROVE  Closure(g[x], g) = Closure(f[x], f)
  <2>1. Closure(names, f) \subseteq D
    BY ClosureIsLeast
  <2>2. f[x] \in SUBSET D /\ f[x] = g[x]
    BY <1>2, <2>1
  <2>3. \A y \in Closure(f[x], f) : f[y] = g[y]
    BY ClosureWithin
  <2>4. Closure(f[x], g) = Closure(f[x], f)
    BY <2>2, <2>3, ClosuresAgree
  <2> QED
    BY <2>2, <2>4
<1> QED
  BY <1>1, <1>2 DEF Loops

-----------------------------------------------------------------------------
(***************************************************************************)
(* What the symbols say of a name is what the units say.                   *)
(***************************************************************************)

\* A name that is not a function's is defined once, all of a function's are functions.
LEMMA DefinitionsOfName ==
  ASSUME UnitsInvariant, NEW name, NEW u \in Named(name)
  PROVE  /\ u \in Program /\ u.name = name /\ u.kind \in {"type", "func", "const"}
         /\ u.kind = "func" => \A v \in Named(name) : v.kind = "func"
         /\ u.kind # "func" => Named(name) = {u}
<1>1. PICK S \in Programs : units \in Orders(S)
  BY DEF UnitsInvariant
<1>2. units \in Seq(S)
  BY <1>1, ProgramsAssumption, OrdersAreOneToOne
<1>3. \A v \in Program : v \in S
  BY <1>2 DEF Program
<1>4. \A v \in S : v.kind \in {"type", "func", "const", "package"}
  BY ProgramsAssumption
<1>5. \A v, w \in S :
        v # w /\ v.name = w.name /\ v.kind # "package" /\ w.kind # "package"
          => v.kind = "func" /\ w.kind = "func"
  BY ProgramsAssumption
<1>6. \A v \in Named(name) : v \in S /\ v \in Program /\ v.name = name /\ v.kind # "package"
  BY <1>3 DEF Named
<1>7. u.kind \in {"type", "func", "const"}
  BY <1>4, <1>6
<1>8. \A v \in Named(name) : v # u => u.kind = "func" /\ v.kind = "func"
  BY <1>5, <1>6
<1> QED
  BY <1>6, <1>7, <1>8

\* The unit that is found for a name is one that the name has.
LEMMA FoundUnit ==
  ASSUME Invariant, NEW name, Found(name) # {}
  PROVE  codegen_context_find_symbol(name).unit \in Named(name)
<1>1. TypesInvariant /\ SymbolsInvariant
  BY DEF Invariant
<1>2. symbols \in Seq([name : Word, unit : Program, value : Nat])
  BY <1>1 DEF TypesInvariant
<1> DEFINE k == First(name)
<1> HIDE DEF k
<1>3. k \in DOMAIN symbols /\ symbols[k].name = name /\ codegen_context_find_symbol(name) = symbols[k]
  BY <1>2, FirstSymbol DEF k
<1>4. symbols[k].unit \in Program
  BY <1>1, <1>3, SymbolTypes
<1>5. symbols[k].unit.name = name /\ symbols[k].unit.kind # "package"
  BY <1>1, <1>3 DEF SymbolsInvariant
<1> QED
  BY <1>3, <1>4, <1>5 DEF Named

\* A unit has its symbol.
Declared(u) == \E k \in DOMAIN symbols : symbols[k].unit = u

LEMMA DeclaredIsFound ==
  ASSUME Invariant, NEW name, NEW u \in Named(name), Declared(u)
  PROVE  Found(name) # {}
<1>1. PICK k \in DOMAIN symbols : symbols[k].unit = u
  BY DEF Declared
<1>2. symbols[k].name = u.name
  BY <1>1 DEF Invariant, SymbolsInvariant
<1> QED
  BY <1>1, <1>2 DEF Found, Named

\* Nothing leads to a name that is not mentioned.
LEMMA LeadsToMentioned ==
  ASSUME Invariant
  PROVE  /\ \A u \in Program : u.types \subseteq Mentioned /\ u.ids \subseteq Mentioned
         /\ \A x : TypesOf(x) \subseteq Mentioned /\ ValuesOf(x) \subseteq Mentioned
         /\ \A x : DefinedBy(x) \subseteq Mentioned
<1>1. \A u \in Program : u.types \subseteq Mentioned /\ u.ids \subseteq Mentioned
  BY DEF Program, Mentioned
<1>2. \A x : Found(x) # {} => codegen_context_find_symbol(x).unit \in Program
  BY FoundUnit DEF Named
<1>3. \A x : TypesOf(x) \subseteq Mentioned /\ ValuesOf(x) \subseteq Mentioned
  BY <1>1, <1>2 DEF TypesOf, ValuesOf
<1>4. ASSUME NEW x, NEW y \in DefinedBy(x)
      PROVE  y \in Mentioned
  <2>1. PICK u \in Named(x) : y \in IF u.kind = "type" THEN u.types ELSE u.ids
    BY <1>4 DEF DefinedBy
  <2>2. u \in Program
    BY DEF Named
  <2>3. y \in u.types \/ y \in u.ids
    BY <2>1
  <2> QED
    BY <1>1, <2>2, <2>3
<1> QED
  BY <1>1, <1>3, <1>4

\* What is used by a name that is defined once, and by a function's.
LEMMA DefinedByOne ==
  ASSUME UnitsInvariant, NEW name, NEW u \in Named(name)
  PROVE  /\ u.kind = "type" => DefinedBy(name) = u.types
         /\ u.kind = "const" => DefinedBy(name) = u.ids
         /\ u.kind = "func" => DefinedBy(name) = {}
<1>1. /\ u.kind = "func" => \A v \in Named(name) : v.kind = "func"
      /\ u.kind # "func" => Named(name) = {u}
  BY DefinitionsOfName
<1>2. CASE u.kind = "func"
  BY <1>1, <1>2 DEF DefinedBy
<1>3. CASE u.kind = "type"
  <2>1. { v \in Named(name) : v.kind \in {"type", "const"} } = {u}
    BY <1>1, <1>3
  <2> QED
    BY <1>3, <2>1 DEF DefinedBy
<1>4. CASE u.kind = "const"
  <2>1. { v \in Named(name) : v.kind \in {"type", "const"} } = {u}
    BY <1>1, <1>4
  <2> QED
    BY <1>4, <2>1 DEF DefinedBy
<1> QED
  BY <1>2, <1>3, <1>4

\* What the file says each name is defined by, as a function.
Meaning == [x \in Mentioned |-> DefinedBy(x)]

LEMMA SoundIsLoopFree ==
  ASSUME Invariant, NEW names \in SUBSET Mentioned
  PROVE  /\ Sound(names, TRUE) <=>
              /\ \A x \in Closure(names, Meaning) :
                   Named(x) # {} /\ \A u \in Named(x) : u.kind = "type"
              /\ ~Loops(names, Meaning)
         /\ Sound(names, FALSE) <=>
              /\ \A x \in Closure(names, Meaning) :
                   Named(x) # {} /\ \A u \in Named(x) : u.kind # "type"
              /\ ~Loops(names, Meaning)
<1>1. \A S : Uses(S) = Closure(S, Meaning)
  BY DEF Uses, Meaning
<1>2. \A x \in Mentioned : Meaning[x] \subseteq Mentioned
  BY LeadsToMentioned DEF Meaning
<1>3. DOMAIN Meaning = Mentioned
  BY DEF Meaning
<1>4. \A x \in Closure(names, Meaning) : Meaning[x] = DefinedBy(x)
  BY <1>2, <1>3, ClosureIsLeast DEF Meaning
<1>5. Loops(names, Meaning) <=>
        \E x \in Closure(names, Meaning) : x \in Closure(DefinedBy(x), Meaning)
  BY <1>4 DEF Loops
<1>6. Sound(names, TRUE) <=>
        \A x \in Closure(names, Meaning) :
          /\ Named(x) # {}
          /\ \A u \in Named(x) : u.kind = "type"
          /\ x \notin Closure(DefinedBy(x), Meaning)
  BY <1>1 DEF Sound
<1>7. Sound(names, FALSE) <=>
        \A x \in Closure(names, Meaning) :
          /\ Named(x) # {}
          /\ \A u \in Named(x) : u.kind # "type"
          /\ x \notin Closure(DefinedBy(x), Meaning)
  BY <1>1 DEF Sound
<1> QED
  BY <1>5, <1>6, <1>7

\* Once all types have their symbols, codegen_type takes exactly the sound types.
LEMMA SignatureIsSound ==
  ASSUME Invariant, TypesAreTypes, NEW s \in Program,
         \A u \in Program : u.kind = "type" => Declared(u)
  PROVE  codegen_type(s.types) = "ok" <=> Sound(s.types, TRUE)
<1> DEFINE names == s.types
           types == [x \in Mentioned |-> TypesOf(x)]
           Unit(x) == codegen_context_find_symbol(x).unit
<1>1. UnitsInvariant
  BY DEF Invariant
<1>2. /\ DOMAIN types = Mentioned /\ DOMAIN Meaning = Mentioned
      /\ \A x \in Mentioned : types[x] = TypesOf(x) /\ Meaning[x] = DefinedBy(x)
      /\ \A x \in Mentioned : types[x] \subseteq Mentioned /\ Meaning[x] \subseteq Mentioned
      /\ names \in SUBSET Mentioned
  BY LeadsToMentioned DEF Meaning
<1>3. codegen_type(names) = "ok" <=>
        /\ \A x \in Closure(names, types) : Found(x) # {} /\ ~Untyped(Unit(x))
        /\ ~Loops(names, types)
  BY DEF codegen_type
<1>4. Sound(names, TRUE) <=>
        /\ \A x \in Closure(names, Meaning) :
             Named(x) # {} /\ \A u \in Named(x) : u.kind = "type"
        /\ ~Loops(names, Meaning)
  BY <1>2, SoundIsLoopFree
<1>5. ASSUME NEW x \in Mentioned, Found(x) # {}, Unit(x).kind = "type"
      PROVE  TypesOf(x) = DefinedBy(x) /\ Named(x) = {Unit(x)}
  <2>1. Unit(x) \in Named(x)
    BY <1>5, FoundUnit
  <2>2. ~Untyped(Unit(x))
    BY <1>5 DEF Untyped
  <2>3. TypesOf(x) = Unit(x).types
    BY <1>5, <2>2 DEF TypesOf
  <2>4. DefinedBy(x) = Unit(x).types
    BY <1>1, <1>5, <2>1, DefinedByOne
  <2>5. Named(x) = {Unit(x)}
    BY <1>1, <1>5, <2>1, DefinitionsOfName
  <2> QED
    BY <2>3, <2>4, <2>5
<1>6. \A x \in Closure(names, types) : \E u \in Program : x \in u.types
  <2> DEFINE used == { x \in Mentioned : \E u \in Program : x \in u.types }
  <2>1. names \subseteq used
    BY <1>2
  <2>2. ASSUME NEW x \in used
        PROVE  types[x] \subseteq used
    <3>1. types[x] = TypesOf(x) /\ types[x] \subseteq Mentioned
      BY <1>2
    <3>2. TypesOf(x) = {} \/ (Found(x) # {} /\ TypesOf(x) = Unit(x).types)
      BY DEF TypesOf
    <3>3. Found(x) # {} => Unit(x) \in Program
      BY FoundUnit DEF Named
    <3> QED
      BY <3>1, <3>2, <3>3
  <2>3. used \in SUBSET Mentioned
    OBVIOUS
  <2> HIDE DEF used, types, names
  <2>4. Closure(names, types) \subseteq used
    BY <1>2, <2>1, <2>2, <2>3, ClosureIsLeast
  <2> QED
    BY <2>4 DEF used
<1> HIDE DEF names, types
<1>7. ASSUME codegen_type(names) = "ok"
      PROVE  Sound(names, TRUE)
  <2>1. ASSUME NEW x \in Closure(names, types)
        PROVE  x \in Mentioned /\ Found(x) # {} /\ Unit(x).kind = "type"
    <3>1. x \in Mentioned
      BY <1>2, ClosureIsLeast
    <3>2. Found(x) # {} /\ ~Untyped(Unit(x))
      BY <1>3, <1>7
    <3>3. Unit(x) \in Named(x)
      BY <3>2, FoundUnit
    <3>4. Unit(x).kind = "type" \/ Untyped(Unit(x))
      BY <1>6, <3>3 DEF TypesAreTypes
    <3> QED
      BY <3>1, <3>2, <3>4
  <2>2. \A x \in Closure(names, types) : types[x] = Meaning[x]
    BY <1>2, <1>5, <2>1
  <2>3. Closure(names, Meaning) = Closure(names, types)
        /\ (Loops(names, types) <=> Loops(names, Meaning))
    BY <1>2, <2>2, LoopsAgree
  <2>4. \A x \in Closure(names, types) : Named(x) = {Unit(x)} /\ Unit(x).kind = "type"
    BY <1>5, <2>1
  <2> QED
    BY <1>3, <1>4, <1>7, <2>3, <2>4
<1>8. ASSUME Sound(names, TRUE)
      PROVE  codegen_type(names) = "ok"
  <2>1. ASSUME NEW x \in Closure(names, Meaning)
        PROVE  x \in Mentioned /\ Found(x) # {} /\ Unit(x).kind = "type"
    <3>1. x \in Mentioned
      BY <1>2, ClosureIsLeast
    <3>2. PICK u \in Named(x) : u.kind = "type"
      BY <1>4, <1>8
    <3>3. Declared(u)
      BY <3>2 DEF Named
    <3>4. Found(x) # {}
      BY <3>3, DeclaredIsFound
    <3>5. Unit(x) \in Named(x)
      BY <3>4, FoundUnit
    <3> QED
      BY <1>4, <1>8, <3>1, <3>4, <3>5
  <2>2. \A x \in Closure(names, Meaning) : Meaning[x] = types[x]
    BY <1>2, <1>5, <2>1
  <2>3. Closure(names, types) = Closure(names, Meaning)
        /\ (Loops(names, Meaning) <=> Loops(names, types))
    BY <1>2, <2>2, LoopsAgree
  <2>4. \A x \in Closure(names, Meaning) : Found(x) # {} /\ ~Untyped(Unit(x))
    BY <2>1 DEF Untyped
  <2> QED
    BY <1>3, <1>4, <1>8, <2>3, <2>4
<1> QED
  BY <1>7, <1>8 DEF names

\* Once all units have their symbols, codegen_expr takes exactly the sound values.
LEMMA BodyIsSound ==
  ASSUME Invariant, LiteralConstants, NEW s \in Program,
         \A u \in Program : u.kind # "package" => Declared(u)
  PROVE  codegen_expr(s.ids, TRUE) = "ok" <=> Sound(s.ids, FALSE)
<1> DEFINE names == s.ids
           values == [x \in Mentioned |-> ValuesOf(x)]
           Unit(x) == codegen_context_find_symbol(x).unit
<1>1. UnitsInvariant
  BY DEF Invariant
<1>2. /\ DOMAIN values = Mentioned /\ DOMAIN Meaning = Mentioned
      /\ \A x \in Mentioned : values[x] = ValuesOf(x) /\ Meaning[x] = DefinedBy(x)
      /\ \A x \in Mentioned : values[x] \subseteq Mentioned /\ Meaning[x] \subseteq Mentioned
      /\ names \in SUBSET Mentioned
  BY LeadsToMentioned DEF Meaning
<1>3. codegen_expr(names, TRUE) = "ok" <=>
        /\ \A x \in Closure(names, values) : Found(x) # {} /\ Unit(x).kind # "type"
        /\ ~Loops(names, values)
  BY DEF codegen_expr
<1>4. Sound(names, FALSE) <=>
        /\ \A x \in Closure(names, Meaning) :
             Named(x) # {} /\ \A u \in Named(x) : u.kind # "type"
        /\ ~Loops(names, Meaning)
  BY <1>2, SoundIsLoopFree
<1>5. ASSUME NEW x \in Mentioned, Found(x) # {}, Unit(x).kind # "type"
      PROVE  ValuesOf(x) = DefinedBy(x) /\ Named(x) # {} /\ \A u \in Named(x) : u.kind # "type"
  <2>1. Unit(x) \in Named(x)
    BY <1>5, FoundUnit
  <2>2. /\ Unit(x) \in Program /\ Unit(x).kind \in {"type", "func", "const"}
        /\ Unit(x).kind = "func" => \A v \in Named(x) : v.kind = "func"
        /\ Unit(x).kind # "func" => Named(x) = {Unit(x)}
    BY <1>1, <2>1, DefinitionsOfName
  <2>3. \A u \in Named(x) : u.kind # "type"
    BY <1>5, <2>2
  <2>4. CASE Unit(x).kind = "func"
    <3>1. DefinedBy(x) = {}
      BY <1>1, <2>1, <2>4, DefinedByOne
    <3>2. ValuesOf(x) = {}
      BY <2>4 DEF ValuesOf, Untyped
    <3> QED
      BY <2>1, <2>3, <3>1, <3>2
  <2>5. CASE Unit(x).kind = "const" /\ ~Unit(x).full
    <3>1. DefinedBy(x) = Unit(x).ids
      BY <1>1, <2>1, <2>5, DefinedByOne
    <3>2. ValuesOf(x) = Unit(x).ids
      BY <1>5, <2>5 DEF ValuesOf, Untyped
    <3> QED
      BY <2>1, <2>3, <3>1, <3>2
  <2>6. CASE Unit(x).kind = "const" /\ Unit(x).full
    <3>1. DefinedBy(x) = Unit(x).ids
      BY <1>1, <2>1, <2>6, DefinedByOne
    <3>2. Unit(x).ids = {}
      BY <2>2, <2>6 DEF LiteralConstants
    <3>3. ValuesOf(x) = {}
      BY <2>6 DEF ValuesOf, Untyped
    <3> QED
      BY <2>1, <2>3, <3>1, <3>2, <3>3
  <2> QED
    BY <1>5, <2>2, <2>4, <2>5, <2>6
<1> HIDE DEF names, values
<1>6. ASSUME codegen_expr(names, TRUE) = "ok"
      PROVE  Sound(names, FALSE)
  <2>1. \A x \in Closure(names, values) : x \in Mentioned /\ Found(x) # {} /\ Unit(x).kind # "type"
    BY <1>2, <1>3, <1>6, ClosureIsLeast
  <2>2. \A x \in Closure(names, values) : values[x] = Meaning[x]
    BY <1>2, <1>5, <2>1
  <2>3. Closure(names, Meaning) = Closure(names, values)
        /\ (Loops(names, values) <=> Loops(names, Meaning))
    BY <1>2, <2>2, LoopsAgree
  <2>4. \A x \in Closure(names, values) : Named(x) # {} /\ \A u \in Named(x) : u.kind # "type"
    BY <1>5, <2>1
  <2> QED
    BY <1>3, <1>4, <1>6, <2>3, <2>4
<1>7. ASSUME Sound(names, FALSE)
      PROVE  codegen_expr(names, TRUE) = "ok"
  <2>1. ASSUME NEW x \in Closure(names, Meaning)
        PROVE  x \in Mentioned /\ Found(x) # {} /\ Unit(x).kind # "type"
    <3>1. x \in Mentioned
      BY <1>2, ClosureIsLeast
    <3>2. PICK u \in Named(x) : TRUE
      BY <1>4, <1>7
    <3>3. Declared(u)
      BY DEF Named
    <3>4. Found(x) # {}
      BY <3>3, DeclaredIsFound
    <3>5. Unit(x) \in Named(x)
      BY <3>4, FoundUnit
    <3> QED
      BY <1>4, <1>7, <3>1, <3>4, <3>5
  <2>2. \A x \in Closure(names, Meaning) : Meaning[x] = values[x]
    BY <1>2, <1>5, <2>1
  <2>3. Closure(names, values) = Closure(names, Meaning)
        /\ (Loops(names, Meaning) <=> Loops(names, values))
    BY <1>2, <2>2, LoopsAgree
  <2>4. \A x \in Closure(names, Meaning) : Found(x) # {} /\ Unit(x).kind # "type"
    BY <2>1
  <2> QED
    BY <1>3, <1>4, <1>7, <2>3, <2>4
<1> QED
  BY <1>6, <1>7 DEF names

\* A literal has nothing to look up.
LEMMA LiteralIsSound ==
  /\ \A builder : codegen_expr({}, builder) = "ok"
  /\ Sound({}, FALSE)
<1>1. \A leads : Closure({}, leads) = {}
  <2> SUFFICES ASSUME NEW leads, NEW x \in Closure({}, leads)
               PROVE  FALSE
    OBVIOUS
  <2> DEFINE closed == { S \in SUBSET DOMAIN leads : {} \subseteq S /\ \A y \in S : leads[y] \subseteq S }
  <2>1. {} \in closed
    OBVIOUS
  <2>2. \A S \in closed : x \in S
    BY DEF Closure
  <2> QED
    BY <2>1, <2>2
<1> QED
  BY <1>1 DEF codegen_expr, Loops, Sound, Uses

-----------------------------------------------------------------------------
(***************************************************************************)
(* What the stages have found out.                                         *)
(***************************************************************************)

\* What stage 1 looks at in a unit, and what stage 2 does.
SoundSignature(u) == u.kind = "func" \/ (u.kind = "const" /\ u.full) => Sound(u.types, TRUE)
SoundBody(u) == u.kind = "func" /\ u.full => Sound(u.ids, FALSE)

\* The units that have been passed have their symbols and were sound; codegen has
\* given up only on a file that means nothing.
OrderInvariant ==
  /\ stage = -1 => i = 1 /\ status = "running"
  /\ \A n \in DOMAIN units :
       /\ units[n].kind = "type" /\ (stage >= 1 \/ (stage = 0 /\ n < i)) => Declared(units[n])
       /\ units[n].kind # "package" /\ (stage >= 2 \/ (stage = 1 /\ n < i)) => Declared(units[n])
  /\ status \in {"running", "ok"} /\ stage >= 0 => Cardinality(Packages) <= 1
  /\ LiteralConstants /\ TypesAreTypes =>
       /\ status \in {"running", "ok"} =>
            \A n \in DOMAIN units :
              /\ stage >= 2 \/ (stage = 1 /\ n < i) => SoundSignature(units[n])
              /\ stage = 3 \/ (stage = 2 /\ n < i) => SoundBody(units[n])
       /\ status \notin {"running", "ok"} => ~Meaningful

\* A file means something if its units are sound one by one.
LEMMA MeaningfulUnits ==
  ASSUME LiteralConstants
  PROVE  Meaningful <=> /\ Cardinality(Packages) <= 1
                        /\ \A n \in DOMAIN units : SoundSignature(units[n]) /\ SoundBody(units[n])
<1>1. Program = { units[n] : n \in DOMAIN units }
  BY DEF Program
<1>2. \A u \in Program : u.kind = "const" /\ u.full => Sound(u.ids, FALSE)
  BY LiteralIsSound DEF LiteralConstants
<1>3. Meaningful <=> /\ Cardinality(Packages) <= 1
                     /\ \A u \in Program : SoundSignature(u) /\ SoundBody(u)
  BY <1>2 DEF Meaningful, SoundSignature, SoundBody
<1> QED
  BY <1>1, <1>3

\* The meaning of a file is that of its units, which no step changes.
LEMMA MeaningStays ==
  ASSUME units' = units
  PROVE  /\ Cardinality(Packages)' = Cardinality(Packages)
         /\ LiteralConstants' = LiteralConstants /\ TypesAreTypes' = TypesAreTypes
         /\ Meaningful' = Meaningful
         /\ \A u : SoundSignature(u)' = SoundSignature(u) /\ SoundBody(u)' = SoundBody(u)
<1>1. Program' = Program /\ Packages' = Packages /\ Mentioned' = Mentioned
  BY DEF Program, Packages, Mentioned
<1>2. \A x : Named(x)' = Named(x)
  BY <1>1 DEF Named
<1>3. \A x : DefinedBy(x)' = DefinedBy(x)
  BY <1>2 DEF DefinedBy
<1>4. \A S : Uses(S)' = Uses(S)
  BY <1>1, <1>3 DEF Uses, Closure
<1>5. \A S : \A b : Sound(S, b)' = Sound(S, b)
  BY <1>2, <1>3, <1>4 DEF Sound
<1>6. LiteralConstants' = LiteralConstants /\ TypesAreTypes' = TypesAreTypes
  BY <1>1, <1>2 DEF LiteralConstants, TypesAreTypes, Untyped
<1>7. \A u : SoundSignature(u)' = SoundSignature(u) /\ SoundBody(u)' = SoundBody(u)
  BY <1>5 DEF SoundSignature, SoundBody
<1>8. Meaningful' = Meaningful
  BY <1>1, <1>5 DEF Meaningful
<1> QED
  BY <1>1, <1>6, <1>7, <1>8

LEMMA OrderInit == Init => OrderInvariant
BY DEF Init, OrderInvariant

\* A unit has its symbol after the step.
DeclaredThen(u) == \E k \in DOMAIN symbols' : symbols'[k].unit = u

\* A unit is passed: it has its symbol then, and codegen goes on if it is sound.
LEMMA PassUnit ==
  ASSUME Invariant, OrderInvariant,
         units' = units, stage' = stage, stage \in 0..2, i \in DOMAIN units, i' = i + 1,
         status = "running", status' \in {"running", "error", "crash"},
         \A u : Declared(u) => DeclaredThen(u),
         stage = 0 /\ units[i].kind = "type" => DeclaredThen(units[i]),
         stage = 1 /\ units[i].kind # "package" => DeclaredThen(units[i]),
         LiteralConstants /\ TypesAreTypes =>
           (status' = "running" <=> /\ stage = 1 => SoundSignature(units[i])
                                    /\ stage = 2 => SoundBody(units[i]))
  PROVE  OrderInvariant'
<1>1. Len(units) \in Nat /\ DOMAIN units = 1..Len(units)
  BY UnitFacts DEF Invariant
<1>2. \A n \in DOMAIN units : n < i' <=> n < i \/ n = i
  BY <1>1
<1>3. ASSUME NEW n \in DOMAIN units,
             units[n].kind = "type", stage >= 1 \/ (stage = 0 /\ n < i')
      PROVE  DeclaredThen(units[n])
  <2>1. CASE stage >= 1 \/ (stage = 0 /\ n < i)
    BY <1>3, <2>1 DEF OrderInvariant
  <2>2. CASE stage = 0 /\ n = i
    BY <1>3, <2>2
  <2> QED
    BY <1>2, <1>3, <2>1, <2>2
<1>4. ASSUME NEW n \in DOMAIN units,
             units[n].kind # "package", stage >= 2 \/ (stage = 1 /\ n < i')
      PROVE  DeclaredThen(units[n])
  <2>1. CASE stage >= 2 \/ (stage = 1 /\ n < i)
    BY <1>4, <2>1 DEF OrderInvariant
  <2>2. CASE stage = 1 /\ n = i
    BY <1>4, <2>2
  <2> QED
    BY <1>2, <1>4, <2>1, <2>2
<1>5. Cardinality(Packages) <= 1
  BY DEF OrderInvariant
<1>6. ASSUME LiteralConstants, TypesAreTypes
      PROVE  /\ status' \in {"running", "ok"} =>
                  \A n \in DOMAIN units :
                    /\ stage >= 2 \/ (stage = 1 /\ n < i') => SoundSignature(units[n])
                    /\ stage = 3 \/ (stage = 2 /\ n < i') => SoundBody(units[n])
             /\ status' \notin {"running", "ok"} => ~Meaningful
  <2>1. \A n \in DOMAIN units :
          /\ stage >= 2 \/ (stage = 1 /\ n < i) => SoundSignature(units[n])
          /\ stage = 3 \/ (stage = 2 /\ n < i) => SoundBody(units[n])
    BY <1>6 DEF OrderInvariant
  <2>2. ASSUME status' \in {"running", "ok"}, NEW n \in DOMAIN units
        PROVE  /\ stage >= 2 \/ (stage = 1 /\ n < i') => SoundSignature(units[n])
               /\ stage = 3 \/ (stage = 2 /\ n < i') => SoundBody(units[n])
    <3>1. /\ stage = 1 => SoundSignature(units[i])
          /\ stage = 2 => SoundBody(units[i])
      BY <1>6, <2>2
    <3> QED
      BY <1>2, <2>1, <3>1
  <2>3. ASSUME status' \notin {"running", "ok"}
        PROVE  ~Meaningful
    <3>1. ~SoundSignature(units[i]) \/ ~SoundBody(units[i])
      BY <1>6, <2>3
    <3> QED
      BY <1>6, <3>1, MeaningfulUnits
  <2> QED
    BY <2>2, <2>3
<1>7. /\ Cardinality(Packages)' = Cardinality(Packages)
      /\ LiteralConstants' = LiteralConstants /\ TypesAreTypes' = TypesAreTypes
      /\ Meaningful' = Meaningful
      /\ \A u : SoundSignature(u)' = SoundSignature(u) /\ SoundBody(u)' = SoundBody(u)
  BY MeaningStays
<1>8. \A n \in DOMAIN units' : Declared(units[n])' <=> DeclaredThen(units[n])
  BY DEF Declared, DeclaredThen
<1>9. ~(stage' = -1)
  OBVIOUS
<1> QED
  BY <1>3, <1>4, <1>5, <1>6, <1>7, <1>8, <1>9 DEF OrderInvariant

\* A symbol that is added leaves the others there.
LEMMA SymbolAdded ==
  ASSUME Invariant, NEW value, AddSymbol(value), units' = units
  PROVE  DeclaredThen(units[i]) /\ \A u : Declared(u) => DeclaredThen(u)
<1> DEFINE Symbol == [name : Word, unit : Program, value : Nat]
           sym == [name |-> units[i].name, unit |-> units[i], value |-> value]
<1>1. symbols \in Seq(Symbol)
  BY DEF Invariant, TypesInvariant
<1> HIDE DEF Symbol
<1>2. symbols' = Append(symbols, sym) /\ sym.unit = units[i]
  BY DEF AddSymbol
<1> HIDE DEF sym
<1>3. /\ Len(symbols) \in Nat /\ DOMAIN symbols = 1..Len(symbols)
      /\ DOMAIN symbols' = 1..(Len(symbols) + 1)
      /\ symbols'[Len(symbols) + 1] = sym
      /\ \A k \in DOMAIN symbols : symbols'[k] = symbols[k]
  BY <1>1, <1>2
<1>4. symbols'[Len(symbols) + 1].unit = units[i] /\ Len(symbols) + 1 \in DOMAIN symbols'
  BY <1>2, <1>3
<1>5. \A k \in DOMAIN symbols : k \in DOMAIN symbols' /\ symbols'[k].unit = symbols[k].unit
  BY <1>3
<1> QED
  BY <1>4, <1>5 DEF Declared, DeclaredThen

\* What a step of a stage has in common: the unit it is at.
LEMMA AtUnit ==
  ASSUME Invariant, NEW s \in 0..2, At(s)
  PROVE  stage = s /\ status = "running" /\ i \in DOMAIN units /\ units[i] \in Program
<1>1. Len(units) \in Nat /\ DOMAIN units = 1..Len(units) /\ i \in 1..(Len(units) + 1)
  BY UnitFacts DEF Invariant, UnitsInvariant
<1>2. i \in DOMAIN units
  BY <1>1 DEF At
<1> QED
  BY <1>2, UnitFacts DEF At, Invariant

LEMMA KeptSymbols ==
  ASSUME symbols' = symbols
  PROVE  \A u : Declared(u) => DeclaredThen(u)
BY DEF Declared, DeclaredThen

LEMMA TypesStep ==
  ASSUME Invariant, OrderInvariant, stage_types
  PROVE  OrderInvariant'
<1>1. /\ At(0) /\ i' = i + 1 /\ units' = units /\ stage' = stage /\ status' = status
      /\ IF units[i].kind = "type" THEN AddSymbol(0) ELSE UNCHANGED symbols
  BY DEF stage_types
<1>2. stage = 0 /\ status = "running" /\ i \in DOMAIN units
  BY <1>1, AtUnit
<1>3. /\ \A u : Declared(u) => DeclaredThen(u)
      /\ units[i].kind = "type" => DeclaredThen(units[i])
  BY <1>1, SymbolAdded, KeptSymbols
<1> QED
  BY <1>1, <1>2, <1>3, PassUnit

\* The types are all declared when functions and constants are.
LEMMA DeclStep ==
  ASSUME Invariant, OrderInvariant, stage_func \/ stage_const \/ stage_decl_other
  PROVE  OrderInvariant'
<1>1. At(1) /\ i' = i + 1 /\ units' = units /\ stage' = stage
  BY DEF stage_func, stage_const, stage_decl_other
<1>2. stage = 1 /\ stage # 2 /\ status = "running" /\ i \in DOMAIN units /\ units[i] \in Program
  BY <1>1, AtUnit
<1>3. /\ Len(units) \in Nat /\ DOMAIN units = 1..Len(units)
      /\ Program = { units[n] : n \in DOMAIN units }
  BY UnitFacts DEF Invariant, Program
<1>4. \A u \in Program : u.kind = "type" => Declared(u)
  BY <1>2, <1>3 DEF OrderInvariant
<1>5. TypesAreTypes => (codegen_type(units[i].types) = "ok" <=> Sound(units[i].types, TRUE))
  BY <1>2, <1>4, SignatureIsSound
<1>6. codegen_type(units[i].types) \in {"ok", "error", "crash"}
  BY DEF codegen_type
<1>7. CASE stage_func
  <2>1. Outcome(codegen_type(units[i].types)) /\ units[i].kind = "func" /\ AddSymbol(Len(funcs) + 1)
    BY <1>7 DEF stage_func
  <2>2. status' \in {"running", "error", "crash"}
        /\ (status' = "running" <=> codegen_type(units[i].types) = "ok")
    BY <1>6, <2>1 DEF Outcome
  <2>3. SoundSignature(units[i]) <=> Sound(units[i].types, TRUE)
    BY <2>1 DEF SoundSignature
  <2>4. DeclaredThen(units[i]) /\ \A u : Declared(u) => DeclaredThen(u)
    BY <1>1, <2>1, SymbolAdded
  <2>5. LiteralConstants /\ TypesAreTypes =>
          (status' = "running" <=> /\ stage = 1 => SoundSignature(units[i])
                                   /\ stage = 2 => SoundBody(units[i]))
    BY <1>2, <1>5, <2>2, <2>3
  <2> QED
    BY <1>1, <1>2, <2>2, <2>4, <2>5, PassUnit
<1>8. CASE stage_const
  <2>1. /\ units[i].kind = "const" /\ AddSymbol(0)
        /\ Outcome(IF ~units[i].full THEN "ok"
                   ELSE Worse(codegen_expr(units[i].ids, FALSE), codegen_type(units[i].types)))
    BY <1>8 DEF stage_const
  <2>2. codegen_expr(units[i].ids, FALSE) \in {"ok", "error", "crash"}
    BY DEF codegen_expr
  <2>3. status' \in {"running", "error", "crash"}
    BY <1>6, <2>1, <2>2 DEF Outcome, Worse
  <2>4. DeclaredThen(units[i]) /\ \A u : Declared(u) => DeclaredThen(u)
    BY <1>1, <2>1, SymbolAdded
  <2>5. CASE units[i].full
    <3>1. LiteralConstants => codegen_expr(units[i].ids, FALSE) = "ok"
      BY <1>2, <2>1, <2>5, LiteralIsSound DEF LiteralConstants
    <3>2. LiteralConstants => (status' = "running" <=> codegen_type(units[i].types) = "ok")
      BY <1>6, <2>1, <2>5, <3>1 DEF Outcome, Worse
    <3>3. SoundSignature(units[i]) <=> Sound(units[i].types, TRUE)
      BY <2>1, <2>5 DEF SoundSignature
    <3>4. LiteralConstants /\ TypesAreTypes =>
            (status' = "running" <=> /\ stage = 1 => SoundSignature(units[i])
                                     /\ stage = 2 => SoundBody(units[i]))
      BY <1>2, <1>5, <3>2, <3>3
    <3> QED
      BY <1>1, <1>2, <2>3, <2>4, <3>4, PassUnit
  <2>6. CASE ~units[i].full
    <3>1. status' = "running"
      BY <2>1, <2>6 DEF Outcome
    <3>2. SoundSignature(units[i])
      BY <2>1, <2>6 DEF SoundSignature
    <3> QED
      BY <1>1, <1>2, <2>4, <3>1, <3>2, PassUnit
  <2> QED
    BY <2>5, <2>6
<1>9. CASE stage_decl_other
  <2>1. units[i].kind \in {"type", "package"} /\ symbols' = symbols /\ status' = status
    BY <1>9 DEF stage_decl_other
  <2>2. SoundSignature(units[i])
    BY <2>1 DEF SoundSignature
  <2>3. \A u : Declared(u) => DeclaredThen(u)
    BY <2>1, KeptSymbols
  <2>4. units[i].kind # "package" => DeclaredThen(units[i])
    BY <1>2, <1>4, <2>1, <2>3
  <2> QED
    BY <1>1, <1>2, <2>1, <2>2, <2>3, <2>4, PassUnit
<1> QED
  BY <1>7, <1>8, <1>9

\* All names are declared when bodies are looked at.
LEMMA DefStep ==
  ASSUME Invariant, OrderInvariant, stage_body \/ stage_def_other
  PROVE  OrderInvariant'
<1>1. At(2) /\ i' = i + 1 /\ units' = units /\ stage' = stage /\ symbols' = symbols
  BY DEF stage_body, stage_def_other
<1>2. stage = 2 /\ stage # 1 /\ status = "running" /\ i \in DOMAIN units /\ units[i] \in Program
  BY <1>1, AtUnit
<1>3. \A u : Declared(u) => DeclaredThen(u)
  BY <1>1, KeptSymbols
<1>4. \A u \in Program : u.kind # "package" => Declared(u)
  BY <1>2 DEF OrderInvariant, Program
<1>5. CASE stage_body
  <2>1. Outcome(codegen_expr(units[i].ids, TRUE)) /\ units[i].kind = "func" /\ units[i].full
    BY <1>5 DEF stage_body
  <2>2. codegen_expr(units[i].ids, TRUE) \in {"ok", "error", "crash"}
    BY DEF codegen_expr
  <2>3. status' \in {"running", "error", "crash"}
        /\ (status' = "running" <=> codegen_expr(units[i].ids, TRUE) = "ok")
    BY <2>1, <2>2 DEF Outcome
  <2>4. SoundBody(units[i]) <=> Sound(units[i].ids, FALSE)
    BY <2>1 DEF SoundBody
  <2>5. LiteralConstants => (codegen_expr(units[i].ids, TRUE) = "ok" <=> Sound(units[i].ids, FALSE))
    BY <1>2, <1>4, BodyIsSound
  <2>6. LiteralConstants /\ TypesAreTypes =>
          (status' = "running" <=> /\ stage = 1 => SoundSignature(units[i])
                                   /\ stage = 2 => SoundBody(units[i]))
    BY <1>2, <2>3, <2>4, <2>5
  <2> QED
    BY <1>1, <1>2, <1>3, <2>3, <2>6, PassUnit
<1>6. CASE stage_def_other
  <2>1. status' = status /\ SoundBody(units[i])
    BY <1>6 DEF stage_def_other, SoundBody
  <2> QED
    BY <1>1, <1>2, <1>3, <2>1, PassUnit
<1> QED
  BY <1>5, <1>6

LEMMA PackageOrderStep ==
  ASSUME Invariant, OrderInvariant, codegen_package
  PROVE  OrderInvariant'
<1>1. /\ stage = -1 /\ status = "running" /\ stage' = 0 /\ i' = i /\ i = 1
      /\ units' = units /\ symbols' = symbols
      /\ IF Cardinality(Packages) > 1 THEN status' = "error" ELSE status' = status
  BY DEF codegen_package, OrderInvariant
<1>2. Len(units) \in Nat /\ DOMAIN units = 1..Len(units)
  BY UnitFacts DEF Invariant
<1>3. \A n \in DOMAIN units : ~(n < i')
  BY <1>1, <1>2
<1>4. /\ Cardinality(Packages)' = Cardinality(Packages)
      /\ LiteralConstants' = LiteralConstants /\ TypesAreTypes' = TypesAreTypes
      /\ Meaningful' = Meaningful
  BY <1>1, MeaningStays
<1>5. Cardinality(Packages) \in Nat
  <2>1. IsFiniteSet(1..Len(units)) /\ Packages \subseteq 1..Len(units)
    BY <1>2, FS_Interval DEF Packages
  <2> QED
    BY <2>1, FS_Subset, FS_CardinalityType
<1>6. status' \in {"running", "ok"} => Cardinality(Packages) <= 1
  BY <1>1, <1>5
<1>7. status' \notin {"running", "ok"} => ~Meaningful
  <2>1. Meaningful => Cardinality(Packages) <= 1
    BY DEF Meaningful
  <2> QED
    BY <1>1, <1>5, <2>1
<1> QED
  BY <1>1, <1>3, <1>4, <1>6, <1>7 DEF OrderInvariant

LEMMA StageOrderStep ==
  ASSUME Invariant, OrderInvariant, next_stage
  PROVE  OrderInvariant'
<1>1. /\ stage \in 0..2 /\ i > Len(units) /\ stage' = stage + 1 /\ i' = 1
      /\ status = "running" /\ status' \in {"running", "ok"}
      /\ units' = units /\ symbols' = symbols
  BY DEF next_stage
<1>2. Len(units) \in Nat /\ DOMAIN units = 1..Len(units) /\ i \in 1..(Len(units) + 1)
  BY UnitFacts DEF Invariant, UnitsInvariant
<1>3. \A n \in DOMAIN units : n < i /\ ~(n < i')
  BY <1>1, <1>2
<1>4. /\ Cardinality(Packages)' = Cardinality(Packages)
      /\ LiteralConstants' = LiteralConstants /\ TypesAreTypes' = TypesAreTypes
      /\ \A u : SoundSignature(u)' = SoundSignature(u) /\ SoundBody(u)' = SoundBody(u)
  BY <1>1, MeaningStays
<1>5. \A n \in DOMAIN units : Declared(units[n]) => Declared(units[n])'
  BY <1>1 DEF Declared
<1>6. \A n \in DOMAIN units :
        /\ units[n].kind = "type" /\ (stage' >= 1 \/ (stage' = 0 /\ n < i')) => Declared(units[n])
        /\ units[n].kind # "package" /\ (stage' >= 2 \/ (stage' = 1 /\ n < i')) => Declared(units[n])
  BY <1>1, <1>3 DEF OrderInvariant
<1>7. Cardinality(Packages) <= 1
  BY <1>1 DEF OrderInvariant
<1>8. ASSUME LiteralConstants, TypesAreTypes, NEW n \in DOMAIN units
      PROVE  /\ stage' >= 2 \/ (stage' = 1 /\ n < i') => SoundSignature(units[n])
             /\ stage' = 3 \/ (stage' = 2 /\ n < i') => SoundBody(units[n])
  <2>1. /\ stage >= 2 \/ (stage = 1 /\ n < i) => SoundSignature(units[n])
        /\ stage = 3 \/ (stage = 2 /\ n < i) => SoundBody(units[n])
    BY <1>1, <1>8 DEF OrderInvariant
  <2> QED
    BY <1>1, <1>3, <2>1
<1>9. ~(stage' = -1)
  BY <1>1
<1> QED
  BY <1>1, <1>4, <1>5, <1>6, <1>7, <1>8, <1>9 DEF OrderInvariant

LEMMA OrderKept == Spec => []OrderInvariant
<1>1. Invariant /\ OrderInvariant /\ [Next]_vars => OrderInvariant'
  <2> SUFFICES ASSUME Invariant, OrderInvariant, [Next]_vars
               PROVE  OrderInvariant'
    OBVIOUS
  <2>1. CASE codegen_package
    BY <2>1, PackageOrderStep
  <2>2. CASE stage_types
    BY <2>2, TypesStep
  <2>3. CASE stage_func \/ stage_const \/ stage_decl_other
    BY <2>3, DeclStep
  <2>4. CASE stage_body \/ stage_def_other
    BY <2>4, DefStep
  <2>5. CASE next_stage
    BY <2>5, StageOrderStep
  <2>6. CASE UNCHANGED vars
    <3>1. /\ Cardinality(Packages)' = Cardinality(Packages)
          /\ LiteralConstants' = LiteralConstants /\ TypesAreTypes' = TypesAreTypes
          /\ Meaningful' = Meaningful
          /\ \A u : SoundSignature(u)' = SoundSignature(u) /\ SoundBody(u)' = SoundBody(u)
      BY <2>6, MeaningStays DEF vars
    <3>2. \A u : Declared(u)' = Declared(u)
      BY <2>6 DEF vars, Declared
    <3> QED
      BY <2>6, <3>1, <3>2 DEF vars, OrderInvariant
  <2> QED
    BY <2>1, <2>2, <2>3, <2>4, <2>5, <2>6 DEF Next, Done
<1> QED
  BY <1>1, OrderInit, UnitsInvariantHolds, PTL DEF Spec

\* "declaration order independence" (README.md:4): a file whose constants with types
\* have literal values and whose signatures name no function or constant for a type
\* compiles exactly if it means something, which does not depend on the order of its
\* units: the types have their symbols before a signature is looked at, and all units
\* before a body is (codegen.c:587-610).
THEOREM OrderDoesNotMatter == Spec => [](LiteralConstants /\ TypesAreTypes => OrderIndependence)
<1>1. Invariant /\ OrderInvariant => (LiteralConstants /\ TypesAreTypes => OrderIndependence)
  <2> SUFFICES ASSUME Invariant, OrderInvariant, LiteralConstants, TypesAreTypes, status # "running"
               PROVE  status = "ok" <=> Meaningful
    BY DEF OrderIndependence
  <2>1. CASE status = "ok"
    <3>1. stage = 3
      BY <2>1 DEF Invariant, UnitsInvariant
    <3>2. Cardinality(Packages) <= 1
      BY <2>1, <3>1 DEF OrderInvariant
    <3>3. \A n \in DOMAIN units : SoundSignature(units[n]) /\ SoundBody(units[n])
      BY <2>1, <3>1 DEF OrderInvariant
    <3> QED
      BY <2>1, <3>2, <3>3, MeaningfulUnits
  <2>2. CASE status # "ok"
    <3>1. ~Meaningful
      BY <2>2 DEF OrderInvariant
    <3> QED
      BY <2>2, <3>1
  <2> QED
    BY <2>1, <2>2
<1> QED
  BY <1>1, UnitsInvariantHolds, OrderKept, PTL

=============================================================================
