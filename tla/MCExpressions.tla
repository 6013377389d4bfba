---------------------------- MODULE MCExpressions ----------------------------
(* A file with a name of every kind, and statements about them.              *)
EXTENDS TypingRules

MCScope ==
  [x |-> Var(Integer(32)), y |-> Var(Integer(8)), w |-> Var(Integer(64)), b |-> Var(Bool), r |-> Var(Float(32)),
   p |-> Var(PtrTo(Integer(32))), n |-> Var(Named("T")), T |-> TypeName(Integer(32)),
   m |-> Var(Named("U")), U |-> TypeName(Integer(32)),
   a |-> Var(Array(Integer(32), 2)), a8 |-> Var(Array(Integer(8), 2)), an |-> Var(Named("A")),
   A |-> TypeName(Array(Integer(32), 2)),
   s |-> Var(Slice(Integer(32))), ps |-> Var(PtrTo(Slice(Integer(32)))), sn |-> Var(Named("S")),
   S |-> TypeName(Slice(Integer(32))), pa |-> Var(PtrTo(Array(Integer(32), 2))),
   q |-> Var(PtrTo(Named("R"))), st |-> Var(Named("R")),
   R |-> TypeName(Record(<<[name |-> "m", type |-> Integer(8)], [name |-> "l", type |-> Slice(Integer(32))]>>)),
   c |-> Const(Number("1")), d |-> Const(Binary("+", Ident("c"), Number("2"))),
   f |-> Fun(Func(<<Integer(32), Bool>>, Integer(32))), g |-> Fun(Func(<<>>, Void)),
   fp |-> Var(PtrTo(Func(<<Integer(8)>>, Integer(8)))), h |-> Fun(Func(<<Named("T")>>, Named("R")))]

Names(set) == {Ident(name) : name \in set}
One == Number("1")
Two == Number("2")

Unaries(ops, es) == {Unary(op, e) : op \in ops, e \in es}
Binaries(ops, es, fs) == {Binary(op, e, f) : op \in ops, e \in es, f \in fs}
Conds(cs, es, fs) == {Cond(c, e, f) : c \in cs, e \in es, f \in fs}
Casts(ts, es) == {To("cast", t, <<e>>) : t \in ts, e \in es}

Decls(ts, es) == {<<Stmt("decl", t, e)>> : t \in ts, e \in es}
Infers(es) == {<<Stmt("infer", NoType, e)>> : e \in es}
Exprs(es) == {<<Stmt("expr", NoType, e)>> : e \in es}
Returns(ts, es) == {<<Stmt("return", t, e)>> : t \in ts, e \in es}
Conditions(es) == {<<Stmt(does, Bool, e)>> : does \in {"if", "for"}, e \in es}
Uses(ts, es) == Decls(ts, es) \cup Infers(es)

Wants == {Integer(8), Integer(32), Bool, Float(32)}
AllTypes == Wants \cup {PtrTo(Integer(32)), Named("T"), Array(Integer(32), 2), Slice(Integer(32))}
Atoms == Names(DOMAIN MCScope \cup {"true", "nowhere"}) \cup {One, Two, String}
Basic == Names({"x", "y", "b", "r", "p", "c"}) \cup {One, Two}

Calls == {Call("g", <<>>), Call("f", <<One, One>>), Call("f", <<Two, Ident("b")>>), Call("f", <<Ident("y"), Ident("b")>>),
          Call("f", <<Ident("x")>>), Call("f", <<One, One, One>>), Call("f", <<One, One, Ident("x")>>),
          Call("f", <<Ident("c"), Ident("c")>>), Call("f", <<Ident("d"), Binary("<", Ident("c"), Ident("x"))>>),
          Call("fp", <<Two>>), Call("fp", <<Ident("x")>>), Call("h", <<One>>), Call("h", <<Ident("x")>>),
          Call("h", <<Ident("n")>>), Call("x", <<One>>), Call("T", <<One>>), Call("c", <<>>), Call("nowhere", <<>>)}
Indexed == Binaries({"index"}, Names({"p", "a", "an", "s", "sn", "ps", "q", "st", "x"}) \cup {String, Call("h", <<Ident("n")>>)},
                    Names({"x", "w", "b", "p", "c"}) \cup {One})
Sliced == {SliceOf(e, es) : e \in Names({"a", "an", "pa", "s", "sn", "ps", "p", "x"}),
                            es \in {<<>>, <<One>>, <<Ident("x")>>, <<Ident("b")>>, <<Ident("p"), Ident("b")>>,
                                    <<One, Ident("w")>>, <<Ident("x"), Two>>}}
Members == {Member(e, name) : e \in Names({"st", "q", "x", "s"}) \cup
                                    {Unary("*", Ident("q")), Unary("&", Ident("q")), Call("h", <<Ident("n")>>)},
                              name \in {"m", "l", "none"}}
Builtins ==
  {To("new", Integer(32), es) : es \in {<<>>, <<One>>, <<Ident("x")>>, <<Ident("b")>>, <<Ident("p")>>}}
  \cup {To("make", t, <<e>>) : t \in {Slice(Integer(32)), Named("S"), PtrTo(Slice(Integer(32))), Integer(32)},
                               e \in Names({"x", "b", "p"}) \cup {One}}
  \cup Unaries({"free", "len", "dispose"}, Names({"p", "s", "sn", "ps", "x", "c"}) \cup
                                           {One, Member(Ident("q"), "l"), SliceOf(Ident("s"), <<One>>)})
  \cup Unaries({"sizeof"}, Names({"x", "st"}) \cup {One, Call("g", <<>>)}) \cup {To("sizeof", Named("R"), <<>>)}

Places == Names({"x", "y", "st", "s", "f", "c", "true"}) \cup
          {Unary("*", Ident("p")), Binary("index", Ident("s"), One), Member(Ident("q"), "m"), Call("f", <<One, One>>),
           Binary("+", Ident("x"), One), Unary("-x", Ident("x")), To("cast", Integer(8), <<Ident("x")>>), One}
Assigned == Unaries({"&", "incdec"}, Places) \cup
            Binaries({"=", "+=", "%="}, Places, Names({"x", "y", "c"}) \cup {One, Binary("+", One, Ident("y")), Member(Ident("st"), "m")})

Sums == Binaries({"+", "<"}, Names({"x", "y", "b"}) \cup {One}, {One, Ident("c"), Ident("x")})
Nested == Binaries(Operators, Sums, Names({"x", "b"}) \cup Unaries({"-x"}, {One, Ident("y")}) \cup {One})
Branches == Names({"x", "y", "a", "a8"}) \cup
            {One, Two, Call("g", <<>>), Binary("index", Ident("s"), One), Cond(Ident("b"), One, Ident("x"))}
Conditionals == Conds(Names({"b", "x"}) \cup {One, Two}, Branches, Branches) \cup
                Binaries({"+", "=="}, Conds({Ident("b")}, {One}, {Two, Ident("x")}), Names({"x", "y"}) \cup {One})
Commas == {Comma(<<e, f>>) : e \in Names({"x", "b", "c"}) \cup {One, Call("g", <<>>)}, f \in Names({"x", "y"}) \cup {One}}

\* Two statements, so that a constant has been used before.
Twice == {<<Stmt("decl", Integer(8), e), second[1]>> :
            e \in {Ident("c"), Ident("y")}, second \in Uses(Wants, Names({"c", "d", "x"}) \cup Sums)}

AllPrograms ==
  Uses(AllTypes, Atoms) \cup Returns(AllTypes, Atoms) \cup Exprs(Atoms)
  \cup Conditions(Atoms \cup Sums \cup Unaries({"!"}, Basic))
  \cup Uses(Wants, Unaries({"&", "*", "+x", "-x", "~", "!", "incdec"}, Atoms)) \cup Uses(Wants, Casts(AllTypes, Atoms))
  \cup Uses(Wants, Binaries(Operators, Basic, Basic)) \cup Uses(Wants, Nested)
  \cup Exprs(Assigned) \cup Uses({Integer(8), Integer(32), PtrTo(Integer(32))}, Assigned)
  \cup Uses(Wants, Calls \cup Members \cup Conditionals \cup Commas) \cup Exprs(Calls \cup Commas)
  \cup Uses({Integer(32), Slice(Integer(32)), Named("S")}, Indexed \cup Sliced)
  \cup Uses({Integer(8), Integer(64), Bool, PtrTo(Integer(8)), Slice(Integer(32)), PtrTo(Integer(32))}, Builtins) \cup Exprs(Builtins)
  \cup Twice
===============================================================================
