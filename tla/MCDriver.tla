------------------------------- MODULE MCDriver -------------------------------
(* Small projects and command lines.                                         *)
EXTENDS Driver, TLC

Low(stem) == <<stem, "low">>
UpTo2(S) == { <<>> } \cup { <<x>> : x \in S } \cup { <<x, y>> : x \in S, y \in S }
UpTo1(S) == { <<>> } \cup { <<x>> : x \in S }
MainLow == <<Low("main")>>
ALow == <<Low("a")>>
BLow == << <<"lib">>, Low("b")>>
CLow == << <<"lib">>, Low("c")>>
Gone == <<Low("gone")>>

FileArg(path) == [hyphens |-> 0, text |-> path]
Short(letters) == [hyphens |-> 1, text |-> letters]
Long(text) == [hyphens |-> 2, text |-> text]
Out == << <<"out">> >>

Source(package, defs, decls, calls) == [package |-> package, defs |-> defs, decls |-> decls, calls |-> calls]
Empty == Source(NoPackage, {}, {}, {})
MainSource == Source(NoPackage, {"main"}, {}, {})

\* Every way for four files in two directories to import each other
\* downwards; "gone" is not there.
FromTop == {MainLow, ALow, BLow, CLow, Gone}
FromLib == { <<Low("b")>>, <<Low("c")>> }
FourFiles == {MainLow, ALow, BLow, CLow}
Projects ==
  { [project |-> (MainLow :> m) @@ (ALow :> a) @@ (BLow :> b) @@ (CLow :> c),
     source |-> [f \in FourFiles |-> IF f = MainLow THEN MainSource ELSE Empty],
     args |-> <<FileArg(MainLow)>>] :
      m \in UpTo2(FromTop), a \in UpTo1(FromTop), b \in UpTo2(FromLib), c \in UpTo1(FromLib) }

\* Command lines of up to four arguments about two files of which one is there.
SomeArgs ==
  {FileArg(MainLow), FileArg(ALow), FileArg(Gone), Short(<<o>>), Short(<<o, o>>), Short(<<>>), Short(<< <<"x">> >>),
   Long(<<>>), Long(<< <<"v">> >>)}
CommandLines ==
  { [project |-> (MainLow :> <<>>) @@ (ALow :> <<>>),
     source |-> (MainLow :> MainSource) @@ (ALow :> Source(NoPackage, {"f"}, {}, {})),
     args |-> as] :
      as \in UNION { [1..n -> SomeArgs] : n \in 0..4 } }

\* Two files that call each other's functions, with and without packages,
\* importing each other or declaring what they need.
Beside == <<Low("b")>>
LinkOrders ==
  { <<FileArg(MainLow), FileArg(Beside), Short(<<o>>), FileArg(Out)>>,
    <<Short(<<o>>), FileArg(Out), FileArg(Beside), FileArg(MainLow)>>,
    <<FileArg(MainLow), FileArg(ALow), Short(<<o>>), OutName(MainLow), FileArg(Beside)>> }
Linkable ==
  { [project |-> (MainLow :> mi) @@ (Beside :> bi) @@ (ALow :> <<Beside>>),
     source |-> (MainLow :> Source(mp, md \cup {"main"}, {}, {"f"} \cup md)) @@ (Beside :> Source(bp, bd, bx, {"f"}))
                  @@ (ALow :> Source(NoPackage, {}, ax, {"f", "k"})),
     args |-> as] :
      mi \in { <<>>, <<Beside>> }, bi \in { <<>>, <<ALow>>, <<MainLow>> },
      mp \in {NoPackage, "p"}, md \in { {}, {"h"}, {"f"} }, bp \in {NoPackage, "q"}, bd \in { {"f"}, {"f", "h"} },
      bx \in { {}, {"k"} }, ax \in { {}, {"f"} }, as \in LinkOrders }

AllInvocations == Projects \cup CommandLines \cup Linkable
===============================================================================
