----------------------------- MODULE DriverProofs -----------------------------
(***************************************************************************)
(* What main.c promises.                                                   *)
(*                                                                         *)
(* resolve_imports, for every project and command line in which a file has *)
(* one spelling: a file is declared once, after what it imports, and no    *)
(* file that the program consists of is missed; only the input file comes  *)
(* twice when a cycle goes through it.  The invariant, until compile comes *)
(* to the code of the input file: what is handled is what is declared and  *)
(* what is on the stack, each of them once, every import statement that    *)
(* the loops have passed is handled, and nothing is handled that the input *)
(* file does not need.                                                     *)
(*                                                                         *)
(* parse_options, for every command line: main gets the files in their     *)
(* order.  The invariant: the files read so far are at the start of argv,  *)
(* and what has not been read is where it was.                             *)
(*                                                                         *)
(* main itself, for the same projects: success is reported for what has    *)
(* been compiled and linked, and a call in a linked program goes to the    *)
(* definition of its function.  The invariant follows each file into its   *)
(* module, the module to disk and into the linked one.                     *)
(***************************************************************************)
EXTENDS Driver, SequenceTheorems, FiniteSetTheorems, LeastNumbers, TLAPS

(***************************************************************************)
(* Projects and command lines without "..", "." and empty names.           *)
(***************************************************************************)
PlainPath(path) == \A k \in DOMAIN path : path[k] \notin {<<>>, Up, Here, Nothing}
PlainProject ==
  /\ \A f \in DOMAIN project : PlainPath(f) /\ \A k \in DOMAIN project[f] : PlainPath(project[f][k])
  /\ \A k \in DOMAIN args : PlainPath(args[k].text)

(***************************************************************************)
(* The invariant.                                                          *)
(***************************************************************************)
ProjectType ==
  /\ IsFiniteSet(DOMAIN project)
  /\ \A f \in DOMAIN project : f \in FileName /\ project[f] \in Seq(FileName)
  /\ args \in Seq(Argument)

\* The file of the import statement j of f, as its path is put together.
ImportPath(f, j) == SubSeq(f, 1, Len(f) - 1) \o project[f][j]

\* A file that is there, by its own name.
IsFile(path) == path \in DOMAIN project /\ Opens(project, path) = path

Frame == [relative_to : Seq(Name), i : Nat \ {0}]
Resolvers == 2..Len(frames)

ArgvInvariant ==
  /\ argv \in Seq(Argument)
  /\ \A k \in DOMAIN argv : PlainPath(argv[k].text)
  /\ phase = "options" => /\ Len(argv) = Len(args) /\ argi \in Nat /\ argo \in Nat
                          /\ 1 <= argo /\ argo <= argi /\ argi <= Len(args) + 1
                          /\ status = "start" /\ modules = <<>>
  /\ phase = "files" => inname \in Seq(Name) /\ PlainPath(inname)
  /\ \E S : modules \in Seq(S)

StackInvariant ==
  /\ status = "start" => Fresh
  /\ status = "resolving" => frames # <<>>
  /\ frames \in Seq(Frame)
  /\ frames # <<>> => frames[1].relative_to = inname
  /\ \A k \in DOMAIN frames : IsFile(frames[k].relative_to)
  /\ \A j, k \in Resolvers : frames[j].relative_to = frames[k].relative_to => j = k

DeclaredInvariant ==
  /\ declared \in Seq(FileName)
  /\ \A n \in DOMAIN declared : IsFile(declared[n])
  /\ \A m, n \in DOMAIN declared : declared[m] = declared[n] => m = n
  /\ \A k \in Resolvers : frames[k].relative_to \notin Paths(declared)

HandledInvariant ==
  /\ handled = Paths(declared) \cup { frames[k].relative_to : k \in Resolvers }
  /\ \A k \in DOMAIN frames : \A j \in DOMAIN project[frames[k].relative_to] :
       j < frames[k].i => ImportPath(frames[k].relative_to, j) \in handled
  /\ \A n \in DOMAIN declared : \A j \in DOMAIN project[declared[n]] :
       ImportPath(declared[n], j) \in handled

MainFile == Opens(project, inname)

\* Only what the main file imports, near or far, is ever handled.
NeededInvariant == handled \subseteq Needed(MainFile)

\* Before and after the last step of compile, which declares the main file.
Underway == StackInvariant /\ DeclaredInvariant /\ HandledInvariant /\ NeededInvariant
Finished == frames = <<>> /\ DeclaredOnce /\ NothingMissed
ImportsState == IF status = "compiled" THEN Finished ELSE Underway

Importing == ArgvInvariant /\ ImportsState
ImportsInvariant == ProjectType /\ (PlainProject => Importing)

\* What the steps of resolve_imports need, and keep.
Resolving == ArgvInvariant /\ StackInvariant /\ DeclaredInvariant /\ HandledInvariant

LEMMA ResolvingNow ==
  Importing /\ status # "compiled" => Resolving /\ NeededInvariant
BY DEF Importing, ImportsState, Underway, Resolving

-----------------------------------------------------------------------------
(* What a plain path opens.                                                *)

\* A walk along a plain path is at the names so far or nowhere.
LEMMA PlainWalk ==
  ASSUME NEW p, NEW path \in Seq(Name), PlainPath(path)
  PROVE  WalkTo(p, path) \in {NoFile, path}
<1> DEFINE l == Len(path)
           Further(k, at) ==
             IF at = NoFile THEN NoFile
             ELSE IF path[k] = Up
             THEN IF at = <<>> THEN NoFile ELSE SubSeq(at, 1, Len(at) - 1)
             ELSE IF path[k] \in {Here, Nothing} THEN at
             ELSE IF k < Len(path) /\ Append(at, path[k]) \notin Directories(p)
             THEN NoFile
             ELSE Append(at, path[k])
           Walk(g) == g = [k \in 0..Len(path) |-> IF k = 0 THEN <<>> ELSE Further(k, g[k - 1])]
           There(k) == \A j \in 1..k : j < l => SubSeq(path, 1, j) \in Directories(p)
           w == [k \in 0..l |-> IF There(k) THEN SubSeq(path, 1, k) ELSE NoFile]
<1>1. l \in Nat /\ DOMAIN path = 1..l
  BY LenProperties
<1>2. ASSUME NEW k \in 0..l PROVE SubSeq(path, 1, k) # NoFile
  <2>1. /\ Len(SubSeq(path, 1, k)) = k
        /\ k # 0 => SubSeq(path, 1, k)[1] = path[1]
    BY <1>1, SubSeqProperties
  <2>2. k # 0 => path[1] # <<>>
    BY <1>1 DEF PlainPath
  <2>3. Len(NoFile) = 1 /\ NoFile[1] = <<>>
    BY DEF NoFile
  <2> QED
    BY <2>1, <2>2, <2>3
<1>3. ASSUME NEW k \in 1..l PROVE Append(SubSeq(path, 1, k - 1), path[k]) = SubSeq(path, 1, k)
  <2>1. path[k] \in Name /\ SubSeq(path, 1, k - 1) \in Seq(Name)
    BY <1>1, SubSeqProperties, ElementOfSeq
  <2>2. SubSeq(path, 1, k) = SubSeq(path, 1, k - 1) \o <<path[k]>>
    BY <1>1, SubSeqRecursiveSecond
  <2> QED
    BY <2>1, <2>2, AppendIsConcat
<1>4. \A k \in 1..l : path[k] \notin {Up, Here, Nothing}
  BY <1>1 DEF PlainPath
<1>5. ASSUME NEW k \in 1..l
      PROVE  /\ Further(k, NoFile) = NoFile
             /\ Further(k, SubSeq(path, 1, k - 1)) =
                  IF k < l /\ SubSeq(path, 1, k) \notin Directories(p) THEN NoFile ELSE SubSeq(path, 1, k)
  <2>1. k - 1 \in 0..l
    BY <1>1
  <2> DEFINE at == SubSeq(path, 1, k - 1)
  <2>2. at # NoFile /\ Append(at, path[k]) = SubSeq(path, 1, k)
    BY <1>2, <1>3, <2>1
  <2> HIDE DEF at
  <2>3. Further(k, at) =
          IF k < l /\ SubSeq(path, 1, k) \notin Directories(p) THEN NoFile ELSE SubSeq(path, 1, k)
    BY <1>4, <2>2
  <2> QED
    BY <2>3 DEF at
<1> HIDE DEF Further
<1>6. Walk(w)
  <2> DEFINE G == [k \in 0..l |-> IF k = 0 THEN <<>> ELSE Further(k, w[k - 1])]
  <2>1. ASSUME NEW k \in 0..l PROVE w[k] = G[k]
    <3>1. CASE k = 0
      <4>1. There(0)
        OBVIOUS
      <4>2. SubSeq(path, 1, 0) = <<>>
        BY SubSeqEmpty
      <4> QED
        BY <1>1, <3>1, <4>1, <4>2
    <3>2. CASE k # 0
      <4>1. k \in 1..l /\ k - 1 \in 0..l
        BY <1>1, <3>2
      <4>2. There(k) <=> There(k - 1) /\ (k < l => SubSeq(path, 1, k) \in Directories(p))
        BY <4>1
      <4>3. G[k] = Further(k, w[k - 1])
        BY <3>2
      <4>4. w[k - 1] = IF There(k - 1) THEN SubSeq(path, 1, k - 1) ELSE NoFile
        BY <4>1
      <4>5. w[k] = IF There(k) THEN SubSeq(path, 1, k) ELSE NoFile
        OBVIOUS
      <4> HIDE DEF There, w, G
      <4>6. CASE There(k - 1)
        BY <1>5, <4>1, <4>2, <4>3, <4>4, <4>5, <4>6
      <4>7. CASE ~There(k - 1)
        BY <1>5, <4>1, <4>2, <4>3, <4>4, <4>5, <4>7
      <4> QED
        BY <4>6, <4>7
    <3> QED
      BY <3>1, <3>2
  <2> QED
    BY <2>1
<1>7. WalkTo(p, path) = (CHOOSE g : Walk(g))[l]
  BY Zenon DEF WalkTo, Further
<1>8. PICK g : Walk(g) /\ WalkTo(p, path) = g[l]
  <2>1. Walk(CHOOSE g : Walk(g))
    <3> HIDE DEF Walk
    <3> QED
      BY <1>6, Zenon
  <2> QED
    BY <1>7, <2>1, Zenon
<1> DEFINE Lost == { k \in 0..l : g[k] \notin {NoFile, SubSeq(path, 1, k)} }
<1>9. Lost = {}
  <2> SUFFICES ASSUME Lost # {} PROVE FALSE
    OBVIOUS
  <2>1. Lost \in SUBSET Nat
    BY <1>1
  <2>2. PICK k \in Lost : \A j \in Lost : k <= j
    <3> HIDE DEF Lost
    <3> QED
      BY <2>1, LeastNumber
  <2>3. k \in 0..l /\ g[k] \notin {NoFile, SubSeq(path, 1, k)}
    OBVIOUS
  <2>4. k # 0
    BY <1>1, <1>8, <2>3, SubSeqEmpty
  <2>5. k \in 1..l /\ k - 1 \in 0..l /\ ~(k <= k - 1)
    BY <1>1, <2>3, <2>4
  <2>6. g[k - 1] \in {NoFile, SubSeq(path, 1, k - 1)}
    BY <2>2, <2>5
  <2>7. g[k] = Further(k, g[k - 1])
    BY <1>8, <2>3, <2>4
  <2> QED
    BY <1>5, <2>3, <2>5, <2>6, <2>7
<1>10. l \in 0..l /\ SubSeq(path, 1, l) = path
  BY <1>1, SubSeqFull
<1> QED
  BY <1>8, <1>9, <1>10

\* A plain path opens the file of that name or none.
LEMMA PlainOpens ==
  ASSUME NEW path \in Seq(Name), PlainPath(path)
  PROVE  Opens(project, path) = NoFile \/ IsFile(path)
BY PlainWalk DEF Opens, IsFile

-----------------------------------------------------------------------------
(* The files a file depends on.                                            *)

Places == DOMAIN project \cup {NoFile}

LEMMA OpensPlaces == \A path : Opens(project, path) \in Places
BY DEF Opens, Places

LEMMA ImportsPlaces == \A f : ImportsOf(f) \subseteq Places
BY OpensPlaces DEF ImportsOf

LEMMA DependsUnfolds ==
  ASSUME NEW f, NEW g
  PROVE  g \in DependsOn(f) <=>
           /\ g \in Places
           /\ \A S \in SUBSET Places :
                f \in S /\ (\A h \in S \ {NoFile} : ImportsOf(h) \subseteq S) => g \in S
<1> DEFINE imports == [h \in DOMAIN project |-> ImportsOf(h)]
           closed == { S \in SUBSET Places : f \in S /\ \A h \in S \ {NoFile} : imports[h] \subseteq S }
<1>1. DependsOn(f) = { h \in Places : \A S \in closed : h \in S }
  BY Zenon DEF DependsOn, Places
<1>2. \A S \in SUBSET Places : \A h \in S \ {NoFile} : imports[h] = ImportsOf(h)
  BY DEF Places
<1> HIDE DEF imports
<1> QED
  BY <1>1, <1>2

\* None of this changes in a run.
LEMMA SameNeeds ==
  ASSUME UNCHANGED project
  PROVE  /\ \A f : ImportsOf(f)' = ImportsOf(f)
         /\ \A f : DependsOn(f)' = DependsOn(f)
         /\ \A f : Needed(f)' = Needed(f)
<1>1. \A f : ImportsOf(f)' = ImportsOf(f)
  BY DEF ImportsOf
<1>2. \A f : DependsOn(f)' = DependsOn(f)
  BY <1>1 DEF DependsOn
<1>3. \A f : Needed(f)' = Needed(f)
  BY <1>1, <1>2 DEF Needed
<1> QED
  BY <1>1, <1>2, <1>3

\* A file depends on itself and on what is imported by files it depends on.
LEMMA DependsClosed ==
  ASSUME NEW f \in Places
  PROVE  /\ f \in DependsOn(f) /\ DependsOn(f) \subseteq Places
         /\ \A g \in DependsOn(f) \ {NoFile} : ImportsOf(g) \subseteq DependsOn(f)
<1>1. f \in DependsOn(f) /\ DependsOn(f) \subseteq Places
  BY DependsUnfolds
<1>2. ASSUME NEW g \in DependsOn(f) \ {NoFile}, NEW h \in ImportsOf(g)
      PROVE  h \in DependsOn(f)
  <2>1. h \in Places
    BY ImportsPlaces
  <2>2. ASSUME NEW S \in SUBSET Places, f \in S, \A x \in S \ {NoFile} : ImportsOf(x) \subseteq S
        PROVE  h \in S
    <3>1. g \in S
      BY <2>2, DependsUnfolds
    <3> QED
      BY <2>2, <3>1
  <2> QED
    BY <2>1, <2>2, DependsUnfolds
<1> QED
  BY <1>1, <1>2

\* A file needs what it imports, and what files that it needs import.
LEMMA NeededClosed ==
  ASSUME NEW f
  PROVE  /\ ImportsOf(f) \subseteq Needed(f)
         /\ \A g \in Needed(f) \ {NoFile} : ImportsOf(g) \subseteq Needed(f)
<1>1. ASSUME NEW g \in ImportsOf(f)
      PROVE  g \in DependsOn(g) /\ \A h \in DependsOn(g) \ {NoFile} : ImportsOf(h) \subseteq DependsOn(g)
  <2>1. g \in Places
    BY ImportsPlaces
  <2> QED
    BY <2>1, DependsClosed
<1> QED
  BY <1>1 DEF Needed

\* Files that import only each other are all there is.
LEMMA DependsLeast ==
  ASSUME NEW f \in Places, NEW C, f \in C, \A g \in C \ {NoFile} : ImportsOf(g) \subseteq C
  PROVE  DependsOn(f) \subseteq C
<1> DEFINE S == C \cap Places
<1>1. S \in SUBSET Places /\ f \in S
  OBVIOUS
<1>2. \A h \in S \ {NoFile} : ImportsOf(h) \subseteq S
  BY ImportsPlaces
<1> HIDE DEF S
<1>3. DependsOn(f) \subseteq S
  BY <1>1, <1>2, DependsUnfolds
<1> QED
  BY <1>3 DEF S

-----------------------------------------------------------------------------
(* What follows from the invariant.                                        *)

LEMMA ImportsOfFile ==
  ASSUME NEW f
  PROVE  ImportsOf(f) = { Opens(project, ImportPath(f, k)) : k \in DOMAIN project[f] }
BY DEF ImportsOf, ImportPath

LEMMA OnceFromInvariant ==
  ASSUME Resolving
  PROVE  DeclaredOnce
BY DEF Resolving, DeclaredInvariant, IsFile, DeclaredOnce

LEMMA FirstFromInvariant ==
  ASSUME Resolving
  PROVE  ImportsFirst
<1> DEFINE n == Len(declared)
           f == Opens(project, declared[n])
           earlier == Files(SubSeq(declared, 1, n))
           waiting == { Opens(project, frames[k].relative_to) : k \in DOMAIN frames }
<1> SUFFICES ASSUME n \in DOMAIN declared PROVE ImportsOf(f) \subseteq earlier \cup waiting
  BY DEF ImportsFirst
<1>1. f = declared[n]
  BY DEF Resolving, DeclaredInvariant, IsFile
<1>2. earlier = Files(declared)
  BY SubSeqFull DEF Resolving, DeclaredInvariant
<1>3. Resolvers \subseteq DOMAIN frames
  BY LenProperties DEF Resolving, StackInvariant, Resolvers
<1>4. ASSUME NEW k \in DOMAIN project[f] PROVE Opens(project, ImportPath(f, k)) \in earlier \cup waiting
  <2>1. ImportPath(f, k) \in handled
    BY <1>1 DEF Resolving, HandledInvariant
  <2>2. CASE ImportPath(f, k) \in Paths(declared)
    BY <1>2, <2>2 DEF Files
  <2>3. CASE \E j \in Resolvers : ImportPath(f, k) = frames[j].relative_to
    BY <1>3, <2>3
  <2> QED
    BY <2>1, <2>2, <2>3 DEF Resolving, HandledInvariant
<1> QED
  BY <1>4, ImportsOfFile

-----------------------------------------------------------------------------
(* The call on top of the stack.                                           *)

LEMMA FileFacts ==
  ASSUME ProjectType, NEW f, IsFile(f)
  PROVE  /\ f \in Seq(Name) /\ f # <<>> /\ f \in DOMAIN project /\ project[f] \in Seq(FileName)
         /\ Len(project[f]) \in Nat /\ DOMAIN project[f] = 1..Len(project[f])
         /\ Opens(project, f) = f
<1>1. f \in DOMAIN project /\ Opens(project, f) = f
  BY DEF IsFile
<1>2. f \in FileName /\ project[f] \in Seq(FileName)
  BY <1>1 DEF ProjectType
<1> QED
  BY <1>1, <1>2, LenProperties DEF FileName

LEMMA StackFacts ==
  ASSUME Resolving
  PROVE  /\ Len(frames) \in Nat /\ DOMAIN frames = 1..Len(frames)
         /\ \A k \in DOMAIN frames : frames[k] \in Frame /\ IsFile(frames[k].relative_to)
         /\ Resolvers \subseteq DOMAIN frames
         /\ status = "resolving" => Len(frames) \in DOMAIN frames
<1>1. frames \in Seq(Frame)
  BY DEF Resolving, StackInvariant
<1>2. Len(frames) \in Nat /\ DOMAIN frames = 1..Len(frames) /\ \A k \in DOMAIN frames : frames[k] \in Frame
  BY <1>1, LenProperties
<1>3. status = "resolving" => Len(frames) # 0
  <2>1. status = "resolving" => frames # <<>>
    BY DEF Resolving, StackInvariant
  <2> QED
    BY <1>1, <2>1, EmptySeq
<1> QED
  BY <1>2, <1>3 DEF Resolving, StackInvariant, Resolvers

LEMMA TopFacts ==
  ASSUME ProjectType, Resolving, status = "resolving"
  PROVE  /\ Top \in Frame /\ Top.i \in Nat /\ Top.i # 0
         /\ IsFile(Top.relative_to) /\ Units = project[Top.relative_to]
         /\ Units \in Seq(FileName) /\ Len(Units) \in Nat /\ DOMAIN Units = 1..Len(Units)
<1>1. Top \in Frame /\ IsFile(Top.relative_to)
  BY StackFacts DEF Top
<1>2. Top.i \in Nat /\ Top.i # 0
  BY <1>1 DEF Frame
<1>3. Units = project[Top.relative_to]
  BY <1>1 DEF Units, IsFile
<1> QED
  BY <1>1, <1>2, <1>3, FileFacts

LEMMA FilenameFacts ==
  ASSUME ProjectType, PlainProject, Resolving, AtImport
  PROVE  /\ Filename = ImportPath(Top.relative_to, Top.i)
         /\ Filename \in Seq(Name) /\ PlainPath(Filename)
<1> DEFINE f == Top.relative_to
           d == SubSeq(f, 1, Len(f) - 1)
           m == project[f][Top.i]
<1>1. status = "resolving" /\ Top.i <= Len(Units)
  BY DEF AtImport
<1>2. /\ Top.i \in DOMAIN project[f] /\ Units = project[f] /\ IsFile(f)
      /\ project[f] \in Seq(FileName)
  BY <1>1, TopFacts
<1>3. f \in Seq(Name) /\ f \in DOMAIN project
  BY <1>2, FileFacts
<1>4. PlainPath(f) /\ PlainPath(m)
  BY <1>2, <1>3 DEF PlainProject
<1>5. m \in Seq(Name)
  BY <1>2, LenProperties DEF FileName
<1>6. Filename = d \o m
  BY <1>2 DEF Filename
<1> HIDE DEF f, m
<1>7. Len(f) \in Nat /\ DOMAIN f = 1..Len(f) /\ \A k \in 1..Len(f) : f[k] \in Name
  BY <1>3, LenProperties
<1>8. d \in Seq(Name) /\ Len(d) \in 0..Len(f) /\ \A k \in 1..Len(d) : d[k] = f[k]
  <2>1. d \in Seq(Name) /\ Len(d) = (IF 1 <= Len(f) - 1 THEN Len(f) - 1 ELSE 0)
        /\ \A k \in 1..(Len(f) - 1) : d[k] = f[k]
    BY <1>7, SubSeqProperties
  <2> HIDE DEF d
  <2>2. CASE 1 <= Len(f) - 1
    <3>1. Len(d) = Len(f) - 1
      BY <2>1, <2>2
    <3>2. \A k \in 1..Len(d) : d[k] = f[k]
      BY <2>1, <3>1
    <3>3. Len(d) \in 0..Len(f)
      BY <1>7, <3>1, <2>2
    <3> QED
      BY <2>1, <3>2, <3>3
  <2>3. CASE ~(1 <= Len(f) - 1)
    <3>1. Len(d) = 0
      BY <2>1, <2>3
    <3> QED
      BY <1>7, <2>1, <3>1
  <2> QED
    BY <2>2, <2>3
<1> HIDE DEF d
<1>9. Len(m) \in Nat /\ DOMAIN m = 1..Len(m)
  BY <1>5, LenProperties
<1>10. d \o m \in Seq(Name) /\ Len(d \o m) = Len(d) + Len(m)
       /\ \A k \in 1..(Len(d) + Len(m)) : (d \o m)[k] = IF k <= Len(d) THEN d[k] ELSE m[k - Len(d)]
  BY <1>5, <1>8, ConcatProperties
<1>11. DOMAIN (d \o m) = 1..(Len(d) + Len(m))
  BY <1>10, LenProperties
<1>12. ASSUME NEW k \in DOMAIN (d \o m) PROVE (d \o m)[k] \notin {<<>>, Up, Here, Nothing}
  <2>1. k \in 1..(Len(d) + Len(m))
    BY <1>11
  <2>2. CASE k <= Len(d)
    <3>1. k \in 1..Len(d) /\ k \in DOMAIN f /\ (d \o m)[k] = f[k]
      BY <1>7, <1>8, <1>10, <2>1, <2>2
    <3> QED
      BY <1>4, <3>1 DEF PlainPath
  <2>3. CASE ~(k <= Len(d))
    <3>1. k - Len(d) \in DOMAIN m
      BY <1>8, <1>9, <2>1, <2>3
    <3>2. (d \o m)[k] = m[k - Len(d)]
      BY <1>10, <2>1, <2>3
    <3> QED
      BY <1>4, <3>1, <3>2 DEF PlainPath
  <2> QED
    BY <2>2, <2>3
<1>13. PlainPath(d \o m)
  BY <1>12 DEF PlainPath
<1> QED
  BY <1>6, <1>10, <1>13 DEF ImportPath, d, m, f

LEMMA FrameStep ==
  ASSUME NEW fr \in Frame, NEW e, e = [fr EXCEPT !.i = @ + 1]
  PROVE  e \in Frame /\ e.relative_to = fr.relative_to /\ e.i = fr.i + 1
<1>1. fr.i \in Nat /\ fr.i # 0 /\ fr.relative_to \in Seq(Name)
  BY DEF Frame
<1>2. e = [relative_to |-> fr.relative_to, i |-> fr.i + 1]
  BY DEF Frame
<1> QED
  BY <1>1, <1>2 DEF Frame

LEMMA MainPlaces == MainFile \in Places
BY OpensPlaces DEF MainFile

LEMMA NoFileIsNone ==
  ASSUME PlainProject
  PROVE  NoFile \notin DOMAIN project
<1>1. 1 \in DOMAIN NoFile /\ NoFile[1] = <<>>
  BY DEF NoFile
<1> QED
  BY <1>1 DEF PlainProject, PlainPath

\* A set that has what is handled, what the main file imports and what files
\* of the set import has the file that is imported now.
LEMMA TopImports ==
  ASSUME ProjectType, PlainProject, Resolving, AtImport,
         NEW X, handled \subseteq X, MainFile # NoFile => ImportsOf(MainFile) \subseteq X,
         \A g \in X \ {NoFile} : ImportsOf(g) \subseteq X
  PROVE  Opens(project, Filename) \in X
<1> DEFINE l == Len(frames)
           f == Top.relative_to
<1>1. status = "resolving" /\ Top.i <= Len(Units)
  BY DEF AtImport
<1>2. l \in DOMAIN frames /\ DOMAIN frames = 1..l /\ f = frames[l].relative_to
  BY <1>1, StackFacts DEF Top
<1>3. IsFile(f) /\ Top.i \in Nat /\ Top.i # 0 /\ Units = project[f] /\ DOMAIN Units = 1..Len(Units) /\ Len(Units) \in Nat
  BY <1>1, TopFacts
<1>4. f # NoFile
  BY <1>3, NoFileIsNone DEF IsFile
<1>5. ImportsOf(f) \subseteq X
  <2>1. CASE l = 1
    <3>1. f = inname
      BY <1>2, <2>1, EmptySeq DEF Resolving, StackInvariant
    <3>2. f = MainFile
      BY <1>3, <3>1 DEF IsFile, MainFile
    <3> QED
      BY <1>4, <3>2
  <2>2. CASE l # 1
    <3>1. l \in Resolvers
      BY <1>2, <2>2 DEF Resolvers
    <3>2. f \in handled
      BY <1>2, <3>1 DEF Resolving, HandledInvariant
    <3> QED
      BY <1>4, <3>2
  <2> QED
    BY <2>1, <2>2
<1>6. Top.i \in DOMAIN project[f]
  BY <1>1, <1>3
<1>7. Filename = ImportPath(f, Top.i)
  BY FilenameFacts
<1> QED
  BY <1>5, <1>6, <1>7, ImportsOfFile

\* The loop in resolve_imports takes one step.
LEMMA AdvancedFacts ==
  ASSUME Resolving, status = "resolving"
  PROVE  /\ Advanced \in Seq(Frame) /\ Len(Advanced) = Len(frames) /\ DOMAIN Advanced = DOMAIN frames
         /\ \A k \in DOMAIN frames :
              /\ Advanced[k].relative_to = frames[k].relative_to
              /\ Advanced[k].i = IF k = Len(frames) THEN frames[k].i + 1 ELSE frames[k].i
<1> DEFINE l == Len(frames)
           e == [frames[l] EXCEPT !.i = @ + 1]
<1>1. l \in DOMAIN frames /\ DOMAIN frames = 1..l /\ frames[l] \in Frame /\ frames \in Seq(Frame)
  BY StackFacts DEF Resolving, StackInvariant
<1>3. e \in Frame /\ e.relative_to = frames[l].relative_to /\ e.i = frames[l].i + 1
  BY <1>1, FrameStep
<1>4. Advanced = [frames EXCEPT ![l] = e]
  BY DEF Advanced
<1> HIDE DEF e
<1>5. Advanced \in Seq(Frame) /\ Len(Advanced) = l
      /\ \A k \in 1..l : Advanced[k] = IF k = l THEN e ELSE frames[k]
  BY <1>1, <1>3, <1>4, ExceptSeq
<1>6. DOMAIN Advanced = 1..l
  BY <1>5, LenProperties
<1> QED
  BY <1>1, <1>3, <1>5, <1>6

-----------------------------------------------------------------------------
(* The steps of resolve_imports.                                           *)

LEMMA SameArgv ==
  ASSUME ArgvInvariant, phase = "files", UNCHANGED <<args, argv, phase, inname, modules>>
  PROVE  ArgvInvariant'
BY DEF ArgvInvariant

LEMMA CompileStep ==
  ASSUME ProjectType, PlainProject, Resolving, driver_compile
  PROVE  Resolving'
<1>1. phase = "files" /\ UNCHANGED <<project, args, argv, phase, inname, modules, handled, declared>>
      /\ compile
  BY DEF driver_compile, Step, compile, sourceVars, optionVars, linkVars, Stay
<1>2. ArgvInvariant'
  BY <1>1, SameArgv DEF Resolving
<1>3. frames = <<>> /\ handled = {} /\ declared = <<>>
  BY <1>1 DEF compile, Resolving, StackInvariant, Fresh
<1>4. CASE Opens(project, inname) = NoFile
  <2>1. frames' = <<>> /\ status' = "failed"
    BY <1>1, <1>3, <1>4 DEF compile
  <2>2. StackInvariant'
    BY <1>1, <1>3, <2>1 DEF StackInvariant, Resolving, IsFile, Resolvers
  <2>3. DeclaredInvariant'
    BY <1>1, <1>3, <2>1 DEF DeclaredInvariant, Resolving, IsFile, Resolvers, Paths
  <2>4. HandledInvariant'
    BY <1>1, <1>3, <2>1 DEF HandledInvariant, Resolving, IsFile, Resolvers, Paths, ImportPath
  <2> QED
    BY <1>2, <2>2, <2>3, <2>4 DEF Resolving
<1>5. CASE Opens(project, inname) # NoFile
  <2> DEFINE fr == [relative_to |-> inname, i |-> 1]
  <2>1. frames' = <<fr>> /\ status' = "resolving"
    BY <1>1, <1>5 DEF compile
  <2>2. inname \in Seq(Name) /\ PlainPath(inname)
    BY <1>1 DEF Resolving, ArgvInvariant
  <2>3. IsFile(inname)
    BY <1>5, <2>2, PlainOpens
  <2>4. fr \in Frame /\ fr.relative_to = inname /\ fr.i = 1
    BY <2>2 DEF Frame
  <2> HIDE DEF fr
  <2>5. frames' \in Seq(Frame) /\ Len(frames') = 1 /\ DOMAIN frames' = {1} /\ frames'[1] = fr /\ frames' # <<>>
    BY <2>1, <2>4
  <2>6. Resolvers' = {}
    BY <2>5 DEF Resolvers
  <2>7. StackInvariant'
    BY <1>1, <2>1, <2>3, <2>4, <2>5, <2>6 DEF StackInvariant, IsFile
  <2>8. DeclaredInvariant'
    BY <1>1, <1>3, <2>6 DEF DeclaredInvariant
  <2>9. HandledInvariant'
    <3>1. handled' = Paths(declared)' \cup { frames[k].relative_to : k \in Resolvers }'
      BY <1>1, <1>3, <2>6 DEF Paths
    <3>2. \A j \in DOMAIN project[inname] : ~(j < 1)
      BY <2>3, FileFacts
    <3>3. \A k \in DOMAIN frames' : k = 1
      BY <2>5
    <3> QED
      BY <1>1, <1>3, <2>1, <2>4, <2>5, <3>1, <3>2, <3>3 DEF HandledInvariant
  <2> QED
    BY <1>2, <2>7, <2>8, <2>9 DEF Resolving
<1> QED
  BY <1>4, <1>5

LEMMA SkipStep ==
  ASSUME ProjectType, PlainProject, Resolving, driver_skip
  PROVE  Resolving'
<1>1. /\ phase = "files" /\ UNCHANGED <<project, args, argv, phase, inname, modules, handled, declared, status>>
      /\ AtImport /\ Filename \in handled /\ frames' = Advanced /\ status = "resolving"
  BY DEF driver_skip, Step, skip_import, AtImport, sourceVars, optionVars, linkVars, Stay
<1>2. ArgvInvariant'
  BY <1>1, SameArgv DEF Resolving
<1>3. frames' \in Seq(Frame) /\ Len(frames') = Len(frames) /\ DOMAIN frames' = DOMAIN frames
  BY <1>1, AdvancedFacts
<1>4. \A k \in DOMAIN frames : frames'[k].relative_to = frames[k].relative_to
  BY <1>1, AdvancedFacts
<1>5. \A k \in DOMAIN frames : frames'[k].i = IF k = Len(frames) THEN frames[k].i + 1 ELSE frames[k].i
  BY <1>1, AdvancedFacts
<1>6. Len(frames) \in DOMAIN frames /\ DOMAIN frames = 1..Len(frames) /\ Len(frames) \in Nat
      /\ Resolvers \subseteq DOMAIN frames /\ \A k \in DOMAIN frames : frames[k] \in Frame
  BY <1>1, StackFacts
<1>7. Resolvers' = Resolvers
  BY <1>3 DEF Resolvers
<1>8. StackInvariant'
  <2>1. frames' # <<>>
    BY <1>3, <1>6
  <2>2. 1 \in DOMAIN frames /\ frames # <<>>
    BY <1>6
  <2> QED
    BY <1>1, <1>3, <1>4, <1>6, <1>7, <2>1, <2>2 DEF StackInvariant, Resolving, IsFile
<1>9. DeclaredInvariant'
  BY <1>1, <1>4, <1>6, <1>7 DEF DeclaredInvariant, Resolving, IsFile, Paths
<1>10. HandledInvariant'
  <2>1. { frames[k].relative_to : k \in Resolvers }' = { frames[k].relative_to : k \in Resolvers }
    BY <1>4, <1>6, <1>7
  <2>2. handled' = Paths(declared)' \cup { frames[k].relative_to : k \in Resolvers }'
    BY <1>1, <2>1 DEF Resolving, HandledInvariant, Paths
  <2>3. ASSUME NEW k \in DOMAIN frames, NEW j \in DOMAIN project[frames[k].relative_to],
               j < frames'[k].i
        PROVE  ImportPath(frames[k].relative_to, j) \in handled
    <3>1. CASE j < frames[k].i
      BY <3>1 DEF Resolving, HandledInvariant
    <3>2. CASE ~(j < frames[k].i)
      <4>1. j \in Nat /\ frames[k].i \in Nat
        <5>1. IsFile(frames[k].relative_to)
          BY StackFacts
        <5>2. j \in Nat
          BY <5>1, FileFacts
        <5> QED
          BY <1>6, <5>2 DEF Frame
      <4>2. k = Len(frames)
        BY <1>5, <2>3, <3>2
      <4>3. j = frames[k].i
        BY <1>5, <2>3, <3>2, <4>1, <4>2
      <4> QED
        BY <1>1, <4>2, <4>3, FilenameFacts DEF Top
    <3> QED
      BY <3>1, <3>2
  <2>4. \A n \in DOMAIN declared : \A j \in DOMAIN project[declared[n]] : ImportPath(declared[n], j) \in handled
    BY DEF Resolving, HandledInvariant
  <2> QED
    BY <1>1, <1>3, <1>4, <2>2, <2>3, <2>4, ZenonT(40) DEF HandledInvariant, ImportPath
<1> QED
  BY <1>2, <1>8, <1>9, <1>10 DEF Resolving

LEMMA ImportStep ==
  ASSUME ProjectType, PlainProject, Resolving, driver_import
  PROVE  Resolving'
<1> DEFINE l == Len(frames)
           fr == [relative_to |-> Filename, i |-> 1]
<1>1. /\ phase = "files" /\ UNCHANGED <<project, args, argv, phase, inname, modules, declared, status>>
      /\ AtImport /\ Filename \notin handled /\ Opens(project, Filename) # NoFile /\ status = "resolving"
      /\ handled' = handled \cup {Filename} /\ frames' = Append(Advanced, fr)
  BY DEF driver_import, Step, import, AtImport, sourceVars, optionVars, linkVars, Stay
<1>2. ArgvInvariant'
  BY <1>1, SameArgv DEF Resolving
<1>3. l \in DOMAIN frames /\ DOMAIN frames = 1..l /\ l \in Nat
      /\ Resolvers \subseteq DOMAIN frames /\ \A k \in DOMAIN frames : frames[k] \in Frame
  BY <1>1, StackFacts
<1>4. Filename = ImportPath(Top.relative_to, Top.i) /\ Filename \in Seq(Name) /\ PlainPath(Filename)
  BY <1>1, FilenameFacts
<1>5. IsFile(Filename)
  BY <1>1, <1>4, PlainOpens
<1>6. fr \in Frame /\ fr.relative_to = Filename /\ fr.i = 1
  BY <1>4 DEF Frame
<1> HIDE DEF fr
<1>7. Advanced \in Seq(Frame) /\ Len(Advanced) = l
  BY <1>1, AdvancedFacts
<1>8. frames' \in Seq(Frame) /\ Len(frames') = l + 1 /\ frames'[l + 1] = fr /\ frames' # <<>>
  BY <1>1, <1>6, <1>7, AppendProperties
<1>9. DOMAIN frames' = 1..(l + 1)
  BY <1>8, LenProperties
<1>10. \A k \in DOMAIN frames : frames'[k] = Advanced[k]
  BY <1>1, <1>3, <1>6, <1>7, AppendProperties
<1>11. \A k \in DOMAIN frames : frames'[k].relative_to = frames[k].relative_to
  BY <1>1, <1>10, AdvancedFacts
<1>12. \A k \in DOMAIN frames : frames'[k].i = IF k = l THEN frames[k].i + 1 ELSE frames[k].i
  BY <1>1, <1>10, AdvancedFacts
<1>13. frames'[l + 1].relative_to = Filename /\ frames'[l + 1].i = 1
  BY <1>6, <1>8
<1>14. /\ \A k \in DOMAIN frames' : k \in DOMAIN frames \/ k = l + 1
       /\ \A k \in Resolvers' : k \in Resolvers \/ k = l + 1
       /\ l + 1 \in Resolvers' /\ l + 1 \notin DOMAIN frames /\ Resolvers \subseteq Resolvers'
  BY <1>3, <1>8, <1>9 DEF Resolvers
<1> HIDE DEF l
<1>15. \A k \in Resolvers : frames[k].relative_to # Filename
  BY <1>1 DEF Resolving, HandledInvariant
<1>16. StackInvariant'
  <2>1. 1 \in DOMAIN frames /\ frames # <<>>
    BY <1>3 DEF l
  <2>2. frames'[1].relative_to = inname'
    BY <1>1, <1>11, <2>1 DEF Resolving, StackInvariant
  <2>3. ASSUME NEW k \in DOMAIN frames' PROVE IsFile(frames[k].relative_to)'
    <3>1. IsFile(frames'[k].relative_to)
      BY <1>5, <1>11, <1>13, <1>14, StackFacts
    <3> QED
      BY <1>1, <3>1 DEF IsFile
  <2>4. ASSUME NEW j \in Resolvers', NEW k \in Resolvers', frames'[j].relative_to = frames'[k].relative_to
        PROVE  j = k
    <3>1. \A m, n \in Resolvers : frames[m].relative_to = frames[n].relative_to => m = n
      BY DEF Resolving, StackInvariant
    <3> QED
      BY <1>3, <1>11, <1>13, <1>14, <1>15, <2>4, <3>1
  <2> QED
    BY <1>1, <1>8, <2>2, <2>3, <2>4 DEF StackInvariant
<1>17. DeclaredInvariant'
  <2>1. ASSUME NEW k \in Resolvers' PROVE frames'[k].relative_to \notin Paths(declared)
    <3>1. Filename \notin Paths(declared)
      BY <1>1 DEF Resolving, HandledInvariant
    <3> QED
      BY <1>3, <1>11, <1>13, <1>14, <3>1 DEF Resolving, DeclaredInvariant
  <2> QED
    BY <1>1, <2>1 DEF DeclaredInvariant, Resolving, IsFile, Paths
<1>18. HandledInvariant'
  <2>1. { frames[k].relative_to : k \in Resolvers }' = { frames[k].relative_to : k \in Resolvers } \cup {Filename}
    BY <1>3, <1>11, <1>13, <1>14
  <2>2. handled' = Paths(declared)' \cup { frames[k].relative_to : k \in Resolvers }'
    BY <1>1, <2>1 DEF Resolving, HandledInvariant, Paths
  <2>3. ASSUME NEW k \in DOMAIN frames', NEW j \in DOMAIN project[frames'[k].relative_to],
               j < frames'[k].i
        PROVE  ImportPath(frames'[k].relative_to, j) \in handled'
    <3>1. IsFile(frames'[k].relative_to)
      BY <1>5, <1>11, <1>13, <1>14, StackFacts
    <3>2. j \in Nat /\ j # 0
      BY <3>1, FileFacts
    <3>3. k # l + 1
      BY <1>13, <2>3, <3>2
    <3>4. k \in DOMAIN frames /\ frames[k].i \in Nat
      BY <1>3, <1>14, <3>3 DEF Frame
    <3>5. CASE j < frames[k].i
      BY <1>1, <1>11, <3>4, <3>5 DEF Resolving, HandledInvariant
    <3>6. CASE ~(j < frames[k].i)
      <4>1. k = l
        BY <1>12, <2>3, <3>4, <3>6
      <4>2. j = frames[k].i
        BY <1>12, <2>3, <3>2, <3>4, <3>6, <4>1
      <4>3. ImportPath(frames'[k].relative_to, j) = Filename
        BY <1>4, <1>11, <3>4, <4>1, <4>2 DEF Top, l
      <4> QED
        BY <1>1, <4>3
    <3> QED
      BY <3>5, <3>6
  <2>4. \A n \in DOMAIN declared : \A j \in DOMAIN project[declared[n]] : ImportPath(declared[n], j) \in handled'
    BY <1>1 DEF Resolving, HandledInvariant
  <2>5. UNCHANGED <<project, declared>> /\ status' # "compiled"
    BY <1>1
  <2>6. (\A k \in DOMAIN frames : \A j \in DOMAIN project[frames[k].relative_to] :
           j < frames[k].i => ImportPath(frames[k].relative_to, j) \in handled)'
    BY <2>3, <2>5 DEF ImportPath
  <2>7. (\A n \in DOMAIN declared : \A j \in DOMAIN project[declared[n]] :
           ImportPath(declared[n], j) \in handled)'
    BY <2>4, <2>5 DEF ImportPath
  <2> QED
    BY <2>2, <2>5, <2>6, <2>7 DEF HandledInvariant
<1> QED
  BY <1>2, <1>16, <1>17, <1>18 DEF Resolving

LEMMA MissingStep ==
  ASSUME ProjectType, PlainProject, Resolving, driver_missing
  PROVE  Resolving'
<1>1. /\ phase = "files" /\ UNCHANGED <<project, args, argv, phase, inname, modules, frames, handled, declared>>
      /\ status' = "abort"
  BY DEF driver_missing, Step, import_missing, sourceVars, optionVars, linkVars, Stay
<1>2. ArgvInvariant'
  BY <1>1, SameArgv DEF Resolving
<1>3. StackInvariant'
  BY <1>1 DEF Resolving, StackInvariant, IsFile, Resolvers
<1>4. DeclaredInvariant'
  BY <1>1 DEF Resolving, DeclaredInvariant, IsFile, Resolvers, Paths
<1>5. HandledInvariant'
  BY <1>1 DEF Resolving, HandledInvariant, Resolvers, Paths, ImportPath
<1> QED
  BY <1>2, <1>3, <1>4, <1>5 DEF Resolving

LEMMA DeclareStep ==
  ASSUME ProjectType, PlainProject, Resolving, driver_declare
  PROVE  Resolving'
<1> DEFINE l == Len(frames)
           n == Len(declared)
           f == Top.relative_to
<1>1. /\ phase = "files" /\ UNCHANGED <<project, args, argv, phase, inname, modules, handled, status>>
      /\ status = "resolving" /\ l > 1 /\ Top.i > Len(Units)
      /\ declared' = Append(declared, f) /\ frames' = SubSeq(frames, 1, l - 1)
  BY DEF driver_declare, Step, declare_import, Callers, sourceVars, optionVars, linkVars, Stay
<1>2. ArgvInvariant'
  BY <1>1, SameArgv DEF Resolving
<1>3. l \in DOMAIN frames /\ DOMAIN frames = 1..l /\ l \in Nat
      /\ Resolvers \subseteq DOMAIN frames /\ \A k \in DOMAIN frames : frames[k] \in Frame
  BY <1>1, StackFacts
<1>4. IsFile(f) /\ Top.i \in Nat /\ Units = project[f] /\ f = frames[l].relative_to
  BY <1>1, TopFacts DEF Top
<1>5. f \in FileName /\ Len(project[f]) \in Nat /\ DOMAIN project[f] = 1..Len(project[f])
  BY <1>4, FileFacts DEF FileName
<1>6. frames' \in Seq(Frame) /\ Len(frames') = l - 1 /\ DOMAIN frames' = 1..(l - 1)
      /\ \A k \in 1..(l - 1) : frames'[k] = frames[k]
  <2>1. \A k \in 1..(l - 1) : frames[k] \in Frame
    BY <1>3
  <2>2. frames' \in Seq(Frame)
    BY <1>1, <1>3, <2>1, SubSeqProperties
  <2>3. Len(frames') = l - 1
    BY <1>1, <1>3, <2>1, SubSeqProperties
  <2>4. \A k \in 1..(l - 1) : frames'[k] = frames[k]
    BY <1>1, <1>3, <2>1, SubSeqProperties
  <2> QED
    BY <2>2, <2>3, <2>4, LenProperties
<1>7. declared \in Seq(FileName) /\ n \in Nat /\ DOMAIN declared = 1..n
  BY LenProperties DEF Resolving, DeclaredInvariant
<1>8. declared' \in Seq(FileName) /\ Len(declared') = n + 1 /\ declared'[n + 1] = f
      /\ \A m \in DOMAIN declared : declared'[m] = declared[m]
  <2>1. declared' \in Seq(FileName) /\ Len(declared') = n + 1 /\ declared'[n + 1] = f
    BY <1>1, <1>5, <1>7, AppendProperties
  <2>2. \A m \in DOMAIN declared : declared'[m] = declared[m]
    BY <1>1, <1>5, <1>7, AppendProperties
  <2> QED
    BY <2>1, <2>2
<1>9. DOMAIN declared' = 1..(n + 1)
  BY <1>8, LenProperties
<1>10. /\ \A k \in DOMAIN frames' : k \in DOMAIN frames /\ k # l /\ frames'[k] = frames[k]
       /\ \A k \in Resolvers' : k \in Resolvers /\ k # l /\ frames'[k] = frames[k]
       /\ \A k \in Resolvers : k = l \/ k \in Resolvers'
       /\ l \in Resolvers
  <2>1. Resolvers = 2..l /\ Resolvers' = 2..(l - 1) /\ l > 1
    BY <1>1, <1>6 DEF Resolvers
  <2> HIDE DEF l
  <2>2. \A k \in DOMAIN frames' : k \in DOMAIN frames /\ k # l /\ frames'[k] = frames[k]
    BY <1>3, <1>6
  <2>3. \A k \in Resolvers' : k \in Resolvers /\ k \in DOMAIN frames'
    BY <1>3, <1>6, <2>1
  <2>4. \A k \in Resolvers : k = l \/ k \in Resolvers'
    BY <1>3, <2>1
  <2>5. l \in Resolvers
    BY <1>3, <2>1
  <2> QED
    BY <2>2, <2>3, <2>4, <2>5
<1>11. /\ \A m \in DOMAIN declared' : m \in DOMAIN declared \/ m = n + 1
       /\ n + 1 \in DOMAIN declared' /\ n + 1 \notin DOMAIN declared
       /\ DOMAIN declared \subseteq DOMAIN declared'
  BY <1>7, <1>9
<1>12. Paths(declared') = Paths(declared) \cup {f}
  BY <1>8, <1>11 DEF Paths
<1>13. 1 \in DOMAIN frames' /\ frames' # <<>> /\ frames'[1] = frames[1] /\ frames # <<>>
  <2>1. 1 \in DOMAIN frames' /\ 1 \in DOMAIN frames
    BY <1>1, <1>3, <1>6
  <2> QED
    BY <1>10, <2>1
<1> HIDE DEF l, n, f
<1>14. \A j, k \in Resolvers : frames[j].relative_to = frames[k].relative_to => j = k
  BY DEF Resolving, StackInvariant
<1>15. StackInvariant'
  <2>1. frames'[1].relative_to = inname'
    BY <1>1, <1>13 DEF Resolving, StackInvariant
  <2>2. ASSUME NEW k \in DOMAIN frames' PROVE IsFile(frames[k].relative_to)'
    BY <1>1, <1>10, StackFacts DEF IsFile
  <2>3. \A j, k \in Resolvers' : frames'[j].relative_to = frames'[k].relative_to => j = k
    BY <1>10, <1>14
  <2> QED
    BY <1>1, <1>6, <1>13, <2>1, <2>2, <2>3 DEF StackInvariant
<1>16. DeclaredInvariant'
  <2>1. ASSUME NEW m \in DOMAIN declared' PROVE IsFile(declared[m])'
    <3>1. IsFile(declared'[m])
      BY <1>4, <1>8, <1>11 DEF Resolving, DeclaredInvariant
    <3> QED
      BY <1>1, <3>1 DEF IsFile
  <2>2. f \notin Paths(declared)
    BY <1>4, <1>10 DEF Resolving, DeclaredInvariant
  <2>3. \A m \in DOMAIN declared : declared[m] # f
    BY <2>2 DEF Paths
  <2>4. \A k, m \in DOMAIN declared : declared[k] = declared[m] => k = m
    BY DEF Resolving, DeclaredInvariant
  <2>5. \A k, m \in DOMAIN declared' : declared'[k] = declared'[m] => k = m
    BY <1>8, <1>11, <2>3, <2>4
  <2>6. ASSUME NEW k \in Resolvers' PROVE frames'[k].relative_to \notin Paths(declared')
    <3>1. frames[k].relative_to \notin Paths(declared)
      BY <1>10 DEF Resolving, DeclaredInvariant
    <3>2. frames[k].relative_to # f
      BY <1>4, <1>10, <1>14
    <3> QED
      BY <1>10, <1>12, <3>1, <3>2
  <2>7. \A m \in DOMAIN declared' : IsFile(declared[m])'
    BY <2>1
  <2>8. (\A k \in Resolvers : frames[k].relative_to \notin Paths(declared))'
    BY <2>6
  <2> QED
    BY <1>8, <2>5, <2>7, <2>8 DEF DeclaredInvariant
<1>17. HandledInvariant'
  <2>1. { frames[k].relative_to : k \in Resolvers } = { frames[k].relative_to : k \in Resolvers }' \cup {f}
    BY <1>4, <1>10
  <2>2. handled' = Paths(declared)' \cup { frames[k].relative_to : k \in Resolvers }'
    BY <1>1, <1>12, <2>1 DEF Resolving, HandledInvariant
  <2>3. UNCHANGED <<project, handled>> /\ status' # "compiled"
    BY <1>1
  <2>4. \A k \in DOMAIN frames : \A j \in DOMAIN project[frames[k].relative_to] :
           j < frames[k].i => ImportPath(frames[k].relative_to, j) \in handled
    BY DEF Resolving, HandledInvariant
  <2>5. (\A k \in DOMAIN frames : \A j \in DOMAIN project[frames[k].relative_to] :
           j < frames[k].i => ImportPath(frames[k].relative_to, j) \in handled)'
    BY <1>10, <2>3, <2>4 DEF ImportPath
  <2>6. ASSUME NEW j \in DOMAIN project[f] PROVE ImportPath(f, j) \in handled
    <3>1. j < frames[l].i
      <4>1. j <= Len(project[f]) /\ Len(project[f]) < Top.i /\ j \in Nat
        BY <1>1, <1>4, <1>5
      <4> QED
        BY <1>4, <1>5, <4>1 DEF Top, l
    <3> QED
      BY <1>3, <1>4, <2>4, <3>1
  <2>7. ASSUME NEW m \in DOMAIN declared', NEW j \in DOMAIN project[declared'[m]]
        PROVE  ImportPath(declared'[m], j) \in handled
    <3>1. CASE m = n + 1
      BY <1>8, <2>6, <3>1
    <3>2. CASE m \in DOMAIN declared
      BY <1>8, <3>2 DEF Resolving, HandledInvariant
    <3> QED
      BY <1>11, <3>1, <3>2
  <2>8. (\A m \in DOMAIN declared : \A j \in DOMAIN project[declared[m]] :
           ImportPath(declared[m], j) \in handled)'
    BY <2>3, <2>7 DEF ImportPath
  <2> QED
    BY <2>2, <2>3, <2>5, <2>8 DEF HandledInvariant
<1> QED
  BY <1>2, <1>15, <1>16, <1>17 DEF Resolving

\* Nothing is handled that the main file does not need.
LEMMA NeededSame ==
  ASSUME UNCHANGED <<project, inname>>, handled' \subseteq Needed(MainFile)
  PROVE  NeededInvariant'
<1>1. MainFile' = MainFile /\ Needed(MainFile)' = Needed(MainFile)
  BY SameNeeds DEF MainFile
<1> QED
  BY <1>1 DEF NeededInvariant

LEMMA NeededStep ==
  ASSUME ProjectType, PlainProject, Resolving, NeededInvariant,
         driver_compile \/ driver_skip \/ driver_import \/ driver_missing \/ driver_declare
  PROVE  NeededInvariant'
<1>1. UNCHANGED <<project, inname>>
  BY DEF driver_compile, driver_skip, driver_import, driver_missing, driver_declare, Step,
     compile, skip_import, import, import_missing, declare_import
<1>2. handled \subseteq Needed(MainFile)
  BY DEF NeededInvariant
<1>3. CASE driver_compile \/ driver_skip \/ driver_missing \/ driver_declare
  <2>1. handled' = handled
    BY <1>3 DEF driver_compile, driver_skip, driver_missing, driver_declare, Step,
       compile, skip_import, import_missing, declare_import
  <2> QED
    BY <1>1, <1>2, <2>1, NeededSame
<1>4. CASE driver_import
  <2>1. handled' = handled \cup {Filename} /\ AtImport /\ Opens(project, Filename) # NoFile
    BY <1>4 DEF driver_import, Step, import
  <2>2. Opens(project, Filename) \in Needed(MainFile)
    BY <1>2, <2>1, NeededClosed, TopImports
  <2>3. Filename \in Needed(MainFile)
    BY <2>1, <2>2, FilenameFacts, PlainOpens DEF IsFile
  <2> QED
    BY <1>1, <1>2, <2>1, <2>3, NeededSame
<1> QED
  BY <1>3, <1>4

\* Only the frame of the main file is left: all that it imports is handled, and
\* what is handled is declared.
LEMMA LastFrame ==
  ASSUME ProjectType, Resolving, generate
  PROVE  /\ MainFile = inname /\ IsFile(inname) /\ handled = Paths(declared)
         /\ \A j \in DOMAIN project[inname] : ImportPath(inname, j) \in handled
<1>1. status = "resolving" /\ Len(frames) = 1 /\ Top.i > Len(Units)
  BY DEF generate
<1>2. Top = frames[1] /\ 1 \in DOMAIN frames /\ frames # <<>>
  <2>1. Top = frames[1] /\ 1 \in DOMAIN frames
    BY <1>1, StackFacts DEF Top
  <2>2. frames # <<>>
    BY <1>1 DEF Resolving, StackInvariant
  <2> QED
    BY <2>1, <2>2
<1>3. Top.relative_to = inname
  BY <1>2 DEF Resolving, StackInvariant
<1>4. IsFile(inname) /\ Top.i \in Nat /\ Units = project[inname]
  BY <1>1, <1>3, TopFacts
<1>5. Len(project[inname]) \in Nat /\ DOMAIN project[inname] = 1..Len(project[inname])
  BY <1>4, FileFacts
<1>6. handled = Paths(declared)
  <2>1. Resolvers = {}
    BY <1>1 DEF Resolvers
  <2> QED
    BY <2>1 DEF Resolving, HandledInvariant
<1>7. ASSUME NEW j \in DOMAIN project[inname] PROVE ImportPath(inname, j) \in handled
  <2>1. j < frames[1].i
    BY <1>1, <1>2, <1>4, <1>5
  <2> QED
    BY <1>2, <1>3, <2>1 DEF Resolving, HandledInvariant
<1> QED
  BY <1>4, <1>6, <1>7 DEF IsFile, MainFile

LEMMA AllDeclared ==
  ASSUME ProjectType, Resolving, generate
  PROVE  DependsOn(MainFile) \ {MainFile} \subseteq Files(declared)
<1> DEFINE C == {MainFile} \cup Files(declared)
<1>1. /\ MainFile = inname /\ handled = Paths(declared)
      /\ \A j \in DOMAIN project[inname] : ImportPath(inname, j) \in handled
  BY LastFrame
<1>2. \A path \in handled : Opens(project, path) \in Files(declared)
  BY <1>1 DEF Files
<1>3. ImportsOf(MainFile) \subseteq C
  BY <1>1, <1>2, ImportsOfFile
<1>4. ASSUME NEW g \in Files(declared) PROVE ImportsOf(g) \subseteq C
  <2>1. PICK n \in DOMAIN declared : g = Opens(project, declared[n])
    BY DEF Files, Paths
  <2>2. g = declared[n]
    BY <2>1 DEF Resolving, DeclaredInvariant, IsFile
  <2>3. \A j \in DOMAIN project[g] : ImportPath(g, j) \in handled
    BY <2>2 DEF Resolving, HandledInvariant
  <2> QED
    BY <1>2, <2>3, ImportsOfFile
<1>5. \A g \in C \ {NoFile} : ImportsOf(g) \subseteq C
  BY <1>3, <1>4
<1>6. MainFile \in C
  OBVIOUS
<1> HIDE DEF C
<1>7. DependsOn(MainFile) \subseteq C
  BY <1>5, <1>6, MainPlaces, DependsLeast
<1> QED
  BY <1>7 DEF C

\* codegen declares the main file, for the second time if it is an import of
\* its own imports.
LEMMA GenerateStep ==
  ASSUME ProjectType, PlainProject, Resolving, NeededInvariant, generate
  PROVE  ImportsState'
<1> DEFINE n == Len(declared)
<1>1. /\ UNCHANGED <<project, inname, handled>> /\ status' = "compiled" /\ frames' = <<>>
      /\ declared' = Append(declared, inname)
  BY DEF generate
<1>2. MainFile = inname /\ IsFile(inname) /\ handled = Paths(declared)
  BY LastFrame
<1>3. /\ MainFile' = MainFile /\ DependsOn(MainFile)' = DependsOn(MainFile)
      /\ Needed(MainFile)' = Needed(MainFile)
  BY <1>1, SameNeeds DEF MainFile
<1>4. declared \in Seq(FileName) /\ n \in Nat /\ DOMAIN declared = 1..n
  BY LenProperties DEF Resolving, DeclaredInvariant
<1>5. inname \in FileName
  BY <1>2 DEF IsFile, ProjectType
<1>6. /\ declared' \in Seq(FileName) /\ Len(declared') = n + 1 /\ declared'[n + 1] = inname
      /\ \A m \in 1..n : declared'[m] = declared[m]
  BY <1>1, <1>4, <1>5, AppendProperties
<1>7. DOMAIN declared' = 1..(n + 1)
  BY <1>6, LenProperties
<1> HIDE DEF n
<1>8. \A m \in 1..n : Opens(project, declared[m]) = declared[m] /\ declared[m] \in handled
  BY <1>2, <1>4 DEF Resolving, DeclaredInvariant, IsFile, Paths
<1>9. ASSUME NEW j \in DOMAIN declared', NEW k \in DOMAIN declared', j < k,
             Opens(project, declared'[j]) = Opens(project, declared'[k])
      PROVE  k = n + 1 /\ MainFile \in Needed(MainFile)
  <2>1. j \in 1..n /\ j # k /\ (k \in 1..n \/ k = n + 1)
    BY <1>4, <1>7, <1>9
  <2>2. k \notin 1..n
    <3> SUFFICES ASSUME k \in 1..n PROVE FALSE
      OBVIOUS
    <3>1. declared[j] = declared[k]
      BY <1>6, <1>8, <1>9, <2>1
    <3> QED
      BY <1>4, <2>1, <3>1 DEF Resolving, DeclaredInvariant
  <2>3. declared[j] = MainFile
    BY <1>2, <1>6, <1>8, <1>9, <2>1, <2>2 DEF MainFile
  <2>4. MainFile \in handled
    BY <1>8, <2>1, <2>3
  <2> QED
    BY <2>1, <2>2, <2>4 DEF NeededInvariant
<1>10. DeclaredOnce'
  BY <1>1, <1>3, <1>6, <1>9 DEF DeclaredOnce, MainFile
<1>11. NothingMissed'
  <2>1. Files(declared) \subseteq Files(declared)'
    <3>1. \A m \in DOMAIN declared : m \in DOMAIN declared' /\ declared'[m] = declared[m]
      BY <1>4, <1>6, <1>7
    <3> QED
      BY <1>1, <3>1 DEF Files, Paths
  <2> QED
    BY <1>1, <1>3, <2>1, AllDeclared DEF NothingMissed, MainFile
<1> QED
  BY <1>1, <1>10, <1>11 DEF ImportsState, Finished

-----------------------------------------------------------------------------
(* The steps of main around it.                                            *)

LEMMA SameImports ==
  ASSUME Importing, UNCHANGED importVars
  PROVE  ImportsState'
<1>1. UNCHANGED <<project, inname, frames, handled, declared, status>>
  BY DEF importVars
<1>2. CASE status = "compiled"
  <2>1. frames = <<>> /\ DeclaredOnce /\ NothingMissed
    BY <1>2 DEF Importing, ImportsState, Finished
  <2>2. MainFile' = MainFile /\ Needed(MainFile)' = Needed(MainFile) /\ DependsOn(MainFile)' = DependsOn(MainFile)
    BY <1>1, SameNeeds DEF MainFile
  <2>3. DeclaredOnce'
    BY <1>1, <2>1, <2>2 DEF DeclaredOnce, MainFile
  <2>4. NothingMissed'
    BY <1>1, <2>1, <2>2 DEF NothingMissed, MainFile, Files, Paths
  <2> QED
    BY <1>1, <1>2, <2>1, <2>3, <2>4 DEF ImportsState, Finished
<1>3. CASE status # "compiled"
  <2>1. StackInvariant /\ DeclaredInvariant /\ HandledInvariant /\ NeededInvariant
    BY <1>3 DEF Importing, ImportsState, Underway
  <2>2. StackInvariant'
    BY <1>1, <2>1 DEF StackInvariant, IsFile, Resolvers, Fresh
  <2>3. DeclaredInvariant'
    BY <1>1, <2>1 DEF DeclaredInvariant, IsFile, Resolvers, Paths
  <2>4. HandledInvariant'
    BY <1>1, <2>1 DEF HandledInvariant, IsFile, Resolvers, Paths, ImportPath
  <2>5. NeededInvariant'
    BY <1>1, <2>1, NeededSame DEF NeededInvariant
  <2> QED
    BY <1>1, <1>3, <2>2, <2>3, <2>4, <2>5 DEF ImportsState, Underway
<1> QED
  BY <1>2, <1>3

LEMMA FreshImports ==
  status = "start" /\ Fresh => ImportsState
<1> HAVE status = "start" /\ Fresh
<1>1. frames = <<>> /\ handled = {} /\ declared = <<>>
  BY DEF Fresh
<1>2. Resolvers = {}
  BY <1>1 DEF Resolvers
<1>3. StackInvariant
  BY <1>1, <1>2 DEF StackInvariant, Fresh
<1>4. DeclaredInvariant
  BY <1>1, <1>2 DEF DeclaredInvariant
<1>5. HandledInvariant
  BY <1>1, <1>2 DEF HandledInvariant, Paths
<1>6. NeededInvariant
  BY <1>1 DEF NeededInvariant
<1> QED
  BY <1>3, <1>4, <1>5, <1>6 DEF ImportsState, Underway

LEMMA ModulesGrow ==
  ASSUME \E S : modules \in Seq(S), NEW m, modules' = Append(modules, m)
  PROVE  \E S : modules' \in Seq(S)
<1>1. PICK S : modules \in Seq(S)
  OBVIOUS
<1> DEFINE T == S \cup {m}
<1>2. modules \in Seq(T) /\ m \in T
  BY <1>1, SeqMonotonic
<1> HIDE DEF T
<1>3. modules' \in Seq(T)
  BY <1>2, AppendProperties
<1> QED
  BY <1>3

LEMMA ArgumentFacts ==
  ASSUME ArgvInvariant
  PROVE  /\ Len(argv) \in Nat /\ DOMAIN argv = 1..Len(argv)
         /\ \A k \in DOMAIN argv : argv[k] \in Argument /\ argv[k].text \in Seq(Name) /\ PlainPath(argv[k].text)
<1>1. argv \in Seq(Argument) /\ \A k \in DOMAIN argv : PlainPath(argv[k].text)
  BY DEF ArgvInvariant
<1>2. Len(argv) \in Nat /\ DOMAIN argv = 1..Len(argv) /\ \A k \in DOMAIN argv : argv[k] \in Argument
  BY <1>1, LenProperties
<1> QED
  BY <1>1, <1>2 DEF Argument

LEMMA NextFileStep ==
  ASSUME Importing, NEW failed, phase = "files", NextFile(failed), UNCHANGED <<sourceVars, optionVars>>,
         \E S : modules' \in Seq(S)
  PROVE  Importing' /\ UNCHANGED <<project, args>>
<1>1. UNCHANGED <<args, argv>>
  BY DEF sourceVars, optionVars
<1>2. ArgvInvariant /\ ImportsState
  BY DEF Importing
<1>3. CASE Len(modules') < Len(argv)
  <2> DEFINE k == Len(modules') + 1
  <2>1. Take(k) /\ UNCHANGED project /\ Stay
    BY <1>3 DEF NextFile
  <2>2. k \in DOMAIN argv
    <3>1. Len(modules') \in Nat
      BY LenProperties
    <3> QED
      BY <1>2, <1>3, <3>1, ArgumentFacts
  <2>3. inname' = argv[k].text /\ status' = "start" /\ Fresh' /\ phase' = phase
    BY <2>1 DEF Take, Fresh, Stay
  <2>4. inname' \in Seq(Name) /\ PlainPath(inname')
    BY <1>2, <2>2, <2>3, ArgumentFacts
  <2> HIDE DEF k
  <2>5. ArgvInvariant'
    BY <1>1, <1>2, <2>3, <2>4 DEF ArgvInvariant
  <2>6. (status = "start" /\ Fresh => ImportsState)'
    BY FreshImports, PTL
  <2>7. ImportsState'
    BY <2>3, <2>6
  <2> QED
    BY <1>1, <2>1, <2>5, <2>7 DEF Importing
<1>4. CASE ~(Len(modules') < Len(argv))
  <2>1. UNCHANGED importVars /\ (phase' = "exit" \/ phase' = "link")
    BY <1>4 DEF NextFile, Exit
  <2>2. ImportsState'
    BY <2>1, SameImports
  <2>3. ArgvInvariant'
    BY <1>1, <1>2, <2>1 DEF ArgvInvariant
  <2>4. project' = project
    BY <2>1 DEF importVars
  <2> QED
    BY <1>1, <2>2, <2>3, <2>4 DEF Importing
<1> QED
  BY <1>3, <1>4

\* compile returns, for this file.
LEMMA CompiledStep ==
  ASSUME ProjectType, PlainProject, Importing, compiled \/ compile_error
  PROVE  Importing'
<1>1. /\ phase = "files" /\ generate /\ UNCHANGED <<args, argv>>
      /\ phase' \in {"files", "exit"}
  BY DEF compiled, compile_error, sourceVars, optionVars, Stay, Exit
<1>2. inname' = inname
  BY <1>1 DEF generate
<1>3. ImportsState'
  BY <1>1, ResolvingNow, GenerateStep DEF generate
<1>4. ArgvInvariant /\ \E S : modules \in Seq(S)
  BY DEF Importing, ArgvInvariant
<1>5. \E S : modules' \in Seq(S)
  <2>1. CASE compiled
    <3>1. modules' = Append(modules, ModuleOf)
      BY <2>1 DEF compiled
    <3> QED
      BY <1>4, <3>1, ModulesGrow
  <2>2. CASE compile_error
    BY <1>4, <2>2 DEF compile_error, linkVars
  <2> QED
    BY <2>1, <2>2
<1>6. ArgvInvariant'
  <2>1. inname \in Seq(Name) /\ PlainPath(inname)
    BY <1>1, <1>4 DEF ArgvInvariant
  <2>2. phase' # "options"
    BY <1>1
  <2>3. argv \in Seq(Argument) /\ \A k \in DOMAIN argv : PlainPath(argv[k].text)
    BY <1>4 DEF ArgvInvariant
  <2>4. argv' \in Seq(Argument) /\ (\A k \in DOMAIN argv : PlainPath(argv[k].text))'
        /\ inname' \in Seq(Name) /\ PlainPath(inname')
    BY <1>1, <1>2, <2>1, <2>3
  <2> QED
    BY <1>5, <2>2, <2>4 DEF ArgvInvariant
<1> QED
  BY <1>3, <1>6 DEF Importing

\* Back in main.
LEMMA FileStep ==
  ASSUME ProjectType, PlainProject, Importing, file_compiled \/ file_failed \/ file_abort
  PROVE  Importing'
<1>1. ArgvInvariant /\ \E S : modules \in Seq(S)
  BY DEF Importing, ArgvInvariant
<1>2. CASE file_compiled
  <2>1. phase = "files" /\ UNCHANGED <<sourceVars, optionVars, linkVars>> /\ NextFile(any_failed)
    BY <1>2 DEF file_compiled
  <2>2. \E S : modules' \in Seq(S)
    BY <1>1, <2>1 DEF linkVars
  <2> QED
    BY <2>1, <2>2, NextFileStep
<1>3. CASE file_failed
  <2>1. phase = "files" /\ UNCHANGED <<sourceVars, optionVars>> /\ modules' = Append(modules, NoModule)
        /\ (NextFile(TRUE) \/ (Exit("undefined") /\ UNCHANGED importVars))
    BY <1>3 DEF file_failed
  <2>2. \E S : modules' \in Seq(S)
    BY <1>1, <2>1, ModulesGrow
  <2>3. CASE NextFile(TRUE)
    BY <2>1, <2>2, <2>3, NextFileStep
  <2>4. CASE Exit("undefined") /\ UNCHANGED importVars
    <3>1. ImportsState'
      BY <2>4, SameImports
    <3>2. UNCHANGED <<args, argv>> /\ phase' = "exit"
      BY <2>1, <2>4 DEF sourceVars, optionVars, Exit
    <3>3. ArgvInvariant'
      BY <1>1, <2>2, <3>2 DEF ArgvInvariant
    <3> QED
      BY <3>1, <3>3 DEF Importing
  <2> QED
    BY <2>1, <2>3, <2>4
<1>4. CASE file_abort
  <2>1. UNCHANGED <<args, argv, modules>> /\ UNCHANGED importVars /\ phase' = "exit"
    BY <1>4 DEF file_abort, Exit, sourceVars, optionVars, linkVars
  <2>2. ImportsState'
    BY <2>1, SameImports
  <2>3. ArgvInvariant'
    BY <1>1, <2>1 DEF ArgvInvariant
  <2> QED
    BY <2>2, <2>3 DEF Importing
<1> QED
  BY <1>2, <1>3, <1>4

-----------------------------------------------------------------------------
(* parse_options.                                                          *)

LEMMA OptionFacts ==
  ASSUME ProjectType, Importing, phase = "options"
  PROVE  /\ argv \in Seq(Argument) /\ Len(argv) = Len(args) /\ Len(args) \in Nat
         /\ DOMAIN argv = 1..Len(args)
         /\ argi \in Nat /\ argo \in Nat /\ 1 <= argo /\ argo <= argi /\ argi <= Len(args) + 1
         /\ status = "start" /\ modules = <<>>
<1>1. ArgvInvariant
  BY DEF Importing
<1>2. args \in Seq(Argument)
  BY DEF ProjectType
<1> QED
  BY <1>1, <1>2, ArgumentFacts, LenProperties DEF ArgvInvariant

LEMMA PositionalStep ==
  ASSUME ProjectType, PlainProject, Importing, parse_positional
  PROVE  Importing'
<1>1. /\ phase = "options" /\ argi <= Len(args)
      /\ argv' = [argv EXCEPT ![argo] = argv[argi]] /\ argo' = argo + 1 /\ argi' = argi + 1
      /\ UNCHANGED importVars /\ UNCHANGED <<args, modules, phase>>
  BY DEF parse_positional, AtArg, Arg, Stay, sourceVars, linkVars
<1>2. ImportsState'
  BY <1>1, SameImports
<1> DEFINE l == Len(args)
<1>3. /\ argv \in Seq(Argument) /\ Len(argv) = l /\ l \in Nat /\ DOMAIN argv = 1..l
      /\ argi \in Nat /\ argo \in Nat /\ 1 <= argo /\ argo <= argi
      /\ status = "start" /\ modules = <<>>
  BY <1>1, OptionFacts
<1>4. argi \in 1..l /\ argo \in 1..l
  BY <1>1, <1>3
<1>5. \A k \in DOMAIN argv : argv[k] \in Argument /\ PlainPath(argv[k].text)
  BY ArgumentFacts DEF Importing
<1>6. argv' \in Seq(Argument) /\ Len(argv') = l
      /\ \A k \in 1..l : argv'[k] = IF k = argo THEN argv[argi] ELSE argv[k]
  BY <1>1, <1>3, <1>4, <1>5, ExceptSeq
<1>7. DOMAIN argv' = 1..l
  BY <1>6, LenProperties
<1>8. \A k \in DOMAIN argv' : PlainPath(argv'[k].text)
  BY <1>3, <1>4, <1>5, <1>6, <1>7
<1>9. status' = "start" /\ modules' = <<>> /\ phase' = "options" /\ Len(argv') = Len(args')
  BY <1>1, <1>3, <1>6 DEF importVars
<1>10. argi' \in Nat /\ argo' \in Nat /\ 1 <= argo' /\ argo' <= argi' /\ argi' <= l + 1
  BY <1>1, <1>3
<1>11. ArgvInvariant'
  <2>1. modules' \in Seq({})
    BY <1>9
  <2>2. (\A k \in DOMAIN argv : PlainPath(argv[k].text))'
    BY <1>8
  <2>3. argi' <= Len(args') + 1
    BY <1>1, <1>10
  <2> QED
    BY <1>6, <1>9, <1>10, <2>1, <2>2, <2>3 DEF ArgvInvariant
<1> QED
  BY <1>2, <1>11 DEF Importing

LEMMA ShortOptionStep ==
  ASSUME ProjectType, PlainProject, Importing, parse_short_option
  PROVE  Importing'
<1> DEFINE letters == Arg.text
           last == argi + Len(letters)
           fits == \A k \in DOMAIN letters : letters[k] = o /\ argi + k <= Len(args)
<1>1. /\ phase = "options" /\ argi <= Len(args)
      /\ UNCHANGED importVars /\ UNCHANGED <<args, modules, argv, argo>>
  BY DEF parse_short_option, AtArg, sourceVars, linkVars
<1>2. ImportsState'
  BY <1>1, SameImports
<1>3. (fits /\ argi' = last + 1 /\ phase' = phase) \/ (phase' = "exit" /\ argi' = argi)
  BY DEF parse_short_option, Stay, Exit
<1>4. /\ argv \in Seq(Argument) /\ Len(argv) = Len(args) /\ Len(args) \in Nat /\ DOMAIN argv = 1..Len(args)
      /\ argi \in Nat /\ argo \in Nat /\ 1 <= argo /\ argo <= argi
      /\ status = "start" /\ modules = <<>>
  BY <1>1, OptionFacts
<1>5. argi \in DOMAIN argv
  BY <1>1, <1>4
<1>6. letters \in Seq(Name)
  BY <1>5, ArgumentFacts DEF Importing, Arg
<1>7. Len(letters) \in Nat /\ DOMAIN letters = 1..Len(letters)
  BY <1>6, LenProperties
<1> HIDE DEF letters
<1>8. CASE phase' = "exit"
  <2>1. ArgvInvariant'
    BY <1>1, <1>8 DEF ArgvInvariant, Importing
  <2> QED
    BY <1>2, <2>1 DEF Importing
<1>9. CASE fits /\ argi' = last + 1 /\ phase' = phase
  <2>1. last <= Len(args)
    <3>1. CASE Len(letters) = 0
      BY <1>1, <1>4, <3>1
    <3>2. CASE Len(letters) # 0
      <4>1. Len(letters) \in DOMAIN letters
        BY <1>7, <3>2
      <4> QED
        BY <1>9, <4>1
    <3> QED
      BY <3>1, <3>2
  <2>2. argi' \in Nat /\ argo' \in Nat /\ 1 <= argo' /\ argo' <= argi' /\ argi' <= Len(args) + 1
    BY <1>1, <1>4, <1>7, <1>9, <2>1
  <2>3. status' = "start" /\ phase' = "options"
    BY <1>1, <1>4, <1>9 DEF importVars
  <2>4. ArgvInvariant'
    BY <1>1, <1>4, <2>2, <2>3 DEF ArgvInvariant, Importing
  <2> QED
    BY <1>2, <2>4 DEF Importing
<1> QED
  BY <1>3, <1>8, <1>9

LEMMA LongOptionStep ==
  ASSUME ProjectType, PlainProject, Importing, parse_long_option
  PROVE  Importing'
<1>1. UNCHANGED importVars /\ UNCHANGED <<args, modules, argv>> /\ phase' = "exit"
  BY DEF parse_long_option, Exit, sourceVars, linkVars, optionVars
<1>2. ImportsState'
  BY <1>1, SameImports
<1>3. ArgvInvariant'
  BY <1>1 DEF ArgvInvariant, Importing
<1> QED
  BY <1>2, <1>3 DEF Importing

LEMMA EndOfOptionsStep ==
  ASSUME ProjectType, PlainProject, Importing, parse_end
  PROVE  Importing'
<1> DEFINE l == Len(args)
           rest == l - argi
<1>1. /\ phase = "options" /\ argi <= l /\ argo' = argo + rest /\ argi' = l + 1
      /\ argv' = [k \in DOMAIN argv |-> IF k \in argo..(argo + rest - 1) THEN argv[argi + 1 + k - argo] ELSE argv[k]]
      /\ UNCHANGED importVars /\ UNCHANGED <<args, modules, phase>>
  BY DEF parse_end, AtArg, Stay, sourceVars, linkVars
<1>2. ImportsState'
  BY <1>1, SameImports
<1>3. /\ argv \in Seq(Argument) /\ Len(argv) = l /\ l \in Nat /\ DOMAIN argv = 1..l
      /\ argi \in Nat /\ argo \in Nat /\ 1 <= argo /\ argo <= argi
      /\ status = "start" /\ modules = <<>>
  BY <1>1, OptionFacts
<1> HIDE DEF l
<1>4. \A k \in DOMAIN argv : argv[k] \in Argument /\ PlainPath(argv[k].text)
  BY ArgumentFacts DEF Importing
<1>5. DOMAIN argv' = 1..l
  BY <1>1, <1>3
<1>6. ASSUME NEW k \in 1..l PROVE \E j \in 1..l : argv'[k] = argv[j]
  <2>1. CASE k \in argo..(argo + rest - 1)
    <3>1. argi + 1 + k - argo \in 1..l
      BY <1>1, <1>3, <2>1
    <3>2. argv'[k] = argv[argi + 1 + k - argo]
      BY <1>1, <1>3, <2>1
    <3> QED
      BY <3>1, <3>2
  <2>2. CASE k \notin argo..(argo + rest - 1)
    <3>1. argv'[k] = argv[k]
      BY <1>1, <1>3, <2>2
    <3> QED
      BY <3>1
  <2> QED
    BY <2>1, <2>2
<1>7. \A k \in 1..l : argv'[k] \in Argument /\ PlainPath(argv'[k].text)
  BY <1>3, <1>4, <1>6
<1>8. argv' \in Seq(Argument)
  <2>1. argv' = [k \in 1..l |-> argv'[k]]
    BY <1>1, <1>3
  <2>2. argv' \in [1..l -> Argument]
    BY <1>7, <2>1
  <2> QED
    BY <1>3, <2>2, SeqDef
<1>9. Len(argv') = l
  BY <1>3, <1>5, <1>8, LenProperties
<1>10. argi' \in Nat /\ argo' \in Nat /\ 1 <= argo' /\ argo' <= argi' /\ argi' <= l + 1
  BY <1>1, <1>3
<1>11. status' = "start" /\ modules' = <<>> /\ phase' = "options" /\ l = Len(args')
  BY <1>1, <1>3 DEF importVars, l
<1>12. ArgvInvariant'
  <2>1. modules' \in Seq({})
    BY <1>11
  <2>2. (\A k \in DOMAIN argv : PlainPath(argv[k].text))'
    BY <1>5, <1>7
  <2>3. argi' <= Len(args') + 1 /\ Len(argv') = Len(args')
    BY <1>9, <1>10, <1>11
  <2> QED
    BY <1>8, <1>10, <1>11, <2>1, <2>2, <2>3 DEF ArgvInvariant
<1> QED
  BY <1>2, <1>12 DEF Importing

LEMMA OptionsParsedStep ==
  ASSUME ProjectType, PlainProject, Importing, options_parsed
  PROVE  Importing'
<1> DEFINE l == Len(args)
<1>1. /\ phase = "options" /\ argv' = SubSeq(argv, 1, argo - 1) /\ UNCHANGED <<args, modules>>
      /\ \/ phase' = "exit" /\ UNCHANGED importVars
         \/ argo # 1 /\ phase' = "files" /\ inname' = argv[1].text
            /\ UNCHANGED <<project, frames, handled, declared, status>>
  BY DEF options_parsed, Exit, sourceVars, linkVars
<1>2. /\ argv \in Seq(Argument) /\ Len(argv) = l /\ l \in Nat /\ DOMAIN argv = 1..l
      /\ argi \in Nat /\ argo \in Nat /\ 1 <= argo /\ argo <= argi /\ argi <= l + 1
      /\ status = "start" /\ modules = <<>>
  BY <1>1, OptionFacts
<1> HIDE DEF l
<1>3. \A k \in DOMAIN argv : argv[k] \in Argument /\ argv[k].text \in Seq(Name) /\ PlainPath(argv[k].text)
  BY ArgumentFacts DEF Importing
<1>4. argv' \in Seq(Argument) /\ (\A k \in DOMAIN argv : PlainPath(argv[k].text))'
  <2>1. argo - 1 \in 0..l /\ argo - 1 \in Nat
    BY <1>2
  <2> DEFINE n == argo - 1
  <2> HIDE DEF n
  <2>2. n \in 0..l /\ n \in Nat /\ argv' = SubSeq(argv, 1, n)
    BY <1>1, <2>1 DEF n
  <2>3. \A k \in 1..n : k \in DOMAIN argv /\ argv[k] \in Argument
    BY <1>2, <1>3, <2>2
  <2>4. argv' \in Seq(Argument) /\ Len(argv') = (IF 1 <= n THEN n ELSE 0)
    BY <2>2, <2>3, SubSeqProperties
  <2>5. \A k \in 1..n : argv'[k] = argv[k]
    BY <2>2, <2>3, SubSeqProperties
  <2>6. Len(argv') = n
    BY <2>2, <2>4
  <2>7. DOMAIN argv' = 1..n
    BY <2>4, <2>6, LenProperties
  <2> QED
    BY <1>3, <2>3, <2>4, <2>5, <2>7
<1>5. modules' \in Seq({})
  BY <1>1, <1>2
<1>6. CASE phase' = "exit" /\ UNCHANGED importVars
  <2>1. ArgvInvariant'
    BY <1>4, <1>5, <1>6 DEF ArgvInvariant
  <2> QED
    BY <1>6, <2>1, SameImports DEF Importing
<1>7. CASE argo # 1 /\ phase' = "files" /\ inname' = argv[1].text
           /\ UNCHANGED <<project, frames, handled, declared, status>>
  <2>1. 1 \in DOMAIN argv
    BY <1>2, <1>7
  <2>2. inname' \in Seq(Name) /\ PlainPath(inname')
    BY <1>3, <1>7, <2>1
  <2>3. ArgvInvariant'
    BY <1>4, <1>5, <1>7, <2>2 DEF ArgvInvariant
  <2>4. status' = "start" /\ Fresh'
    BY <1>2, <1>7 DEF Importing, ImportsState, Underway, StackInvariant, Fresh
  <2>5. (status = "start" /\ Fresh => ImportsState)'
    BY FreshImports, PTL
  <2> QED
    BY <2>3, <2>4, <2>5 DEF Importing
<1> QED
  BY <1>1, <1>6, <1>7

-----------------------------------------------------------------------------
(* Linking, and all steps together.                                        *)

LEMMA LinkStep ==
  ASSUME ProjectType, PlainProject, Importing, link \/ linked \/ not_linked \/ UNCHANGED vars
  PROVE  Importing'
<1>1. ArgvInvariant
  BY DEF Importing
<1>2. UNCHANGED importVars
  BY DEF link, linked, not_linked, vars
<1>3. ImportsState'
  BY <1>2, SameImports
<1>4. CASE UNCHANGED vars
  <2>1. UNCHANGED <<args, argv, argi, argo, phase, inname, status, modules>>
    BY <1>4 DEF vars, importVars, sourceVars, optionVars, linkVars
  <2>2. ArgvInvariant'
    BY <1>1, <2>1 DEF ArgvInvariant
  <2> QED
    BY <1>3, <2>2 DEF Importing
<1>5. CASE linked \/ not_linked
  <2>1. UNCHANGED <<argv, modules>> /\ phase' = "exit"
    BY <1>5 DEF linked, not_linked, Exit, optionVars, linkVars
  <2>2. ArgvInvariant'
    BY <1>1, <2>1 DEF ArgvInvariant
  <2> QED
    BY <1>3, <2>2 DEF Importing
<1>6. CASE link
  <2> DEFINE r == SubSeq(modules, 3, Len(modules))
             h == <<Linked(modules[1], modules[2])>>
  <2>1. argv' = argv /\ (phase' = "exit" \/ phase' = "link") /\ (modules' = modules \/ modules' = h \o r)
    BY <1>6 DEF link, Exit, Stay, optionVars
  <2>2. PICK S : modules \in Seq(S)
    BY <1>1 DEF ArgvInvariant
  <2>3. Len(modules) \in Nat /\ \A k \in 3..Len(modules) : modules[k] \in S
    BY <2>2, LenProperties
  <2>4. r \in Seq(S)
    BY <2>3, SubSeqProperties
  <2> DEFINE T == S \cup {Linked(modules[1], modules[2])}
  <2>5. h \in Seq(T) /\ r \in Seq(T)
    BY <2>4, SeqMonotonic
  <2> HIDE DEF h, r, T
  <2>6. h \o r \in Seq(T)
    BY <2>5, ConcatProperties
  <2>7. \E U : modules' \in Seq(U)
    BY <2>1, <2>2, <2>6
  <2>8. ArgvInvariant'
    BY <1>1, <2>1, <2>7 DEF ArgvInvariant
  <2> QED
    BY <1>3, <2>8 DEF Importing
<1> QED
  BY <1>4, <1>5, <1>6

\* What is on disk and on the command line stays.
LEMMA InputsStay ==
  ASSUME [Next]_vars
  PROVE  UNCHANGED <<project, args>>
<1>1. CASE file_compiled \/ file_failed
  <2>1. (NextFile(any_failed) \/ NextFile(TRUE) \/ UNCHANGED importVars) /\ UNCHANGED args
    BY <1>1 DEF file_compiled, file_failed, sourceVars
  <2> QED
    BY <2>1 DEF NextFile, Take, importVars
<1>2. CASE UNCHANGED vars
  BY <1>2 DEF vars, importVars, sourceVars
<1>3. CASE \/ parse_positional \/ parse_short_option \/ parse_long_option \/ parse_end \/ options_parsed
           \/ file_abort \/ link \/ linked \/ not_linked \/ Ended
  BY <1>3 DEF parse_positional, parse_short_option, parse_long_option, parse_end, options_parsed,
       file_abort, link, linked, not_linked, Ended, vars, importVars, sourceVars
<1>4. CASE driver_compile \/ driver_skip \/ driver_import \/ driver_missing \/ driver_declare
  BY <1>4 DEF driver_compile, driver_skip, driver_import, driver_missing, driver_declare, Step,
       compile, skip_import, import, import_missing, declare_import, sourceVars
<1>5. CASE compiled \/ compile_error
  BY <1>5 DEF compiled, compile_error, generate, sourceVars
<1> QED
  BY <1>1, <1>2, <1>3, <1>4, <1>5 DEF Next

LEMMA NextImports ==
  ASSUME ImportsInvariant, [Next]_vars
  PROVE  ImportsInvariant'
<1>1. UNCHANGED <<project, args>>
  BY InputsStay
<1>2. ProjectType'
  BY <1>1 DEF ImportsInvariant, ProjectType
<1>3. PlainProject' => PlainProject
  BY <1>1 DEF PlainProject
<1>4. ASSUME PlainProject PROVE Importing'
  <2>1. ProjectType /\ PlainProject /\ Importing
    BY <1>4 DEF ImportsInvariant
  <2>2. CASE parse_positional \/ parse_short_option \/ parse_long_option \/ parse_end \/ options_parsed
    BY <2>1, <2>2, PositionalStep, ShortOptionStep, LongOptionStep, EndOfOptionsStep, OptionsParsedStep
  <2>3. CASE driver_compile \/ driver_skip \/ driver_import \/ driver_missing \/ driver_declare
    <3>1. status \in {"start", "resolving"} /\ status' # "compiled"
      BY <2>3 DEF driver_compile, driver_skip, driver_import, driver_missing, driver_declare, Step,
         compile, skip_import, import, import_missing, declare_import, AtImport
    <3>2. Resolving /\ NeededInvariant
      BY <2>1, <3>1, ResolvingNow
    <3>3. Resolving'
      BY <2>1, <2>3, <3>2, CompileStep, SkipStep, ImportStep, MissingStep, DeclareStep
    <3>4. NeededInvariant'
      BY <2>1, <2>3, <3>2, NeededStep
    <3> QED
      BY <3>1, <3>3, <3>4 DEF Resolving, Importing, ImportsState, Underway
  <2>4. CASE compiled \/ compile_error
    BY <2>1, <2>4, CompiledStep
  <2>5. CASE file_compiled \/ file_failed \/ file_abort
    BY <2>1, <2>5, FileStep
  <2>6. CASE link \/ linked \/ not_linked \/ Ended \/ UNCHANGED vars
    BY <2>1, <2>6, LinkStep DEF Ended
  <2> QED
    BY <2>2, <2>3, <2>4, <2>5, <2>6 DEF Next
<1> QED
  BY <1>2, <1>3, <1>4 DEF ImportsInvariant

LEMMA InitImports == DriverInit => ImportsInvariant
<1> HAVE DriverInit
<1>1. PICK v \in Invocations : project = v.project /\ args = v.args
  BY DEF DriverInit
<1>2. ProjectType
  BY <1>1, InvocationsAssumption DEF ProjectType
<1>3. /\ argv = args /\ argi = 1 /\ argo = 1 /\ phase = "options"
      /\ Fresh /\ status = "start" /\ modules = <<>>
  BY DEF DriverInit
<1>4. ASSUME PlainProject PROVE ArgvInvariant
  <2>1. Len(args) \in Nat
    BY <1>2, LenProperties DEF ProjectType
  <2>2. modules \in Seq({})
    BY <1>3
  <2>3. argv \in Seq(Argument) /\ \A k \in DOMAIN argv : PlainPath(argv[k].text)
    BY <1>2, <1>3, <1>4 DEF ProjectType, PlainProject
  <2>4. argi \in Nat /\ argo \in Nat /\ 1 <= argo /\ argo <= argi /\ argi <= Len(args) + 1
    BY <1>3, <2>1
  <2> QED
    BY <1>3, <2>2, <2>3, <2>4 DEF ArgvInvariant
<1> QED
  BY <1>2, <1>3, <1>4, FreshImports DEF ImportsInvariant, Importing

-----------------------------------------------------------------------------
(* The theorems.                                                           *)

\* What is handled is what is declared and what is being resolved, each once,
\* and the imports that the loops of resolve_imports (main.c:81-110) have passed
\* are all handled.
THEOREM ImportsInvariantHolds == FairSpec => []ImportsInvariant
<1>1. DriverInit => ImportsInvariant
  BY InitImports
<1>2. ImportsInvariant /\ [Next]_vars => ImportsInvariant'
  BY NextImports
<1> QED
  BY <1>1, <1>2, PTL DEF FairSpec

\* However many files import each other, in cycles too, no file's declarations
\* are generated twice for one module (main.c:91-99), where a file has one
\* spelling; but the input file's are if a cycle goes through it, by the last
\* step of compile (main.c:141).
THEOREM FilesAreDeclaredOnce == FairSpec => [](PlainProject => DeclaredOnce)
<1>1. ImportsInvariant => (PlainProject => DeclaredOnce)
  BY ResolvingNow, OnceFromInvariant DEF ImportsInvariant, Importing, ImportsState, Finished
<1> QED
  BY <1>1, ImportsInvariantHolds, PTL

\* The declarations of what a file imports come before its own, except of the
\* files that wait for it (main.c:107-108).
THEOREM ImportsAreDeclaredFirst == FairSpec => [](PlainProject => ImportsFirst)
<1>1. ImportsInvariant => (PlainProject => ImportsFirst)
  BY ResolvingNow, FirstFromInvariant DEF ImportsInvariant, Importing, ImportsState, Finished, ImportsFirst
<1> QED
  BY <1>1, ImportsInvariantHolds, PTL

\* When compile goes on to the code of a file, the declarations of every file
\* that it depends on, near or far, are there (main.c:131-138).
THEOREM NoImportIsMissed == FairSpec => [](PlainProject => NothingMissed)
<1>1. ImportsInvariant => (PlainProject => NothingMissed)
  BY DEF ImportsInvariant, Importing, ImportsState, Finished, NothingMissed
<1> QED
  BY <1>1, ImportsInvariantHolds, PTL

-----------------------------------------------------------------------------
(* The command line, as it is read from its start.                         *)

\* What is true at a and passed on up to b is true in between.
LEMMA CountUp ==
  ASSUME NEW a \in Nat, NEW b \in Nat, NEW G, a \in G, \A k \in a..(b - 1) : k \in G => k + 1 \in G
  PROVE  \A k \in a..b : k \in G
<1> DEFINE Bad == { k \in Nat : k \in a..b /\ k \notin G }
<1> SUFFICES ASSUME Bad # {} PROVE FALSE
  OBVIOUS
<1>1. PICK m \in Bad : \A k \in Bad : m <= k
  <2>1. Bad \in SUBSET Nat
    OBVIOUS
  <2> HIDE DEF Bad
  <2> QED
    BY <2>1, LeastNumber
<1>2. m \in a..b /\ m \notin G /\ m # a
  OBVIOUS
<1>3. m - 1 \in a..(b - 1) /\ m - 1 \in a..b /\ m - 1 \in Nat /\ ~(m <= m - 1) /\ (m - 1) + 1 = m
  BY <1>2
<1>4. m - 1 \in G
  BY <1>1, <1>3
<1> QED
  BY <1>2, <1>3, <1>4

Wants(owed, a) ==
  IF owed > 0 THEN owed - 1
  ELSE IF owed < 0 THEN owed
  ELSE IF a.hyphens = 1 THEN Len(a.text)
  ELSE IF a.hyphens = 2 /\ a.text = <<>> THEN -1
  ELSE 0

\* Owed is a recursive function: one that satisfies its equation is put
\* together argument by argument.
LEMMA OwedUnfolds ==
  ASSUME args \in Seq(Argument)
  PROVE  Owed[0] = 0 /\ \A k \in 1..Len(args) : Owed[k] = Wants(Owed[k - 1], args[k])
<1> DEFINE l == Len(args)
           Counts(n, h) == h = [k \in 0..n |-> IF k = 0 THEN 0 ELSE Wants(h[k - 1], args[k])]
           G == { n \in Nat : \E h : Counts(n, h) }
<1>1. l \in Nat
  BY LenProperties
<1> HIDE DEF l
<1>2. 0 \in G
  <2> DEFINE h == [k \in 0..0 |-> 0]
  <2>1. h = [k \in 0..0 |-> IF k = 0 THEN 0 ELSE Wants(h[k - 1], args[k])]
    OBVIOUS
  <2> HIDE DEF h
  <2> QED
    BY <2>1
<1>3. ASSUME NEW n \in 0..(l - 1), n \in G PROVE n + 1 \in G
  <2>1. PICK g : Counts(n, g)
    BY <1>3
  <2> DEFINE longer == [k \in 0..(n + 1) |-> IF k = n + 1 THEN Wants(g[n], args[n + 1]) ELSE g[k]]
             H == [k \in 0..(n + 1) |-> IF k = 0 THEN 0 ELSE Wants(longer[k - 1], args[k])]
  <2>2. ASSUME NEW k \in 0..(n + 1) PROVE longer[k] = H[k]
    <3>1. CASE k = n + 1
      <4>1. longer[k] = Wants(g[n], args[n + 1]) /\ k # 0 /\ longer[k - 1] = g[n]
        BY <1>1, <3>1
      <4>2. H[k] = Wants(longer[k - 1], args[k])
        BY <4>1
      <4> QED
        BY <3>1, <4>1, <4>2
    <3>2. CASE k # n + 1 /\ k # 0
      <4>1. k \in 0..n /\ longer[k] = g[k] /\ longer[k - 1] = g[k - 1]
        BY <1>1, <3>2
      <4>2. H[k] = Wants(longer[k - 1], args[k])
        BY <3>2
      <4>3. g[k] = Wants(g[k - 1], args[k])
        BY <2>1, <3>2, <4>1
      <4> QED
        BY <4>1, <4>2, <4>3
    <3>3. CASE k = 0
      <4>1. longer[k] = g[0] /\ g[0] = 0 /\ H[k] = 0
        BY <1>1, <2>1, <3>3
      <4> QED
        BY <4>1
    <3> QED
      BY <3>1, <3>2, <3>3
  <2>3. longer = H
    BY <2>2
  <2>4. Counts(n + 1, longer)
    BY <2>3
  <2> HIDE DEF longer
  <2>5. n + 1 \in Nat
    BY <1>1
  <2> QED
    BY <2>4, <2>5
<1>4. l \in G
  <2> HIDE DEF G
  <2>1. \A k \in 0..l : k \in G
    BY <1>1, <1>2, <1>3, CountUp
  <2> QED
    BY <1>1, <2>1
<1> DEFINE Good(h) == h = [k \in 0..l |-> IF k = 0 THEN 0 ELSE
             LET owed == h[k - 1]
             IN IF owed > 0 THEN owed - 1
                ELSE IF owed < 0 THEN owed
                ELSE IF args[k].hyphens = 1 THEN Len(args[k].text)
                ELSE IF args[k].hyphens = 2 /\ args[k].text = <<>> THEN -1
                ELSE 0]
<1>5. PICK g : Good(g)
  BY <1>4 DEF Wants
<1>6. Owed = CHOOSE h : Good(h)
  BY Zenon DEF Owed, l
<1>7. Good(CHOOSE h : Good(h))
  <2> HIDE DEF Good
  <2> QED
    BY <1>5, Zenon
<1>8. Good(Owed)
  BY <1>6, <1>7, Zenon
<1>9. \A k \in 0..l : Owed[k] = IF k = 0 THEN 0 ELSE Wants(Owed[k - 1], args[k])
  BY <1>8, Zenon DEF Wants
<1>10. Owed[0] = 0 /\ \A k \in 1..l : Owed[k] = Wants(Owed[k - 1], args[k])
  BY <1>1, <1>9
<1> QED
  BY <1>10 DEF l

LEMMA OwedType ==
  ASSUME args \in Seq(Argument)
  PROVE  \A k \in 0..Len(args) : Owed[k] \in Int
<1> DEFINE G == { n \in Nat : Owed[n] \in Int }
<1>1. Len(args) \in Nat /\ \A k \in 1..Len(args) : args[k] \in Argument
  BY LenProperties
<1>2. ASSUME NEW k \in 0..(Len(args) - 1), k \in G PROVE k + 1 \in G
  <2>1. k + 1 \in 1..Len(args) /\ (k + 1) - 1 = k
    BY <1>1
  <2>2. Owed[k + 1] = Wants(Owed[k], args[k + 1])
    BY <2>1, OwedUnfolds
  <2>3. Len(args[k + 1].text) \in Nat
    BY <1>1, <2>1, LenProperties DEF Argument
  <2> QED
    BY <1>2, <2>2, <2>3 DEF Wants
<1>3. 0 \in G
  BY OwedUnfolds
<1> HIDE DEF G
<1>4. \A k \in 0..Len(args) : k \in G
  BY <1>1, <1>2, <1>3, CountUp
<1> QED
  BY <1>4 DEF G

\* The arguments in front of the k-th that are files.
FilesBefore(k) == { j \in Playing("file") : j < k }

LEMMA FilesUpTo ==
  ASSUME args \in Seq(Argument), NEW k \in 1..Len(args)
  PROVE  /\ { j \in Playing("file") : j <= k } = FilesBefore(k + 1)
         /\ FilesBefore(k + 1) = IF Part(k) = "file" THEN FilesBefore(k) \cup {k} ELSE FilesBefore(k)
<1>1. DOMAIN args = 1..Len(args) /\ Len(args) \in Nat
  BY LenProperties
<1>2. \A j \in Playing("file") : j \in Nat /\ j \in DOMAIN args /\ Part(j) = "file"
  BY <1>1 DEF Playing
<1>3. k \in Playing("file") <=> Part(k) = "file"
  BY <1>1 DEF Playing
<1>4. \A j \in Nat : (j < k + 1 <=> j < k \/ j = k) /\ (j <= k <=> j < k + 1)
  OBVIOUS
<1> HIDE DEF Playing
<1>5. { j \in Playing("file") : j <= k } = FilesBefore(k + 1)
  BY <1>2, <1>4 DEF FilesBefore
<1>6. CASE Part(k) = "file"
  BY <1>2, <1>3, <1>4, <1>6 DEF FilesBefore
<1>7. CASE Part(k) # "file"
  BY <1>2, <1>3, <1>4, <1>7 DEF FilesBefore
<1> QED
  BY <1>5, <1>6, <1>7

LEMMA FilesFinite ==
  ASSUME args \in Seq(Argument), NEW k \in 1..(Len(args) + 1)
  PROVE  /\ IsFiniteSet(FilesBefore(k)) /\ Cardinality(FilesBefore(k)) \in Nat
         /\ Cardinality(FilesBefore(k)) <= k - 1
<1>1. DOMAIN args = 1..Len(args) /\ Len(args) \in Nat
  BY LenProperties
<1>2. FilesBefore(k) \in SUBSET (1..(k - 1))
  BY <1>1 DEF FilesBefore, Playing
<1>3. IsFiniteSet(1..(k - 1)) /\ Cardinality(1..(k - 1)) = k - 1
  <2>1. 1 \in Int /\ k - 1 \in Int /\ k - 1 >= 0
    BY <1>1
  <2>2. IsFiniteSet(1..(k - 1)) /\ Cardinality(1..(k - 1)) = IF 1 > k - 1 THEN 0 ELSE k - 1 - 1 + 1
    BY <2>1, FS_Interval
  <2> QED
    BY <2>1, <2>2
<1> HIDE DEF FilesBefore
<1>4. IsFiniteSet(FilesBefore(k)) /\ Cardinality(FilesBefore(k)) <= k - 1
  BY <1>2, <1>3, FS_Subset
<1> QED
  BY <1>4, FS_CardinalityType

\* How many files there are in front.
Count(k) == Cardinality(FilesBefore(k))

LEMMA CountStep ==
  ASSUME args \in Seq(Argument), NEW k \in 1..Len(args)
  PROVE  Count(k + 1) = IF Part(k) = "file" THEN Count(k) + 1 ELSE Count(k)
<1>1. k \in 1..(Len(args) + 1) /\ Len(args) \in Nat
  BY LenProperties
<1>2. IsFiniteSet(FilesBefore(k)) /\ k \notin FilesBefore(k)
  BY <1>1, FilesFinite DEF FilesBefore
<1>3. FilesBefore(k + 1) = IF Part(k) = "file" THEN FilesBefore(k) \cup {k} ELSE FilesBefore(k)
  BY FilesUpTo
<1> QED
  BY <1>2, <1>3, FS_AddElement DEF Count

LEMMA CountFacts ==
  ASSUME args \in Seq(Argument)
  PROVE  /\ Count(1) = 0 /\ Count(Len(args) + 1) = Cardinality(Playing("file"))
         /\ \A k \in 1..(Len(args) + 1) : Count(k) \in Nat /\ Count(k) <= k - 1
         /\ \A j, k \in 1..(Len(args) + 1) : j <= k => Count(j) <= Count(k)
<1>1. DOMAIN args = 1..Len(args) /\ Len(args) \in Nat
  BY LenProperties
<1>2. \A k \in 1..(Len(args) + 1) : Count(k) \in Nat /\ Count(k) <= k - 1
  BY FilesFinite DEF Count
<1>3. 1 \in 1..(Len(args) + 1)
  BY <1>1
<1>4. Count(1) = 0
  BY <1>2, <1>3
<1>5. FilesBefore(Len(args) + 1) = Playing("file")
  BY <1>1 DEF FilesBefore, Playing
<1>6. ASSUME NEW j \in 1..(Len(args) + 1), NEW k \in 1..(Len(args) + 1), j <= k
      PROVE  Count(j) <= Count(k)
  <2>1. IsFiniteSet(FilesBefore(k))
    BY FilesFinite
  <2>2. \A i \in Playing("file") : i \in Nat
    BY <1>1 DEF Playing
  <2>3. FilesBefore(j) \in SUBSET FilesBefore(k)
    BY <1>6, <2>2 DEF FilesBefore
  <2> QED
    BY <2>1, <2>3, FS_Subset DEF Count
<1> QED
  BY <1>2, <1>4, <1>5, <1>6 DEF Count

\* Behind "--" there is nothing but files.
LEMMA CountTheRest ==
  ASSUME args \in Seq(Argument), NEW i \in 1..Len(args), Part(i) = "end"
  PROVE  \A k \in (i + 1)..Len(args) :
           Part(k) = "file" /\ Count(k) = Count(i) + (k - (i + 1)) /\ Count(k + 1) = Count(k) + 1
<1>1. Len(args) \in Nat /\ DOMAIN args = 1..Len(args) /\ \A k \in 1..Len(args) : args[k] \in Argument
  BY LenProperties
<1>2. Owed[i - 1] = 0 /\ args[i].hyphens # 1 /\ args[i].text = <<>> /\ args[i].hyphens = 2
  <2>1. i - 1 \in 0..Len(args)
    BY <1>1
  <2>2. Owed[i - 1] \in Int
    BY <2>1, OwedType
  <2>3. args[i].hyphens \in 0..2
    BY <1>1 DEF Argument
  <2> QED
    BY <2>2, <2>3 DEF Part
<1>3. Owed[i] = -1
  BY <1>2, OwedUnfolds DEF Wants
<1> DEFINE G == { k \in Nat : Owed[k] = -1 }
<1>4. \A k \in i..Len(args) : k \in G
  <2>1. ASSUME NEW k \in i..(Len(args) - 1), k \in G PROVE k + 1 \in G
    <3>1. k + 1 \in 1..Len(args) /\ (k + 1) - 1 = k
      BY <1>1
    <3>2. Owed[k + 1] = Wants(Owed[k], args[k + 1])
      BY <3>1, OwedUnfolds
    <3> QED
      BY <2>1, <3>2 DEF Wants
  <2>2. i \in G
    BY <1>3
  <2>3. i \in Nat /\ Len(args) \in Nat
    BY <1>1
  <2> HIDE DEF G
  <2> QED
    BY <2>1, <2>2, <2>3, CountUp
<1>5. ASSUME NEW k \in (i + 1)..Len(args) PROVE Part(k) = "file"
  <2>1. k - 1 \in i..Len(args)
    BY <1>1
  <2> QED
    BY <1>4, <2>1 DEF Part
<1> DEFINE H == { k \in Nat : Count(k) = Count(i) + (k - (i + 1)) }
<1>6. Count(i) \in Nat
  BY <1>1, CountFacts
<1>7. \A k \in (i + 1)..(Len(args) + 1) : k \in H
  <2>1. i + 1 \in H
    <3>1. Count(i + 1) = Count(i)
      BY CountStep
    <3> QED
      BY <1>6, <3>1
  <2>2. ASSUME NEW k \in (i + 1)..((Len(args) + 1) - 1), k \in H PROVE k + 1 \in H
    <3>1. k \in 1..Len(args) /\ k \in (i + 1)..Len(args)
      BY <1>1
    <3>2. Count(k + 1) = Count(k) + 1
      BY <1>5, <3>1, CountStep
    <3> QED
      BY <1>6, <2>2, <3>2
  <2>3. i + 1 \in Nat /\ Len(args) + 1 \in Nat
    BY <1>1
  <2> HIDE DEF H
  <2> QED
    BY <2>1, <2>2, <2>3, CountUp
<1>8. ASSUME NEW k \in (i + 1)..Len(args) PROVE Count(k + 1) = Count(k) + 1
  <2>1. k \in 1..Len(args)
    BY <1>1
  <2> QED
    BY <1>5, <2>1, CountStep
<1> QED
  BY <1>1, <1>5, <1>7, <1>8

\* An option is followed by its values.
LEMMA ValuesFollow ==
  ASSUME args \in Seq(Argument), NEW i \in 1..Len(args), Part(i) = "option",
         NEW n \in Nat, n = Len(args[i].text), i + n <= Len(args)
  PROVE  /\ Owed[i + n] = 0
         /\ \A k \in (i + 1)..(i + n) : Part(k) = "value"
         /\ Count(i + n + 1) = Count(i)
<1>1. Len(args) \in Nat /\ DOMAIN args = 1..Len(args) /\ \A k \in 1..Len(args) : args[k] \in Argument
  BY LenProperties
<1>2. Owed[i - 1] = 0 /\ args[i].hyphens = 1
  <2>1. i - 1 \in 0..Len(args)
    BY <1>1
  <2>2. Owed[i - 1] \in Int
    BY <2>1, OwedType
  <2> QED
    BY <2>2 DEF Part
<1>3. Owed[i] = n
  BY <1>2, OwedUnfolds DEF Wants
<1> DEFINE G == { k \in Nat : Owed[k] = i + n - k }
<1>4. \A k \in i..(i + n) : k \in G
  <2>1. ASSUME NEW k \in i..((i + n) - 1), k \in G PROVE k + 1 \in G
    <3>1. k + 1 \in 1..Len(args) /\ (k + 1) - 1 = k
      BY <1>1
    <3>2. Owed[k + 1] = Wants(Owed[k], args[k + 1])
      BY <3>1, OwedUnfolds
    <3>3. Owed[k] = i + n - k /\ i + n - k > 0
      BY <2>1
    <3> QED
      BY <3>2, <3>3 DEF Wants
  <2>2. i \in G
    BY <1>3
  <2>3. i \in Nat /\ i + n \in Nat
    OBVIOUS
  <2> HIDE DEF G
  <2> QED
    BY <2>1, <2>2, <2>3, CountUp
<1>5. ASSUME NEW k \in (i + 1)..(i + n) PROVE Part(k) = "value"
  <2>1. k - 1 \in i..(i + n)
    BY <1>1
  <2>2. Owed[k - 1] > 0
    BY <1>4, <2>1
  <2> QED
    BY <2>2 DEF Part
<1>6. i + n \in G
  BY <1>4
<1> DEFINE H == { k \in Nat : Count(k) = Count(i) }
<1>7. \A k \in (i + 1)..(i + n + 1) : k \in H
  <2>1. i + 1 \in H
    BY CountStep
  <2>2. ASSUME NEW k \in (i + 1)..((i + n + 1) - 1), k \in H PROVE k + 1 \in H
    <3>1. k \in 1..Len(args) /\ k \in (i + 1)..(i + n)
      BY <1>1
    <3>2. Count(k + 1) = Count(k)
      BY <1>5, <3>1, CountStep
    <3> QED
      BY <2>2, <3>2
  <2>3. i + 1 \in Nat /\ i + n + 1 \in Nat
    OBVIOUS
  <2> HIDE DEF H
  <2> QED
    BY <2>1, <2>2, <2>3, CountUp
<1>8. i + n + 1 \in H
  BY <1>7
<1> QED
  BY <1>5, <1>6, <1>8

(***************************************************************************)
(* parse_options.  The invariant: the files so far are at the start of     *)
(* argv, what has not been read is where it was, and the last value so far *)
(* names the output.                                                       *)
(***************************************************************************)
Moved(v, n) ==
  /\ \A k \in Playing("file") : k < n => v[Count(k + 1)] = args[k]
  /\ \A m \in 1..Count(n) : \E k \in Playing("file") : v[m] = args[k]

OutputOf(name, n) ==
  \/ name = NoArg /\ \A j \in Playing("value") : ~(j < n)
  \/ \E k \in Playing("value") : k < n /\ name = args[k] /\ \A j \in Playing("value") : j < n => j <= k

Refused(k) ==
  \/ Part(k) = "bad"
  \/ Part(k) = "option" /\ \E l \in DOMAIN args[k].text : args[k].text[l] # o \/ k + l > Len(args)

Untouched == modules = <<>> /\ disk = <<>> /\ any_failed = FALSE

OptionsRead ==
  /\ argv \in Seq(Argument) /\ Len(argv) = Len(args)
  /\ argi \in 1..(Len(args) + 1)
  /\ Owed[argi - 1] = 0 \/ argi = Len(args) + 1
  /\ argo = Count(argi) + 1
  /\ \A k \in argi..Len(args) : argv[k] = args[k]
  /\ Moved(argv, argi)
  /\ OutputOf(output_name, argi)
  /\ \A k \in 1..(argi - 1) : ~Refused(k)
  /\ Untouched /\ exit = "running"

Parsed ==
  /\ ~BadOptions
  /\ argv \in Seq(Argument) /\ Len(argv) = Count(Len(args) + 1) /\ Len(argv) # 0
  /\ Moved(argv, Len(args) + 1)
  /\ OutputOf(output_name, Len(args) + 1)

TurnedDown ==
  /\ phase = "exit" /\ exit = "1" /\ Untouched
  /\ BadOptions \/ Playing("file") = {}

OptionsInvariant ==
  /\ args \in Seq(Argument)
  /\ phase = "options" => OptionsRead
  /\ phase # "options" => Parsed \/ TurnedDown

\* What is read depends on the arguments alone.
LEMMA SameOwed ==
  ASSUME UNCHANGED args
  PROVE  Owed' = Owed
<1> DEFINE F(as) == CHOOSE h : h = [k \in 0..Len(as) |-> IF k = 0 THEN 0 ELSE
             LET owed == h[k - 1]
             IN IF owed > 0 THEN owed - 1
                ELSE IF owed < 0 THEN owed
                ELSE IF as[k].hyphens = 1 THEN Len(as[k].text)
                ELSE IF as[k].hyphens = 2 /\ as[k].text = <<>> THEN -1
                ELSE 0]
<1>1. Owed = F(args)
  BY Zenon DEF Owed
<1>2. Owed' = F(args')
  BY Zenon DEF Owed
<1> HIDE DEF F
<1> QED
  BY <1>1, <1>2

LEMMA SameReading ==
  ASSUME UNCHANGED args
  PROVE  /\ Owed' = Owed
         /\ \A part : Playing(part)' = Playing(part)
         /\ \A k : FilesBefore(k)' = FilesBefore(k) /\ Count(k)' = Count(k)
         /\ \A k : Refused(k)' <=> Refused(k)
         /\ BadOptions' <=> BadOptions
<1>1. Owed' = Owed
  BY SameOwed
<1>2. \A k : Part(k)' = Part(k)
  BY <1>1 DEF Part
<1>3. \A part : Playing(part)' = Playing(part)
  <2> SUFFICES ASSUME NEW CONSTANT part PROVE Playing(part)' = Playing(part)
    OBVIOUS
  <2>1. \A k : k \in Playing(part)' <=> k \in DOMAIN args' /\ Part(k)' = part
    BY DEF Playing
  <2>2. \A k : k \in Playing(part) <=> k \in DOMAIN args /\ Part(k) = part
    BY DEF Playing
  <2>3. \A k : k \in Playing(part)' <=> k \in Playing(part)
    BY <1>2, <2>1, <2>2
  <2>4. \A k \in Playing(part)' : k \in Playing(part)
    BY <2>3
  <2>5. \A k \in Playing(part) : k \in Playing(part)'
    BY <2>3
  <2> QED
    BY <2>4, <2>5
<1>4. \A k : FilesBefore(k)' = FilesBefore(k)
  BY <1>3 DEF FilesBefore
<1>5. \A k : Count(k)' = Count(k)
  BY <1>4 DEF Count
<1>6. \A k : Refused(k)' <=> Refused(k)
  BY <1>2 DEF Refused
<1>7. BadOptions' <=> BadOptions
  BY <1>3 DEF BadOptions
<1> QED
  BY <1>1, <1>3, <1>4, <1>5, <1>6, <1>7

LEMMA OptionsReadNext ==
  ASSUME UNCHANGED args,
         argv' \in Seq(Argument), Len(argv') = Len(args),
         argi' \in 1..(Len(args) + 1), Owed[argi' - 1] = 0 \/ argi' = Len(args) + 1,
         argo' = Count(argi') + 1, \A k \in argi'..Len(args) : argv'[k] = args[k],
         Moved(argv', argi'), OutputOf(output_name', argi'),
         \A k \in 1..(argi' - 1) : ~Refused(k),
         Untouched', exit' = "running"
  PROVE  OptionsRead'
<1>1. Owed' = Owed
  BY SameReading
<1>2. Playing("file")' = Playing("file") /\ Playing("value")' = Playing("value")
  BY SameReading
<1>3. Count(argi)' = Count(argi')
  BY SameReading
<1>4. Moved(argv, argi)'
  BY SameReading DEF Moved
<1>5. OutputOf(output_name, argi)'
  BY <1>2 DEF OutputOf
<1>6. \A k \in 1..(argi' - 1) : ~Refused(k)'
  BY SameReading
<1> QED
  BY <1>1, <1>3, <1>4, <1>5, <1>6 DEF OptionsRead

LEMMA BadOptionsRefused ==
  ASSUME args \in Seq(Argument)
  PROVE  BadOptions <=> \E k \in 1..Len(args) : Refused(k)
BY LenProperties DEF BadOptions, Refused, Playing

LEMMA ReadFacts ==
  ASSUME OptionsInvariant, phase = "options"
  PROVE  /\ Len(args) \in Nat /\ DOMAIN args = 1..Len(args) /\ DOMAIN argv = 1..Len(args)
         /\ Len(argv) = Len(args) /\ argv \in Seq(Argument)
         /\ argi \in Nat \ {0} /\ argi <= Len(args) + 1 /\ Count(argi) \in Nat /\ Count(argi) <= argi - 1
         /\ argo = Count(argi) + 1
<1>1. OptionsRead /\ args \in Seq(Argument)
  BY DEF OptionsInvariant
<1>2. /\ Len(args) \in Nat /\ DOMAIN args = 1..Len(args) /\ DOMAIN argv = 1..Len(args)
      /\ Len(argv) = Len(args) /\ argv \in Seq(Argument)
  BY <1>1, LenProperties DEF OptionsRead
<1>3. argi \in 1..(Len(args) + 1) /\ argo = Count(argi) + 1
  BY <1>1 DEF OptionsRead
<1> QED
  BY <1>1, <1>2, <1>3, CountFacts

\* The argument that is read is the one that was given, and owed to no option.
LEMMA ArgFacts ==
  ASSUME OptionsInvariant, phase = "options", argi <= Len(args)
  PROVE  /\ Arg = args[argi] /\ Arg \in Argument /\ Owed[argi - 1] = 0
         /\ Arg.hyphens = 0 => Part(argi) = "file"
         /\ Arg.hyphens = 1 => Part(argi) = "option"
         /\ Arg.hyphens = 2 => Part(argi) = IF Arg.text = <<>> THEN "end" ELSE "bad"
<1>1. OptionsRead /\ args \in Seq(Argument) /\ Len(args) \in Nat /\ argi \in Nat \ {0}
  BY ReadFacts DEF OptionsInvariant
<1>2. argi \in 1..Len(args) /\ argi \in argi..Len(args) /\ argi # Len(args) + 1
  BY <1>1
<1>3. Arg = args[argi] /\ Owed[argi - 1] = 0
  BY <1>1, <1>2 DEF OptionsRead, Arg
<1>4. args[argi] \in Argument
  BY <1>1, <1>2, LenProperties
<1> QED
  BY <1>3, <1>4 DEF Part

\* Nothing but the argument that was read is passed over.
LEMMA PassedOver ==
  ASSUME args \in Seq(Argument), NEW i \in 1..Len(args), NEW j \in Nat
  PROVE  j < i + 1 <=> j < i \/ j = i
OBVIOUS

LEMMA ReadPositional ==
  ASSUME OptionsInvariant, parse_positional
  PROVE  OptionsRead'
<1> DEFINE l == Len(args)
           i == argi
<1>1. /\ phase = "options" /\ i <= l /\ Arg.hyphens = 0
      /\ argv' = [argv EXCEPT ![argo] = Arg] /\ argo' = argo + 1 /\ argi' = i + 1
      /\ UNCHANGED <<args, output_name, modules, any_failed, disk, phase, exit>>
  BY DEF parse_positional, AtArg, sourceVars, linkVars, Stay
<1>2. OptionsRead /\ args \in Seq(Argument)
  BY <1>1 DEF OptionsInvariant
<1>3. /\ l \in Nat /\ DOMAIN args = 1..l /\ DOMAIN argv = 1..l /\ Len(argv) = l /\ argv \in Seq(Argument)
      /\ i \in Nat \ {0} /\ Count(i) \in Nat /\ Count(i) <= i - 1 /\ argo = Count(i) + 1
  BY <1>1, ReadFacts
<1>4. Arg = args[i] /\ Arg \in Argument /\ Owed[i - 1] = 0 /\ Part(i) = "file"
  BY <1>1, ArgFacts
<1> HIDE DEF l, i
<1>5. i \in 1..l /\ argo \in 1..i /\ argo \in 1..l
  BY <1>1, <1>3
<1>6. argv' \in Seq(Argument) /\ Len(argv') = l /\ \A k \in 1..l : argv'[k] = IF k = argo THEN args[i] ELSE argv[k]
  BY <1>1, <1>3, <1>4, <1>5, ExceptSeq
<1>7. Owed[(i + 1) - 1] = 0
  <2>1. Owed[i] = Wants(Owed[i - 1], args[i])
    BY <1>2, <1>5, OwedUnfolds DEF l
  <2>2. (i + 1) - 1 = i
    BY <1>3
  <2> QED
    BY <1>1, <1>4, <2>1, <2>2 DEF Wants
<1>8. Count(i + 1) = argo /\ argo' = Count(i + 1) + 1
  BY <1>1, <1>2, <1>3, <1>4, <1>5, CountStep DEF l
<1>9. \A k \in (i + 1)..l : argv'[k] = args[k]
  <2>1. ASSUME NEW k \in (i + 1)..l PROVE argv'[k] = args[k]
    <3>1. k \in 1..l /\ k \in i..l /\ k # argo
      BY <1>3, <1>5
    <3>2. argv[k] = args[k]
      BY <1>2, <3>1 DEF OptionsRead, i, l
    <3> QED
      BY <1>6, <3>1, <3>2
  <2> QED
    BY <2>1
<1>10. \A k \in Playing("file") : k \in 1..l
  BY <1>3 DEF Playing
<1>11. Moved(argv', i + 1)
  <2>1. ASSUME NEW k \in Playing("file"), k < i + 1 PROVE argv'[Count(k + 1)] = args[k]
    <3>1. CASE k = i
      BY <1>5, <1>6, <1>8, <3>1
    <3>2. CASE k < i
      <4>1. Count(k + 1) <= Count(i) /\ Count(k + 1) \in Nat /\ Count(k + 1) # 0
        <5>1. k \in 1..l /\ k + 1 \in 1..(l + 1) /\ i \in 1..(l + 1) /\ k + 1 <= i
          BY <1>3, <1>5, <1>10, <3>2
        <5>2. Count(k + 1) = Count(k) + 1
          BY <1>2, <2>1, <5>1, CountStep DEF l, Playing
        <5>3. Count(k) \in Nat
          BY <1>2, <5>1, CountFacts DEF l
        <5> QED
          BY <1>2, <5>1, <5>2, <5>3, CountFacts DEF l
      <4>2. Count(k + 1) \in 1..l /\ Count(k + 1) # argo
        BY <1>3, <1>5, <4>1
      <4>3. argv[Count(k + 1)] = args[k]
        BY <1>2, <3>2 DEF OptionsRead, Moved, i
      <4> QED
        BY <1>6, <4>2, <4>3
    <3>3. k \in 1..l
      BY <1>10
    <3> QED
      BY <1>5, <2>1, <3>1, <3>2, <3>3
  <2>2. ASSUME NEW m \in 1..Count(i + 1) PROVE \E k \in Playing("file") : argv'[m] = args[k]
    <3>1. CASE m = argo
      <4>1. i \in Playing("file")
        BY <1>3, <1>4, <1>5 DEF Playing
      <4> QED
        BY <1>5, <1>6, <3>1, <4>1
    <3>2. CASE m # argo
      <4>1. m \in 1..Count(i) /\ m \in 1..l
        BY <1>3, <1>5, <1>8, <3>2
      <4>2. \E k \in Playing("file") : argv[m] = args[k]
        BY <1>2, <4>1 DEF OptionsRead, Moved, i
      <4> QED
        BY <1>6, <3>2, <4>1, <4>2
    <3> QED
      BY <3>1, <3>2
  <2> QED
    BY <2>1, <2>2 DEF Moved
<1>12. OutputOf(output_name, i + 1)
  <2>1. \A j \in Playing("value") : j \in 1..l /\ (j < i + 1 <=> j < i)
    <3>1. \A j \in Playing("value") : j \in 1..l /\ j # i
      BY <1>3, <1>4 DEF Playing
    <3> QED
      BY <1>3, <3>1
  <2> QED
    BY <1>2, <2>1 DEF OptionsRead, OutputOf, i
<1>13. \A k \in 1..((i + 1) - 1) : ~Refused(k)
  <2>1. ~Refused(i)
    BY <1>4 DEF Refused
  <2>2. \A k \in 1..((i + 1) - 1) : k = i \/ k \in 1..(i - 1)
    BY <1>3
  <2> QED
    BY <1>2, <2>1, <2>2 DEF OptionsRead, i
<1>14. i + 1 \in 1..(l + 1)
  BY <1>3, <1>5
<1>15. Untouched' /\ exit' = "running"
  BY <1>1, <1>2 DEF OptionsRead, Untouched
<1>16. argi' = i + 1 /\ args' = args /\ output_name' = output_name
  BY <1>1
<1> QED
  BY <1>6, <1>7, <1>8, <1>9, <1>11, <1>12, <1>13, <1>14, <1>15, <1>16, OptionsReadNext DEF l

LEMMA ReadRefused ==
  ASSUME OptionsInvariant, phase = "options", UNCHANGED args, Exit("1"), Untouched',
         NEW k \in 1..Len(args), Refused(k)
  PROVE  TurnedDown'
<1>1. BadOptions
  BY BadOptionsRefused DEF OptionsInvariant
<1>2. BadOptions'
  BY <1>1, SameReading
<1> QED
  BY <1>2 DEF TurnedDown, Exit

LEMMA ReadShort ==
  ASSUME OptionsInvariant, parse_short_option
  PROVE  (OptionsRead' /\ phase' = "options") \/ TurnedDown'
<1> DEFINE l == Len(args)
           i == argi
           n == Len(Arg.text)
           fits == \A k \in DOMAIN Arg.text : Arg.text[k] = o /\ i + k <= l
<1>1. /\ phase = "options" /\ i <= l /\ Arg.hyphens = 1
      /\ \/ fits /\ argi' = i + n + 1 /\ Stay
            /\ output_name' = IF Arg.text = <<>> THEN output_name ELSE argv[i + n]
         \/ ~fits /\ Exit("1")
      /\ UNCHANGED <<args, argv, argo, modules, any_failed, disk>>
  BY DEF parse_short_option, AtArg, sourceVars, linkVars
<1>2. OptionsRead /\ args \in Seq(Argument)
  BY <1>1 DEF OptionsInvariant
<1>3. /\ l \in Nat /\ DOMAIN args = 1..l
      /\ i \in Nat \ {0} /\ Count(i) \in Nat /\ Count(i) <= i - 1 /\ argo = Count(i) + 1
  BY <1>1, ReadFacts
<1>4. Arg = args[i] /\ Arg \in Argument /\ Part(i) = "option"
  BY <1>1, ArgFacts
<1>5. n \in Nat /\ DOMAIN Arg.text = 1..n /\ (Arg.text = <<>> <=> n = 0)
  <2>1. Arg.text \in Seq(Name)
    BY <1>4 DEF Argument
  <2> QED
    BY <2>1, LenProperties, EmptySeq
<1>6. i \in 1..l
  BY <1>1, <1>3
<1>7. Untouched'
  BY <1>1, <1>2 DEF OptionsRead, Untouched
<1>8. CASE ~fits /\ Exit("1")
  <2>1. Refused(i)
    <3>1. PICK k \in DOMAIN Arg.text : Arg.text[k] # o \/ ~(i + k <= l)
      BY <1>8
    <3>2. i + k > l \/ Arg.text[k] # o
      BY <1>3, <1>5, <3>1
    <3> QED
      BY <1>4, <3>1, <3>2 DEF Refused
  <2> QED
    BY <1>1, <1>6, <1>7, <1>8, <2>1, ReadRefused
<1>9. CASE /\ fits /\ argi' = i + n + 1 /\ Stay
           /\ output_name' = IF Arg.text = <<>> THEN output_name ELSE argv[i + n]
  <2>1. i + n <= l
    <3>1. CASE n = 0
      BY <1>3, <1>6, <3>1
    <3>2. CASE n # 0
      <4>1. n \in DOMAIN Arg.text
        BY <1>5, <3>2
      <4> QED
        BY <1>9, <4>1
    <3> QED
      BY <3>1, <3>2
  <2>2. /\ Owed[i + n] = 0
        /\ \A k \in (i + 1)..(i + n) : Part(k) = "value"
        /\ Count(i + n + 1) = Count(i)
    BY <1>2, <1>4, <1>5, <1>6, <2>1, ValuesFollow
  <2>3. ~Refused(i)
    <3>1. \A k \in DOMAIN Arg.text : Arg.text[k] = o /\ ~(i + k > l)
      BY <1>3, <1>5, <1>9
    <3> QED
      BY <1>4, <3>1 DEF Refused
  <2> HIDE DEF l, i, n, fits
  <2> DEFINE j == i + n + 1
  <2>4. argi' = j /\ phase' = phase /\ exit' = exit
    BY <1>9 DEF Stay
  <2>5. j \in 1..(l + 1) /\ j - 1 = i + n /\ j \in Nat /\ j > i
    BY <1>3, <1>5, <2>1
  <2>6. \A k \in j..l : argv'[k] = args[k]
    <3>1. \A k \in j..l : k \in i..l
      BY <1>3, <2>5
    <3> QED
      BY <1>1, <1>2, <3>1 DEF OptionsRead, i, l
  <2>7. \A k \in i..(j - 1) : k = i \/ k \in (i + 1)..(i + n)
    BY <1>3, <2>5
  <2>8. \A k \in i..(j - 1) : Part(k) # "file" /\ ~Refused(k)
    BY <1>4, <2>2, <2>3, <2>7 DEF Refused
  <2>9. \A part : \A k \in Playing(part) : k \in 1..l /\ Part(k) = part
    BY <1>3 DEF Playing
  <2>10. Moved(argv', j)
    <3>1. ASSUME NEW k \in Playing("file"), k < j PROVE k < i
      <4>1. k \notin i..(j - 1) /\ k \in Nat
        BY <1>3, <2>8, <2>9
      <4> QED
        BY <1>3, <2>5, <3>1, <4>1
    <3>2. Count(j) = Count(i)
      BY <2>2
    <3>3. Moved(argv, i)
      BY <1>2 DEF OptionsRead, i
    <3> QED
      BY <1>1, <3>1, <3>2, <3>3 DEF Moved
  <2>11. OutputOf(output_name', j)
    <3>1. OutputOf(output_name, i)
      BY <1>2 DEF OptionsRead, i
    <3>2. CASE n = 0
      <4>1. output_name' = output_name
        BY <1>5, <1>9, <3>2
      <4>2. \A k \in Playing("value") : k < j <=> k < i
        <5>1. ASSUME NEW k \in Playing("value") PROVE k < j <=> k < i
          <6>1. k \in Nat /\ k # i
            BY <1>3, <1>4, <2>9
          <6>2. j = i + 1
            BY <1>3, <3>2
          <6> QED
            BY <1>3, <6>1, <6>2
        <5> QED
          BY <5>1
      <4> QED
        BY <3>1, <4>1, <4>2 DEF OutputOf
    <3>3. CASE n # 0
      <4>1. output_name' = argv[i + n] /\ i + n \in (i + 1)..(i + n) /\ i + n \in i..l /\ i + n \in 1..l
        BY <1>3, <1>5, <1>9, <2>1, <3>3
      <4>2. output_name' = args[i + n]
        BY <1>2, <4>1 DEF OptionsRead, i, l
      <4>3. i + n \in Playing("value")
        BY <1>3, <2>2, <4>1 DEF Playing
      <4>4. i + n < j
        BY <1>3, <1>5
      <4>5. \A k \in Playing("value") : k < j => k <= i + n
        BY <1>3, <1>5, <2>9
      <4> QED
        BY <4>2, <4>3, <4>4, <4>5 DEF OutputOf
    <3> QED
      BY <3>2, <3>3
  <2>12. \A k \in 1..(j - 1) : ~Refused(k)
    <3>1. \A k \in 1..(j - 1) : k \in 1..(i - 1) \/ k \in i..(j - 1)
      BY <1>3, <2>5
    <3> QED
      BY <1>2, <2>8, <3>1 DEF OptionsRead, i
  <2>13. argv' \in Seq(Argument) /\ Len(argv') = l /\ argo' = Count(j) + 1 /\ Owed[j - 1] = 0
    BY <1>1, <1>2, <1>3, <2>2, <2>5 DEF OptionsRead, l
  <2>14. phase' = "options" /\ exit' = "running" /\ args' = args
    BY <1>1, <1>2, <2>4 DEF OptionsRead
  <2> HIDE DEF j
  <2> QED
    BY <1>7, <2>4, <2>5, <2>6, <2>10, <2>11, <2>12, <2>13, <2>14, OptionsReadNext DEF l
<1> QED
  BY <1>1, <1>8, <1>9

LEMMA ReadLong ==
  ASSUME OptionsInvariant, parse_long_option
  PROVE  TurnedDown'
<1>1. /\ phase = "options" /\ argi <= Len(args) /\ Arg.hyphens = 2 /\ Arg.text # <<>> /\ Exit("1")
      /\ UNCHANGED <<args, modules, any_failed, disk>>
  BY DEF parse_long_option, AtArg, sourceVars, linkVars
<1>2. Refused(argi)
  BY <1>1, ArgFacts DEF Refused
<1>3. argi \in 1..Len(args)
  BY <1>1, ReadFacts
<1>4. Untouched'
  BY <1>1 DEF OptionsInvariant, OptionsRead, Untouched
<1> QED
  BY <1>1, <1>2, <1>3, <1>4, ReadRefused

LEMMA ReadEnd ==
  ASSUME OptionsInvariant, parse_end
  PROVE  OptionsRead'
<1> DEFINE l == Len(args)
           i == argi
           c == Count(i)
<1>1. /\ phase = "options" /\ i <= l /\ Arg.hyphens = 2 /\ Arg.text = <<>>
      /\ argv' = [k \in DOMAIN argv |->
                    IF k \in argo..(argo + (l - i) - 1) THEN argv[i + 1 + k - argo] ELSE argv[k]]
      /\ argo' = argo + (l - i) /\ argi' = l + 1
      /\ UNCHANGED <<args, output_name, modules, any_failed, disk, phase, exit>>
  BY DEF parse_end, AtArg, sourceVars, linkVars, Stay
<1>2. OptionsRead /\ args \in Seq(Argument)
  BY <1>1 DEF OptionsInvariant
<1>3. /\ l \in Nat /\ DOMAIN args = 1..l /\ DOMAIN argv = 1..l /\ argv \in Seq(Argument)
      /\ i \in Nat \ {0} /\ c \in Nat /\ c <= i - 1 /\ argo = c + 1
  BY <1>1, ReadFacts
<1>4. Part(i) = "end" /\ Arg = args[i] /\ i \in 1..l
  BY <1>1, <1>3, ArgFacts
<1>5. \A k \in (i + 1)..l : Part(k) = "file" /\ Count(k) = c + (k - (i + 1)) /\ Count(k + 1) = Count(k) + 1
  BY <1>2, <1>4, CountTheRest
<1>6. Count(i + 1) = c
  BY <1>2, <1>4, CountStep
<1>7. Count(l + 1) = c + (l - i)
  <2>1. CASE i = l
    BY <1>3, <1>6, <2>1
  <2>2. CASE i # l
    <3>1. l \in (i + 1)..l
      <4>1. i \in Nat /\ l \in Nat /\ i <= l
        BY <1>3, <1>4
      <4> HIDE DEF i, l
      <4> QED
        BY <2>2, <4>1
    <3>2. Count(l) = c + (l - (i + 1)) /\ Count(l + 1) = Count(l) + 1
      BY <1>5, <3>1
    <3> QED
      BY <1>3, <3>2
  <2> QED
    BY <2>1, <2>2
<1>8. \A k \in i..l : argv[k] = args[k]
  BY <1>2 DEF OptionsRead
<1>9. Moved(argv, i)
  BY <1>2 DEF OptionsRead
<1> HIDE DEF l, i, c
\* What is in argv afterwards.
<1>10. \A k \in 1..c : k \in 1..l /\ argv'[k] = argv[k]
  <2>1. ASSUME NEW k \in 1..c PROVE k \in 1..l /\ argv'[k] = argv[k]
    <3>1. k \in 1..l /\ k \notin argo..(argo + (l - i) - 1)
      BY <1>3, <1>4
    <3> QED
      BY <1>1, <1>3, <3>1
  <2> QED
    BY <2>1
<1>11. ASSUME NEW k \in (i + 1)..l PROVE argv'[c + (k - i)] = args[k] /\ k \in 1..l /\ k \in i..l
  <2>1. c + (k - i) \in 1..l /\ c + (k - i) \in argo..(argo + (l - i) - 1) /\ i + 1 + (c + (k - i)) - argo = k
    BY <1>3, <1>4
  <2>2. k \in 1..l /\ k \in i..l
    BY <1>3
  <2>3. argv'[c + (k - i)] = argv[k]
    BY <1>1, <1>3, <2>1
  <2> QED
    BY <1>8, <2>2, <2>3
<1>12. argv' \in Seq(Argument) /\ Len(argv') = l
  <2>1. ASSUME NEW k \in 1..l PROVE argv'[k] \in Argument
    <3>1. CASE k \in argo..(argo + (l - i) - 1)
      <4>1. argv'[k] = argv[i + 1 + k - argo] /\ i + 1 + k - argo \in 1..l
        BY <1>1, <1>3, <3>1
      <4> QED
        BY <1>3, <4>1, ElementOfSeq
    <3>2. CASE k \notin argo..(argo + (l - i) - 1)
      <4>1. argv'[k] = argv[k]
        BY <1>1, <1>3, <3>2
      <4> QED
        BY <1>3, <4>1, ElementOfSeq
    <3> QED
      BY <3>1, <3>2
  <2>2. argv' = [k \in 1..l |-> argv'[k]] /\ DOMAIN argv' = 1..l
    BY <1>1, <1>3
  <2>3. argv' \in [1..l -> Argument]
    BY <2>1, <2>2
  <2>4. argv' \in Seq(Argument)
    BY <1>3, <2>3, SeqDef
  <2> QED
    BY <1>3, <2>2, <2>4, LenProperties
<1>13. \A part : \A k \in Playing(part) : k \in 1..l /\ Part(k) = part
  BY <1>3 DEF Playing
<1>14. Moved(argv', l + 1)
  <2>1. ASSUME NEW k \in Playing("file") PROVE argv'[Count(k + 1)] = args[k]
    <3>1. k \in 1..l /\ k # i
      BY <1>4, <1>13
    <3>2. CASE k > i
      <4>1. k \in (i + 1)..l
        BY <1>3, <3>1, <3>2
      <4>2. Count(k + 1) = c + (k - i)
        BY <1>3, <1>5, <4>1
      <4> QED
        BY <1>11, <4>1, <4>2
    <3>3. CASE k < i
      <4>1. Count(k + 1) = Count(k) + 1 /\ Count(k) \in Nat
        <5>1. k \in 1..(Len(args) + 1)
          BY <1>3, <3>1 DEF l
        <5> QED
          BY <1>2, <1>13, <3>1, <5>1, CountStep, CountFacts DEF l
      <4>2. Count(k + 1) <= c
        <5>1. k + 1 \in 1..(l + 1) /\ i \in 1..(l + 1) /\ k + 1 <= i
          BY <1>3, <1>4, <3>1, <3>3
        <5> QED
          BY <1>2, <5>1, CountFacts DEF l, c
      <4>3. Count(k + 1) \in 1..c
        BY <1>3, <4>1, <4>2
      <4>4. argv[Count(k + 1)] = args[k]
        BY <1>9, <3>3 DEF Moved
      <4> QED
        BY <1>10, <4>3, <4>4
    <3> QED
      BY <1>3, <3>1, <3>2, <3>3
  <2>2. ASSUME NEW m \in 1..Count(l + 1) PROVE \E k \in Playing("file") : argv'[m] = args[k]
    <3>1. CASE m <= c
      <4>1. m \in 1..c
        BY <1>3, <1>7, <3>1
      <4>2. \E k \in Playing("file") : argv[m] = args[k]
        BY <1>9, <4>1 DEF Moved, c
      <4> QED
        BY <1>10, <4>1, <4>2
    <3>2. CASE ~(m <= c)
      <4> DEFINE k == i + (m - c)
      <4>1. k \in (i + 1)..l /\ c + (k - i) = m
        BY <1>3, <1>4, <1>7, <3>2
      <4> HIDE DEF k
      <4>2. k \in Playing("file")
        BY <1>3, <1>5, <1>11, <4>1 DEF Playing
      <4>3. argv'[m] = args[k]
        BY <1>11, <4>1
      <4> QED
        BY <4>2, <4>3
    <3> QED
      BY <3>1, <3>2
  <2> QED
    BY <2>1, <2>2 DEF Moved
<1>15. OutputOf(output_name, l + 1)
  <2>1. \A j \in Playing("value") : j < l + 1 <=> j < i
    <3>1. ASSUME NEW j \in Playing("value") PROVE j < l + 1 /\ j < i
      <4>1. j \in 1..l /\ j # i /\ j \notin (i + 1)..l
        BY <1>4, <1>5, <1>13
      <4> QED
        BY <1>3, <4>1
    <3> QED
      BY <3>1
  <2>2. OutputOf(output_name, i)
    BY <1>2 DEF OptionsRead, i
  <2> QED
    BY <2>1, <2>2 DEF OutputOf
<1>16. \A k \in 1..((l + 1) - 1) : ~Refused(k)
  <2>1. \A k \in 1..((l + 1) - 1) : k \in 1..(i - 1) \/ k = i \/ k \in (i + 1)..l
    BY <1>3
  <2>2. \A k \in 1..(i - 1) : ~Refused(k)
    BY <1>2 DEF OptionsRead, i
  <2> QED
    BY <1>4, <1>5, <2>1, <2>2 DEF Refused
<1>17. argo' = Count(l + 1) + 1 /\ l + 1 \in 1..(l + 1) /\ \A k \in (l + 1)..l : argv'[k] = args[k]
  BY <1>1, <1>3, <1>7
<1>18. Untouched' /\ exit' = "running" /\ args' = args /\ argi' = l + 1 /\ output_name' = output_name
  BY <1>1, <1>2 DEF OptionsRead, Untouched
<1> QED
  BY <1>12, <1>14, <1>15, <1>16, <1>17, <1>18, OptionsReadNext DEF l

LEMMA ParsedNext ==
  ASSUME UNCHANGED args, ~BadOptions,
         argv' \in Seq(Argument), Len(argv') = Count(Len(args) + 1), Len(argv') # 0,
         Moved(argv', Len(args) + 1), OutputOf(output_name', Len(args) + 1)
  PROVE  Parsed'
<1> DEFINE n == Len(args) + 1
<1>1. Playing("file")' = Playing("file") /\ Playing("value")' = Playing("value") /\ ~BadOptions'
  BY SameReading
<1>2. Count(Len(args) + 1)' = Count(n)
  BY SameReading
<1>3. Moved(argv, Len(args) + 1)'
  BY SameReading DEF Moved
<1>4. OutputOf(output_name, Len(args) + 1)'
  BY <1>1 DEF OutputOf
<1> QED
  BY <1>1, <1>2, <1>3, <1>4 DEF Parsed

LEMMA NextFilePhase ==
  ASSUME phase # "options", NEW failed, NextFile(failed) \/ Exit("undefined")
  PROVE  phase' # "options"
BY DEF NextFile, Exit, Stay

\* Back in main, with the files or a complaint.
LEMMA OptionsAreParsed ==
  ASSUME OptionsInvariant, options_parsed
  PROVE  (phase' = "files" /\ Parsed') \/ TurnedDown'
<1> DEFINE l == Len(args)
           n == argo - 1
<1>1. /\ phase = "options" /\ argi > l /\ argv' = SubSeq(argv, 1, n)
      /\ \/ argo = 1 /\ Exit("1")
         \/ argo # 1 /\ phase' = "files"
      /\ UNCHANGED <<args, output_name, modules, any_failed, disk>>
  BY DEF options_parsed, sourceVars, linkVars
<1>2. OptionsRead /\ args \in Seq(Argument)
  BY <1>1 DEF OptionsInvariant
<1>3. /\ l \in Nat /\ DOMAIN args = 1..l /\ DOMAIN argv = 1..l /\ Len(argv) = l /\ argv \in Seq(Argument)
      /\ argi = l + 1 /\ Count(argi) \in Nat /\ Count(argi) <= argi - 1 /\ argo = Count(argi) + 1
  BY <1>1, ReadFacts
<1>4. n = Count(l + 1) /\ n \in Nat /\ n <= l /\ n = Cardinality(Playing("file"))
  BY <1>2, <1>3, CountFacts
<1>5. \A k \in Playing("file") : k \in 1..l
  BY <1>3 DEF Playing
<1>6. CASE argo = 1 /\ Exit("1")
  <2>1. n = 0
    BY <1>6
  <2>2. Playing("file") \in SUBSET (1..l) /\ IsFiniteSet(1..l)
    <3>1. 1 \in Int /\ l \in Int
      BY <1>3
    <3>2. IsFiniteSet(1..l)
      BY <3>1, FS_Interval
    <3> QED
      BY <1>5, <3>2
  <2>3. Playing("file") = {}
    BY <1>4, <2>1, <2>2, FS_Subset, FS_EmptySet
  <2>4. Playing("file")' = {}
    BY <1>1, <2>3, SameReading
  <2>5. Untouched'
    BY <1>1, <1>2 DEF OptionsRead, Untouched
  <2> QED
    BY <1>6, <2>4, <2>5 DEF TurnedDown, Exit
<1>7. CASE argo # 1 /\ phase' = "files"
  <2>1. ~BadOptions
    <3>1. \A k \in 1..l : ~Refused(k)
      BY <1>2, <1>3 DEF OptionsRead
    <3> QED
      BY <1>2, <3>1, BadOptionsRefused
  <2> HIDE DEF n, l
  <2>2. \A k \in 1..n : k \in 1..l /\ argv[k] \in Argument
    BY <1>3, <1>4, ElementOfSeq
  <2>3. argv' \in Seq(Argument) /\ Len(argv') = n
    BY <1>1, <1>4, <2>2, SubSeqProperties
  <2>4. \A k \in 1..n : argv'[k] = argv[k]
    BY <1>1, <1>4, <2>2, SubSeqProperties
  <2>5. Moved(argv, l + 1) /\ OutputOf(output_name, l + 1)
    BY <1>2, <1>3 DEF OptionsRead, l
  <2>6. ASSUME NEW k \in Playing("file") PROVE argv'[Count(k + 1)] = args[k] /\ k < l + 1
    <3>1. k \in 1..l /\ k < l + 1
      BY <1>3, <1>5
    <3>2. Count(k + 1) \in 1..n
      <4>1. k \in 1..(Len(args) + 1) /\ k + 1 \in 1..(Len(args) + 1) /\ Len(args) + 1 \in 1..(Len(args) + 1)
            /\ k + 1 <= Len(args) + 1 /\ k \in 1..Len(args)
        BY <1>3, <3>1 DEF l
      <4>2. Count(k + 1) = Count(k) + 1 /\ Count(k) \in Nat /\ Count(k + 1) <= Count(Len(args) + 1)
        BY <1>2, <4>1, CountStep, CountFacts DEF Playing
      <4> QED
        BY <1>4, <4>2 DEF l
    <3>3. argv[Count(k + 1)] = args[k]
      BY <2>5, <3>1 DEF Moved
    <3> QED
      BY <2>4, <3>1, <3>2, <3>3
  <2>7. \A m \in 1..Count(l + 1) : \E k \in Playing("file") : argv'[m] = args[k]
    BY <1>4, <2>4, <2>5 DEF Moved
  <2>8. Moved(argv', l + 1)
    BY <2>6, <2>7 DEF Moved
  <2>9. n # 0
    BY <1>3, <1>7 DEF n
  <2>10. OutputOf(output_name', l + 1)
    BY <1>1, <2>5
  <2> QED
    BY <1>1, <1>4, <1>7, <2>1, <2>3, <2>8, <2>9, <2>10, ParsedNext DEF l
<1> QED
  BY <1>1, <1>6, <1>7

\* What follows leaves the command line alone.
LEMMA ParsedStays ==
  ASSUME Parsed, UNCHANGED <<args, argv, output_name>>
  PROVE  Parsed'
<1>1. /\ ~BadOptions /\ argv' \in Seq(Argument) /\ Len(argv') = Count(Len(args) + 1) /\ Len(argv') # 0
      /\ Moved(argv', Len(args) + 1) /\ OutputOf(output_name', Len(args) + 1)
  BY DEF Parsed
<1> QED
  BY <1>1, ParsedNext

LEMMA AfterOptions ==
  ASSUME OptionsInvariant, phase # "options", [Next]_vars
  PROVE  phase' # "options" /\ (Parsed' \/ TurnedDown')
<1>1. Parsed \/ TurnedDown
  BY DEF OptionsInvariant
<1>2. CASE phase = "exit"
  <2>1. UNCHANGED vars
    BY <1>2 DEF Next, Ended, parse_positional, parse_short_option, parse_long_option, parse_end, options_parsed,
         AtArg, driver_compile, driver_skip, driver_import, driver_missing, driver_declare, Step,
         compiled, compile_error, file_compiled, file_failed, file_abort, link, linked, not_linked
  <2>2. UNCHANGED <<args, argv, output_name, phase, exit, modules, disk, any_failed>>
    BY <2>1 DEF vars, sourceVars, optionVars, linkVars
  <2>3. CASE Parsed
    BY <1>2, <2>2, <2>3, ParsedStays
  <2>4. CASE TurnedDown
    <3>1. BadOptions' \/ Playing("file")' = {}
      BY <2>2, <2>4, SameReading DEF TurnedDown
    <3> QED
      BY <2>2, <2>4, <3>1 DEF TurnedDown, Untouched
  <2> QED
    BY <1>1, <2>3, <2>4
<1>3. CASE phase # "exit"
  <2>1. Parsed
    BY <1>1, <1>3 DEF TurnedDown
  <2>2. UNCHANGED <<args, argv, output_name>> /\ phase' # "options"
    <3>1. CASE file_compiled \/ file_failed
      <4>1. (NextFile(any_failed) \/ NextFile(TRUE) \/ Exit("undefined")) /\ UNCHANGED <<args, argv, output_name>>
        BY <3>1 DEF file_compiled, file_failed, sourceVars, optionVars
      <4> QED
        BY <1>3, <4>1, NextFilePhase
    <3>2. CASE UNCHANGED vars
      BY <3>2 DEF vars, sourceVars, optionVars
    <3>3. CASE parse_positional \/ parse_short_option \/ parse_long_option \/ parse_end \/ options_parsed
      BY <3>3 DEF parse_positional, parse_short_option, parse_long_option, parse_end, options_parsed, AtArg
    <3>4. CASE driver_compile \/ driver_skip \/ driver_import \/ driver_missing \/ driver_declare
      BY <3>4 DEF driver_compile, driver_skip, driver_import, driver_missing, driver_declare, Step, Stay,
           sourceVars, optionVars
    <3>5. CASE compiled \/ compile_error \/ file_abort \/ link \/ linked \/ not_linked \/ Ended
      BY <3>5 DEF compiled, compile_error, file_abort, link, linked, not_linked, Ended, Stay, Exit,
           sourceVars, optionVars, vars
    <3> QED
      BY <3>1, <3>2, <3>3, <3>4, <3>5 DEF Next
  <2> QED
    BY <2>1, <2>2, ParsedStays
<1> QED
  BY <1>2, <1>3

LEMMA NextOptions ==
  ASSUME OptionsInvariant, [Next]_vars
  PROVE  OptionsInvariant'
<1>1. args' = args
  BY InputsStay
<1>2. args' \in Seq(Argument)
  BY <1>1 DEF OptionsInvariant
<1>3. CASE phase # "options"
  BY <1>2, <1>3, AfterOptions DEF OptionsInvariant
<1>4. CASE phase = "options"
  <2>1. CASE parse_positional
    <3>1. phase' = "options"
      BY <1>4, <2>1 DEF parse_positional, Stay
    <3> QED
      BY <1>2, <2>1, <3>1, ReadPositional DEF OptionsInvariant
  <2>2. CASE parse_short_option
    BY <1>2, <2>2, ReadShort DEF OptionsInvariant, TurnedDown
  <2>3. CASE parse_long_option
    BY <1>2, <2>3, ReadLong DEF OptionsInvariant, TurnedDown
  <2>4. CASE parse_end
    <3>1. phase' = "options"
      BY <1>4, <2>4 DEF parse_end, Stay
    <3> QED
      BY <1>2, <2>4, <3>1, ReadEnd DEF OptionsInvariant
  <2>5. CASE options_parsed
    BY <1>2, <2>5, OptionsAreParsed DEF OptionsInvariant, TurnedDown
  <2>6. CASE UNCHANGED vars
    <3>1. UNCHANGED <<args, argv, argi, argo, output_name, phase, exit, modules, disk, any_failed>>
      BY <2>6 DEF vars, sourceVars, optionVars, linkVars
    <3>2. OptionsRead
      BY <1>4 DEF OptionsInvariant
    <3>3. OptionsRead'
      BY <3>1, <3>2, OptionsReadNext DEF OptionsRead, Untouched
    <3> QED
      BY <1>2, <1>4, <3>1, <3>3 DEF OptionsInvariant
  <2>7. ~(\/ driver_compile \/ driver_skip \/ driver_import \/ driver_missing \/ driver_declare
          \/ compiled \/ compile_error \/ file_compiled \/ file_failed \/ file_abort
          \/ link \/ linked \/ not_linked \/ Ended)
    BY <1>4 DEF driver_compile, driver_skip, driver_import, driver_missing, driver_declare, Step,
         compiled, compile_error, file_compiled, file_failed, file_abort, link, linked, not_linked, Ended
  <2> QED
    BY <2>1, <2>2, <2>3, <2>4, <2>5, <2>6, <2>7 DEF Next
<1> QED
  BY <1>3, <1>4

LEMMA InitOptions == DriverInit => OptionsInvariant
<1> HAVE DriverInit
<1>1. args \in Seq(Argument)
  BY InitImports DEF ImportsInvariant, ProjectType
<1>2. /\ argv = args /\ argi = 1 /\ argo = 1 /\ output_name = NoArg /\ phase = "options"
      /\ Untouched /\ exit = "running"
  BY DEF DriverInit, Untouched
<1>3. Len(args) \in Nat /\ DOMAIN args = 1..Len(args) /\ Count(1) = 0 /\ Owed[0] = 0
  BY <1>1, LenProperties, CountFacts, OwedUnfolds
<1>4. \A part : \A k \in Playing(part) : k \in Nat /\ ~(k < 1)
  BY <1>3 DEF Playing
<1>5. Moved(argv, 1) /\ OutputOf(output_name, 1)
  BY <1>2, <1>3, <1>4 DEF Moved, OutputOf
<1>6. argi \in 1..(Len(args) + 1) /\ Owed[argi - 1] = 0 /\ argo = Count(argi) + 1
  BY <1>2, <1>3
<1>7. OptionsRead
  BY <1>1, <1>2, <1>5, <1>6 DEF OptionsRead
<1> QED
  BY <1>1, <1>2, <1>7 DEF OptionsInvariant

\* What has been read is moved up and what has not is where it was.
THEOREM OptionsInvariantHolds == FairSpec => []OptionsInvariant
<1>1. DriverInit => OptionsInvariant
  BY InitOptions
<1>2. OptionsInvariant /\ [Next]_vars => OptionsInvariant'
  BY NextOptions
<1> QED
  BY <1>1, <1>2, PTL DEF FairSpec

\* Whatever the order of files, options and "--", main gets all the files in
\* their order and the last output name, or options.c has complained
\* (options.c:50-96).
THEOREM FilesAreLeft == FairSpec => []PositionalsLeft
<1>1. OptionsInvariant => PositionalsLeft
  <2> SUFFICES ASSUME OptionsInvariant, phase = "files" PROVE PositionalsLeft
    BY DEF PositionalsLeft
  <2>1. Parsed /\ args \in Seq(Argument)
    BY DEF OptionsInvariant, TurnedDown
  <2>2. Len(args) \in Nat /\ \A part : \A k \in Playing(part) : k \in 1..Len(args) /\ k < Len(args) + 1
    <3>1. Len(args) \in Nat /\ DOMAIN args = 1..Len(args)
      BY <2>1, LenProperties
    <3> QED
      BY <3>1 DEF Playing
  <2>3. Len(argv) = Cardinality(Playing("file"))
    BY <2>1, CountFacts DEF Parsed
  <2>4. \A k \in Playing("file") : argv[Cardinality({ j \in Playing("file") : j <= k })] = args[k]
    <3>1. ASSUME NEW k \in Playing("file")
          PROVE  argv[Cardinality({ j \in Playing("file") : j <= k })] = args[k]
      <4>1. { j \in Playing("file") : j <= k } = FilesBefore(k + 1)
        BY <2>1, <2>2, FilesUpTo
      <4>2. argv[Count(k + 1)] = args[k]
        BY <2>1, <2>2 DEF Parsed, Moved
      <4> QED
        BY <4>1, <4>2 DEF Count
    <3> QED
      BY <3>1
  <2>5. \/ Playing("value") = {} /\ output_name = NoArg
        \/ \E k \in Playing("value") : (\A j \in Playing("value") : j <= k) /\ output_name = args[k]
    BY <2>1, <2>2 DEF Parsed, OutputOf
  <2> QED
    BY <2>1, <2>3, <2>4, <2>5 DEF PositionalsLeft, Parsed
<1> QED
  BY <1>1, OptionsInvariantHolds, PTL

-----------------------------------------------------------------------------
(* What compile makes of one file.                                         *)

\* The main file, and what is handled besides, is what main depends on.
DependInvariant ==
  /\ handled \subseteq DependsOn(MainFile)
  /\ status \in {"failed", "abort"} => NoFile \in DependsOn(MainFile)

\* What a package and the imported names make of a function's name.
Symbol(path, names, n) ==
  LET f == source[File(path)]
  IN IF n \in names \/ f.package = NoPackage \/ n = "main" THEN <<n>> ELSE <<f.package, n>>

\* A module has the bodies of the file at path, which was compiled with these
\* names from other files.
Provides(m, path, names) ==
  /\ UNION { Says(g) : g \in DependsOn(File(path)) \ {File(path)} } \subseteq names
  /\ \A n \in source[File(path)].defs :
       Symbol(path, names, n) \in DOMAIN m.defines /\ m.defines[Symbol(path, names, n)] = path

Holds(m, path) ==
  \E names :
    /\ Provides(m, path, names)
    /\ \A n \in source[File(path)].calls :
         [from |-> path, name |-> n, symbol |-> Symbol(path, names, n)] \in m.calls

\* What is in a module is there for a reason.
Sound(m) ==
  /\ \A s \in DOMAIN m.defines : m.defines[s] \in Inputs /\ Last(s) \in source[File(m.defines[s])].defs
  /\ \A c \in m.calls :
       c.from \in Inputs /\ \E names : Provides(m, c.from, names) /\ c.symbol = Symbol(c.from, names, c.name)

\* None of this depends on how far main is.
LEMMA SameProgram ==
  ASSUME UNCHANGED <<project, source, args>>
  PROVE  /\ \A f : DependsOn(f)' = DependsOn(f)
         /\ \A path : Opens(project, path)' = Opens(project, path)
         /\ Inputs' = Inputs
         /\ \A path : Compiles(path)' <=> Compiles(path)
         /\ \A m : \A path : Holds(m, path)' <=> Holds(m, path)
         /\ \A m : Sound(m)' <=> Sound(m)
<1>1. \A path : Opens(project, path)' = Opens(project, path)
  OBVIOUS
<1>3. \A f : DependsOn(f)' = DependsOn(f)
  BY SameNeeds
<1>4. Inputs' = Inputs
  <2>1. Playing("file")' = Playing("file")
    BY SameReading
  <2> QED
    BY <2>1 DEF Inputs
<1>5. \A path : File(path)' = File(path)
  BY <1>1 DEF File
<1>6. \A g : Says(g)' = Says(g)
  BY DEF Says
<1>7. \A path : Compiles(path)' <=> Compiles(path)
  BY <1>3, <1>5, <1>6 DEF Compiles
<1>8. \A path : \A names : \A n : Symbol(path, names, n)' = Symbol(path, names, n)
  BY <1>5 DEF Symbol
<1>9. \A m : \A path : \A names : Provides(m, path, names)' <=> Provides(m, path, names)
  BY <1>3, <1>5, <1>6, <1>8 DEF Provides
<1>10. \A m : \A path : Holds(m, path)' <=> Holds(m, path)
  BY <1>5, <1>8, <1>9 DEF Holds
<1>11. \A m : Sound(m)' <=> Sound(m)
  BY <1>4, <1>5, <1>8, <1>9 DEF Sound
<1> QED
  BY <1>1, <1>3, <1>4, <1>7, <1>10, <1>11

\* What the file on top of the stack imports is one that main depends on.
LEMMA TopDepends ==
  ASSUME ProjectType, PlainProject, Resolving, DependInvariant, AtImport
  PROVE  Opens(project, Filename) \in DependsOn(MainFile)
<1>1. MainFile \in DependsOn(MainFile) /\ \A g \in DependsOn(MainFile) \ {NoFile} : ImportsOf(g) \subseteq DependsOn(MainFile)
  BY MainPlaces, DependsClosed
<1>2. MainFile # NoFile => ImportsOf(MainFile) \subseteq DependsOn(MainFile)
  BY <1>1
<1> QED
  BY <1>1, <1>2, TopImports DEF DependInvariant

LEMMA DependsSame ==
  ASSUME UNCHANGED <<project, source, args, inname>>,
         handled' \subseteq DependsOn(MainFile),
         status' \in {"failed", "abort"} => NoFile \in DependsOn(MainFile)
  PROVE  DependInvariant'
<1>1. MainFile' = MainFile
  BY DEF MainFile
<1>2. \A f : DependsOn(f)' = DependsOn(f)
  BY SameProgram
<1>3. DependsOn(MainFile)' = DependsOn(MainFile)
  BY <1>1, <1>2
<1> QED
  BY <1>3 DEF DependInvariant

LEMMA DependsStep ==
  ASSUME ProjectType, PlainProject, Importing, DependInvariant,
         driver_compile \/ driver_skip \/ driver_import \/ driver_missing \/ driver_declare
  PROVE  DependInvariant' /\ UNCHANGED inname /\ status' # "compiled"
<1>0. Resolving
  BY ResolvingNow DEF driver_compile, driver_skip, driver_import, driver_missing, driver_declare, Step,
     compile, skip_import, import, import_missing, declare_import, AtImport
<1>1. UNCHANGED <<project, source, args, inname>>
  BY DEF driver_compile, driver_skip, driver_import, driver_missing, driver_declare, Step,
     compile, skip_import, import, import_missing, declare_import, sourceVars
<1>2. handled \subseteq DependsOn(MainFile)
  BY DEF DependInvariant
<1>3. CASE driver_compile
  <2>1. handled' = handled
        /\ ((status' = "failed" /\ MainFile = NoFile) \/ status' = "resolving")
    BY <1>3 DEF driver_compile, Step, compile, MainFile
  <2>2. MainFile \in DependsOn(MainFile)
    BY MainPlaces, DependsClosed
  <2> QED
    BY <1>1, <1>2, <2>1, <2>2, DependsSame
<1>4. CASE driver_skip \/ driver_declare
  <2>1. handled' = handled /\ status' = "resolving"
    BY <1>4 DEF driver_skip, driver_declare, Step, skip_import, declare_import, AtImport
  <2> QED
    BY <1>1, <1>2, <2>1, DependsSame
<1>5. CASE driver_import
  <2>1. handled' = handled \cup {Filename} /\ status' = "resolving" /\ AtImport /\ Opens(project, Filename) # NoFile
    BY <1>5 DEF driver_import, Step, import, AtImport
  <2>2. IsFile(Filename)
    BY <1>0, <2>1, FilenameFacts, PlainOpens
  <2>3. Filename \in DependsOn(MainFile)
    BY <1>0, <2>1, <2>2, TopDepends DEF IsFile
  <2> QED
    BY <1>1, <1>2, <2>1, <2>3, DependsSame
<1>6. CASE driver_missing
  <2>1. handled' = handled /\ AtImport /\ Opens(project, Filename) = NoFile /\ status' = "abort"
    BY <1>6 DEF driver_missing, Step, import_missing
  <2> QED
    BY <1>0, <1>1, <1>2, <2>1, TopDepends, DependsSame
<1> QED
  BY <1>3, <1>4, <1>5, <1>6

LEMMA FreshDepends ==
  ASSUME handled = {}, status = "start"
  PROVE  DependInvariant
BY DEF DependInvariant

\* A file has what it calls exactly if it compiles.
LEMMA CompiledFacts ==
  ASSUME ProjectType, PlainProject, Importing, DependInvariant, generate
  PROVE  /\ File(inname) = MainFile
         /\ Compiles(inname) <=> This.calls \subseteq Own \cup Imported
         /\ UNION { Says(g) : g \in DependsOn(File(inname)) \ {File(inname)} } \subseteq Imported
<1>1. Resolving /\ status = "resolving" /\ Len(frames) = 1
  BY ResolvingNow DEF generate
<1>2. DependsOn(MainFile) \ {MainFile} \subseteq Files(declared)
  BY <1>1, AllDeclared
<1>3. File(inname) = MainFile
  BY DEF File, MainFile
<1>4. \A n \in DOMAIN declared : declared[n] \in handled /\ Opens(project, declared[n]) = declared[n]
  BY <1>1 DEF Resolving, HandledInvariant, DeclaredInvariant, IsFile, Paths
<1>5. Files(declared) \subseteq DependsOn(MainFile) /\ NoFile \notin Files(declared)
  <2>1. ASSUME NEW g \in Files(declared) PROVE g \in DependsOn(MainFile) /\ g # NoFile
    <3>1. PICK n \in DOMAIN declared : g = Opens(project, declared[n])
      BY DEF Files, Paths
    <3>2. g \in handled /\ g \in DOMAIN project
      BY <1>1, <1>4, <3>1 DEF Resolving, DeclaredInvariant, IsFile
    <3> QED
      BY <3>2, NoFileIsNone DEF DependInvariant
  <2> QED
    BY <2>1
<1>6. MainFile \in DependsOn(MainFile) /\ MainFile # NoFile
  <2>1. 1 \in DOMAIN frames /\ frames[1].relative_to = inname
    BY <1>1, StackFacts, EmptySeq DEF Resolving, StackInvariant
  <2>2. IsFile(inname)
    BY <1>1, <2>1, StackFacts
  <2> QED
    BY <2>2, MainPlaces, DependsClosed, NoFileIsNone DEF IsFile, MainFile
<1>7. NoFile \notin DependsOn(MainFile)
  BY <1>2, <1>5, <1>6
<1>8. Imported = UNION { Says(g) : g \in Files(declared) } /\ Own = Says(MainFile) /\ This = source[MainFile]
  BY DEF Imported, Says, Own, This, MainFile
<1>9. UNION { Says(g) : g \in DependsOn(MainFile) } = Own \cup Imported
  BY <1>2, <1>5, <1>6, <1>8
<1>10. UNION { Says(g) : g \in DependsOn(MainFile) \ {MainFile} } \subseteq Imported
  BY <1>2, <1>8
<1>11. Compiles(inname) <=> This.calls \subseteq Own \cup Imported
  BY <1>3, <1>7, <1>8, <1>9 DEF Compiles
<1> QED
  BY <1>3, <1>10, <1>11

-----------------------------------------------------------------------------
(* Modules.                                                                *)

LEMMA LastOfSymbol ==
  ASSUME NEW path, NEW names, NEW n
  PROVE  Last(Symbol(path, names, n)) = n
<1> DEFINE p == source[File(path)].package
<1>1. Symbol(path, names, n) = <<n>> \/ Symbol(path, names, n) = <<p, n>>
  BY DEF Symbol
<1>2. Last(<<n>>) = n /\ Last(<<p, n>>) = n
  BY DEF Last
<1> QED
  BY <1>1, <1>2

LEMMA ModuleFacts ==
  ASSUME File(inname) = MainFile, inname \in Inputs,
         UNION { Says(g) : g \in DependsOn(File(inname)) \ {File(inname)} } \subseteq Imported
  PROVE  Holds(ModuleOf, inname) /\ Sound(ModuleOf)
<1> DEFINE m == ModuleOf
           S == { BodySymbol(n) : n \in This.defs }
           C == { [from |-> inname, name |-> n, symbol |-> SymbolOf(n)] : n \in This.calls }
           names == Imported
<1>1. m.defines = [s \in S |-> inname] /\ m.calls = C
  BY DEF ModuleOf
<1> HIDE DEF m
<1>2. This = source[File(inname)]
  BY DEF This, MainFile
<1>3. \A n : SymbolOf(n) = Symbol(inname, names, n) /\ BodySymbol(n) = Symbol(inname, names, n)
  BY <1>2 DEF SymbolOf, BodySymbol, Symbol
<1>4. Provides(m, inname, names)
  <2>1. \A n \in source[File(inname)].defs : Symbol(inname, names, n) \in S
    BY <1>2, <1>3
  <2> HIDE DEF S, names
  <2>2. \A n \in source[File(inname)].defs :
          Symbol(inname, names, n) \in DOMAIN m.defines /\ m.defines[Symbol(inname, names, n)] = inname
    BY <1>1, <2>1
  <2> QED
    BY <2>2 DEF Provides, names
<1>5. Holds(m, inname)
  <2>1. ASSUME NEW n \in source[File(inname)].calls
        PROVE  [from |-> inname, name |-> n, symbol |-> Symbol(inname, names, n)] \in m.calls
    <3>1. [from |-> inname, name |-> n, symbol |-> SymbolOf(n)] \in C
      BY <1>2
    <3> HIDE DEF C, names
    <3> QED
      BY <1>1, <1>3, <3>1
  <2> HIDE DEF names
  <2> QED
    BY <1>4, <2>1 DEF Holds
<1>6. Sound(m)
  <2>1. ASSUME NEW s \in DOMAIN m.defines
        PROVE  m.defines[s] \in Inputs /\ Last(s) \in source[File(m.defines[s])].defs
    <3>1. s \in S /\ m.defines[s] = inname
      BY <1>1
    <3>2. PICK n \in This.defs : s = BodySymbol(n)
      BY <3>1
    <3>3. Last(s) = n
      BY <1>3, <3>2, LastOfSymbol
    <3> QED
      BY <1>2, <3>1, <3>2, <3>3
  <2>2. ASSUME NEW c \in m.calls
        PROVE  c.from \in Inputs /\ \E ns : Provides(m, c.from, ns) /\ c.symbol = Symbol(c.from, ns, c.name)
    <3>1. PICK n \in This.calls : c = [from |-> inname, name |-> n, symbol |-> SymbolOf(n)]
      BY <1>1, <2>2
    <3>2. c.from = inname /\ c.name = n /\ c.symbol = SymbolOf(n)
      BY <3>1
    <3>3. c.symbol = Symbol(c.from, names, c.name)
      BY <1>3, <3>2
    <3> HIDE DEF names
    <3> QED
      BY <1>4, <3>2, <3>3
  <2> QED
    BY <2>1, <2>2 DEF Sound
<1> QED
  BY <1>5, <1>6 DEF m

\* What LLVM makes of two modules that define nothing twice.
LEMMA LinkedFacts ==
  ASSUME NEW m, NEW n, ~Clash(m, n)
  PROVE  /\ \A path : Holds(m, path) \/ Holds(n, path) => Holds(Linked(m, n), path)
         /\ Sound(m) /\ Sound(n) => Sound(Linked(m, n))
<1> DEFINE b == Linked(m, n)
<1>1. /\ DOMAIN b.defines = DOMAIN m.defines \cup DOMAIN n.defines
      /\ \A s \in DOMAIN b.defines : b.defines[s] = IF s \in DOMAIN m.defines THEN m.defines[s] ELSE n.defines[s]
      /\ b.calls = m.calls \cup n.calls
  BY DEF Linked
<1>2. \A s \in DOMAIN n.defines : s \notin DOMAIN m.defines
  BY DEF Clash
<1> HIDE DEF b
<1>3. \A path : \A names : Provides(m, path, names) \/ Provides(n, path, names) => Provides(b, path, names)
  BY <1>1, <1>2 DEF Provides
<1>4. \A path : Holds(m, path) \/ Holds(n, path) => Holds(b, path)
  BY <1>1, <1>3 DEF Holds
<1>5. Sound(m) /\ Sound(n) => Sound(b)
  <2> SUFFICES ASSUME Sound(m), Sound(n) PROVE Sound(b)
    OBVIOUS
  <2>1. ASSUME NEW s \in DOMAIN b.defines
        PROVE  b.defines[s] \in Inputs /\ Last(s) \in source[File(b.defines[s])].defs
    BY <1>1 DEF Sound
  <2>2. ASSUME NEW c \in b.calls
        PROVE  c.from \in Inputs /\ \E ns : Provides(b, c.from, ns) /\ c.symbol = Symbol(c.from, ns, c.name)
    BY <1>1, <1>3 DEF Sound
  <2> QED
    BY <2>1, <2>2 DEF Sound
<1> QED
  BY <1>4, <1>5 DEF b

-----------------------------------------------------------------------------
(***************************************************************************)
(* The invariant: while files are compiled, every one of them that compiles *)
(* has left its module in memory and on disk, and the others are counted as *)
(* failed; while modules are linked, every file is in one of them.          *)
(***************************************************************************)
Path(k) == argv[k].text

OnDisk == \A n \in DOMAIN disk : \E path \in Inputs : Compiles(path) /\ n = OutName(path)

\* The module has what the k-th file says, and the file has left its own.
Has(m, k) == Holds(m, Path(k)) /\ Sound(m) /\ OutName(Path(k)) \in DOMAIN disk

Compiling ==
  /\ exit = "running" /\ OnDisk /\ DependInvariant
  /\ LET at == IF status = "compiled" THEN Len(modules) ELSE Len(modules) + 1
     IN at \in DOMAIN argv /\ inname = Path(at)
  /\ \A k \in DOMAIN modules : Compiles(Path(k)) => Has(modules[k], k)
  /\ any_failed <=> \E k \in DOMAIN modules : ~Compiles(Path(k))

Linking ==
  /\ exit = "running" /\ OnDisk /\ Len(modules) # 0
  /\ \A j \in DOMAIN modules : Sound(modules[j])
  /\ \A k \in DOMAIN argv : Compiles(Path(k)) /\ \E j \in DOMAIN modules : Has(modules[j], k)

Reported ==
  IF exit = "0"
  THEN \A k \in DOMAIN argv : /\ Compiles(Path(k)) /\ OutName(Path(k)) \in DOMAIN disk
                              /\ output_name # NoArg => Has(disk[output_name], k)
  ELSE /\ OnDisk
       /\ \/ \E k \in DOMAIN argv : ~Compiles(Path(k))
          \/ output_name # NoArg /\ \E j, k \in DOMAIN modules : j # k /\ Clash(modules[j], modules[k])

MainInvariant ==
  PlainProject =>
    /\ phase \in {"options", "files", "link", "exit"}
    /\ phase = "files" => Compiling
    /\ phase = "link" => Linking
    /\ phase = "exit" => TurnedDown \/ Reported

\* The files of the command line are what argv is left with.
LEMMA InputsArgv ==
  ASSUME Parsed, args \in Seq(Argument)
  PROVE  /\ \A k \in DOMAIN argv : Path(k) \in Inputs
         /\ \A path \in Inputs : \E k \in DOMAIN argv : path = Path(k)
         /\ DOMAIN argv = 1..Len(argv) /\ Len(argv) \in Nat \ {0}
<1> DEFINE n == Len(args) + 1
<1>1. DOMAIN argv = 1..Len(argv) /\ Len(argv) \in Nat \ {0} /\ Len(argv) = Count(n) /\ Moved(argv, n)
  BY LenProperties DEF Parsed
<1>2. Len(args) \in Nat /\ DOMAIN args = 1..Len(args)
  BY LenProperties
<1>3. ASSUME NEW k \in DOMAIN argv PROVE Path(k) \in Inputs
  <2>1. PICK j \in Playing("file") : argv[k] = args[j]
    BY <1>1 DEF Moved
  <2> QED
    BY <2>1 DEF Path, Inputs
<1>4. ASSUME NEW path \in Inputs PROVE \E k \in DOMAIN argv : path = Path(k)
  <2>1. PICK j \in Playing("file") : path = args[j].text
    BY DEF Inputs
  <2>2. j \in 1..Len(args) /\ Part(j) = "file"
    BY <1>2 DEF Playing
  <2>3. /\ j \in 1..n /\ j + 1 \in 1..n /\ n \in 1..n /\ j + 1 <= n /\ j < n
    BY <1>2, <2>2
  <2>4. Count(j + 1) = Count(j) + 1 /\ Count(j) \in Nat /\ Count(j + 1) <= Count(n)
    BY <2>2, <2>3, CountStep, CountFacts
  <2>5. Count(j + 1) \in DOMAIN argv
    BY <1>1, <2>4
  <2>6. argv[Count(j + 1)] = args[j]
    BY <1>1, <2>3 DEF Moved
  <2> QED
    BY <2>1, <2>5, <2>6 DEF Path
<1> QED
  BY <1>1, <1>3, <1>4

LEMMA SameFiles ==
  ASSUME UNCHANGED <<project, source, args, argv>>
  PROVE  /\ \A k : Path(k)' = Path(k)
         /\ \A k : Compiles(Path(k))' <=> Compiles(Path(k))
         /\ \A m : Sound(m)' <=> Sound(m)
         /\ disk' = disk => (OnDisk' <=> OnDisk) /\ \A m : \A k : Has(m, k)' <=> Has(m, k)
         /\ \A m : \A k : Has(m, k) /\ DOMAIN disk \subseteq DOMAIN disk' => Has(m, k)'
<1>1. \A k : Path(k)' = Path(k)
  BY DEF Path
<1>2. \A k : Compiles(Path(k))' <=> Compiles(Path(k))
  BY <1>1, SameProgram
<1>3. \A m : Sound(m)' <=> Sound(m)
  BY SameProgram
<1>4. \A m : \A k : Holds(m, Path(k))' <=> Holds(m, Path(k))
  BY <1>1, SameProgram
<1>5. \A m : \A k : Has(m, k) /\ DOMAIN disk \subseteq DOMAIN disk' => Has(m, k)'
  BY <1>1, <1>3, <1>4 DEF Has
<1>6. ASSUME disk' = disk PROVE (OnDisk' <=> OnDisk) /\ \A m : \A k : Has(m, k)' <=> Has(m, k)
  <2>1. Inputs' = Inputs /\ \A path : Compiles(path)' <=> Compiles(path)
    BY SameProgram
  <2>2. OnDisk' <=> OnDisk
    BY <1>6, <2>1 DEF OnDisk
  <2> QED
    BY <1>1, <1>3, <1>4, <1>6, <2>2 DEF Has
<1> QED
  BY <1>1, <1>2, <1>3, <1>5, <1>6

LEMMA SourceStays ==
  ASSUME [Next]_vars
  PROVE  UNCHANGED <<project, source, args>>
<1>1. UNCHANGED source
  BY DEF Next, vars, Ended, parse_positional, parse_short_option, parse_long_option, parse_end, options_parsed,
     driver_compile, driver_skip, driver_import, driver_missing, driver_declare, Step,
     compiled, compile_error, file_compiled, file_failed, file_abort, link, linked, not_linked, sourceVars
<1> QED
  BY <1>1, InputsStay

-----------------------------------------------------------------------------
(* Compiling the files.                                                    *)

\* The last thing that is read of the command line is followed by its first file.
LEMMA StartCompiling ==
  ASSUME OptionsInvariant, Importing, options_parsed, phase' = "files", Parsed'
  PROVE  Compiling'
<1>1. /\ phase = "options" /\ argv' = SubSeq(argv, 1, argo - 1) /\ argo # 1 /\ inname' = argv[1].text
      /\ UNCHANGED <<frames, handled, declared, status, exit, modules, any_failed, disk>>
  BY DEF options_parsed, Exit, sourceVars, linkVars
<1>2. exit = "running" /\ modules = <<>> /\ disk = <<>> /\ any_failed = FALSE
  BY <1>1 DEF OptionsInvariant, OptionsRead, Untouched
<1>3. status = "start" /\ handled = {}
  BY <1>1 DEF Importing, ArgvInvariant, ImportsState, Underway, StackInvariant, Fresh
<1>4. /\ Len(args) \in Nat /\ argv \in Seq(Argument) /\ Len(argv) = Len(args)
      /\ argo - 1 \in 1..Len(args) /\ DOMAIN argv = 1..Len(args)
  <2>1. argi \in Nat \ {0} /\ argi <= Len(args) + 1 /\ argo = Count(argi) + 1 /\ Count(argi) \in Nat /\ Count(argi) <= argi - 1
    BY <1>1, ReadFacts
  <2> QED
    BY <1>1, <2>1, ReadFacts
<1>5. argv'[1] = argv[1] /\ DOMAIN argv' = 1..(argo - 1)
  <2> DEFINE n == argo - 1
  <2> HIDE DEF n
  <2>1. n \in 1..Len(args) /\ argv' = SubSeq(argv, 1, n)
    BY <1>1, <1>4 DEF n
  <2>2. \A k \in 1..n : argv[k] \in Argument
    BY <1>4, <2>1, ElementOfSeq
  <2>3. argv' \in Seq(Argument) /\ Len(argv') = n /\ \A k \in 1..n : argv'[k] = argv[k]
    BY <2>1, <2>2, SubSeqProperties
  <2>4. DOMAIN argv' = 1..n
    BY <2>3, LenProperties
  <2> QED
    BY <2>1, <2>3, <2>4 DEF n
<1>6. 1 \in DOMAIN argv' /\ inname' = Path(1)'
  BY <1>1, <1>4, <1>5 DEF Path
<1>7. DependInvariant'
  <2>1. (handled = {} /\ status = "start" => DependInvariant)'
    BY FreshDepends, PTL
  <2> QED
    BY <1>1, <1>3, <2>1
<1>8. Len(modules') + 1 = 1 /\ DOMAIN modules' = {} /\ DOMAIN disk' = {} /\ status' = "start"
      /\ exit' = "running" /\ any_failed' = FALSE
  BY <1>1, <1>2, <1>3
<1>9. OnDisk'
  BY <1>8 DEF OnDisk
<1> QED
  BY <1>6, <1>7, <1>8, <1>9 DEF Compiling

\* What has been compiled stays so while imports are resolved.
LEMMA ResolvingStep ==
  ASSUME ProjectType, PlainProject, Importing, Compiling,
         driver_compile \/ driver_skip \/ driver_import \/ driver_missing \/ driver_declare
  PROVE  Compiling' /\ phase' = "files"
<1>1. /\ UNCHANGED <<project, source, args, argv, modules, any_failed, disk, exit>> /\ phase' = "files"
      /\ status \in {"start", "resolving"}
  BY DEF driver_compile, driver_skip, driver_import, driver_missing, driver_declare, Step, Stay,
     compile, skip_import, import, import_missing, declare_import, AtImport, sourceVars, optionVars, linkVars
<1>2. DependInvariant' /\ inname' = inname /\ status' # "compiled"
  BY DependsStep DEF Compiling
<1>3. exit' = "running" /\ OnDisk'
  BY <1>1, SameFiles DEF Compiling
<1>4. (Len(modules) + 1)' \in DOMAIN argv' /\ inname' = Path(Len(modules) + 1)'
  BY <1>1, <1>2 DEF Compiling, Path
<1>5. \A k \in DOMAIN modules' : Compiles(Path(k))' => Has(modules[k], k)'
  BY <1>1, SameFiles DEF Compiling
<1>6. any_failed' <=> \E k \in DOMAIN modules' : ~Compiles(Path(k))'
  BY <1>1, SameFiles DEF Compiling
<1> QED
  BY <1>1, <1>2, <1>3, <1>4, <1>5, <1>6 DEF Compiling, Has

LEMMA AppendFacts ==
  ASSUME NEW s, \E S : s \in Seq(S), NEW x
  PROVE  /\ Len(s) \in Nat /\ DOMAIN s = 1..Len(s)
         /\ Len(Append(s, x)) = Len(s) + 1 /\ DOMAIN Append(s, x) = 1..(Len(s) + 1)
         /\ \A k \in 1..Len(s) : Append(s, x)[k] = s[k]
         /\ Append(s, x)[Len(s) + 1] = x
<1>1. PICK S : s \in Seq(S)
  OBVIOUS
<1> DEFINE T == S \cup {x}
<1>2. s \in Seq(T) /\ x \in T
  BY <1>1, SeqMonotonic
<1> HIDE DEF T
<1>3. Len(s) \in Nat /\ DOMAIN s = 1..Len(s)
  BY <1>1, LenProperties
<1>4. Append(s, x) \in Seq(T) /\ Len(Append(s, x)) = Len(s) + 1
      /\ (\A k \in 1..Len(s) : Append(s, x)[k] = s[k]) /\ Append(s, x)[Len(s) + 1] = x
  BY <1>2, AppendProperties
<1>5. DOMAIN Append(s, x) = 1..(Len(s) + 1)
  BY <1>4, LenProperties
<1> QED
  BY <1>3, <1>4, <1>5

\* Code for a file that has what it calls: a module more, in memory and on disk.
LEMMA CompiledKeeps ==
  ASSUME ProjectType, PlainProject, Importing, args \in Seq(Argument), Parsed,
         Compiling, compiled
  PROVE  Compiling' /\ phase' = "files"
<1> DEFINE n == Len(modules) + 1
<1>1. /\ generate /\ This.calls \subseteq Own \cup Imported /\ phase' = "files"
      /\ modules' = Append(modules, ModuleOf) /\ disk' = Written(OutName(inname), ModuleOf)
      /\ UNCHANGED <<source, args, argv, any_failed, exit>>
  BY DEF compiled, Stay, sourceVars, optionVars
<1>2. UNCHANGED <<project, inname, handled>> /\ status' = "compiled" /\ status = "resolving"
  BY <1>1 DEF generate
<1>3. n \in DOMAIN argv /\ inname = Path(n) /\ DependInvariant
  BY <1>2 DEF Compiling
<1>4. /\ Len(modules) \in Nat /\ DOMAIN modules = 1..Len(modules)
      /\ Len(modules') = n /\ DOMAIN modules' = 1..n
      /\ (\A k \in 1..Len(modules) : modules'[k] = modules[k]) /\ modules'[n] = ModuleOf
  BY <1>1, AppendFacts DEF Importing, ArgvInvariant
<1>5. Compiles(inname) /\ Holds(ModuleOf, inname) /\ Sound(ModuleOf)
  <2>1. /\ File(inname) = MainFile /\ Compiles(inname)
        /\ UNION { Says(g) : g \in DependsOn(File(inname)) \ {File(inname)} } \subseteq Imported
    BY <1>1, <1>3, CompiledFacts
  <2>2. inname \in Inputs
    BY <1>3, InputsArgv
  <2> QED
    BY <2>1, <2>2, ModuleFacts
<1> HIDE DEF n
<1>6. DOMAIN disk' = DOMAIN disk \cup {OutName(inname)}
  BY <1>1 DEF Written
<1>7. OnDisk'
  <2>1. Inputs' = Inputs /\ \A path : Compiles(path)' <=> Compiles(path)
    BY <1>1, <1>2, SameProgram
  <2>2. inname \in Inputs
    BY <1>3, InputsArgv
  <2>3. \A m \in DOMAIN disk' : \E path \in Inputs : Compiles(path) /\ m = OutName(path)
    BY <1>5, <1>6, <2>2 DEF Compiling, OnDisk
  <2> QED
    BY <2>1, <2>3 DEF OnDisk
<1>8. DependInvariant'
  BY <1>1, <1>2, <1>3, DependsSame DEF DependInvariant
<1>9. Len(modules') \in DOMAIN argv' /\ inname' = Path(Len(modules))'
  BY <1>1, <1>2, <1>3, <1>4 DEF Path
<1>10. ASSUME NEW CONSTANT k, k \in DOMAIN modules', Compiles(Path(k))' PROVE Has(modules[k], k)'
  <2>1. CASE k = n
    <3>1. Path(k)' = inname /\ (modules[k])' = ModuleOf
      BY <1>1, <1>3, <1>4, <2>1 DEF Path
    <3>2. \A m : \A path : (Holds(m, path)' <=> Holds(m, path)) /\ (Sound(m)' <=> Sound(m))
      BY <1>1, <1>2, SameProgram
    <3>3. Holds(modules[k], Path(k))' /\ Sound(modules[k])'
      BY <1>5, <3>1, <3>2
    <3>4. OutName(Path(k))' \in DOMAIN disk'
      BY <1>6, <3>1
    <3> QED
      BY <3>3, <3>4 DEF Has
  <2>2. CASE k # n
    <3>1. k \in DOMAIN modules /\ (modules[k])' = modules[k]
      BY <1>4, <1>10, <2>2 DEF n
    <3>2. Compiles(Path(k))
      BY <1>1, <1>2, <1>10, SameFiles
    <3>3. Has(modules[k], k)
      BY <3>1, <3>2 DEF Compiling
    <3> QED
      BY <1>1, <1>2, <1>6, <3>1, <3>3, SameFiles
  <2> QED
    BY <2>1, <2>2
<1>11. any_failed' <=> \E k \in DOMAIN modules' : ~Compiles(Path(k))'
  <2>1. \A k : Compiles(Path(k))' <=> Compiles(Path(k))
    BY <1>1, <1>2, SameFiles
  <2>2. \A k : k \in DOMAIN modules' <=> k \in DOMAIN modules \/ k = n
    BY <1>4 DEF n
  <2>3. any_failed <=> \E k \in DOMAIN modules : ~Compiles(Path(k))
    BY DEF Compiling
  <2> QED
    BY <1>1, <1>3, <1>5, <2>1, <2>2, <2>3
<1> QED
  BY <1>1, <1>2, <1>7, <1>8, <1>9, <1>10, <1>11 DEF Compiling

\* A file that lacks something stops the compiler.
LEMMA FileStops ==
  ASSUME ProjectType, PlainProject, Importing, Compiling, compile_error \/ file_abort
  PROVE  Reported' /\ phase' = "exit"
<1>1. /\ UNCHANGED <<project, source, args, argv, disk>> /\ phase' = "exit" /\ exit' # "0"
      /\ \/ generate /\ ~ This.calls \subseteq Own \cup Imported /\ UNCHANGED <<source, args>>
         \/ status = "abort"
  <2>1. CASE compile_error
    <3>1. generate /\ UNCHANGED project
      BY <2>1 DEF compile_error, generate
    <3> QED
      BY <2>1, <3>1 DEF compile_error, Exit, sourceVars, optionVars, linkVars
  <2>2. CASE file_abort
    BY <2>2 DEF file_abort, Exit, sourceVars, optionVars, linkVars, importVars
  <2> QED
    BY <2>1, <2>2
<1>2. DependInvariant /\ OnDisk /\ \E n \in DOMAIN argv : inname = Path(n)
  BY <1>1 DEF Compiling, generate
<1>3. ~Compiles(inname)
  <2>1. CASE generate /\ ~ This.calls \subseteq Own \cup Imported /\ UNCHANGED <<source, args>>
    BY <1>2, <2>1, CompiledFacts
  <2>2. CASE status = "abort"
    BY <1>2, <2>2 DEF DependInvariant, Compiles, File, MainFile
  <2> QED
    BY <1>1, <2>1, <2>2
<1>4. PICK n \in DOMAIN argv : inname = Path(n)
  BY <1>2
<1>5. n \in DOMAIN argv' /\ ~Compiles(Path(n))' /\ OnDisk'
  BY <1>1, <1>2, <1>3, <1>4, SameFiles
<1> QED
  BY <1>1, <1>5 DEF Reported

\* On from a file, whether it was compiled or not.
LEMMA FileDone ==
  ASSUME args \in Seq(Argument), Parsed, UNCHANGED <<project, source, args, argv, output_name>>,
         exit = "running", phase = "files", OnDisk', NEW failed, NextFile(failed),
         Len(modules') \in DOMAIN argv, DOMAIN modules' = 1..Len(modules'),
         \A k \in DOMAIN modules' : Compiles(Path(k))' => Has(modules[k], k)',
         any_failed' <=> \E k \in DOMAIN modules' : ~Compiles(Path(k))',
         failed <=> any_failed'
  PROVE  \/ phase' = "files" /\ Compiling'
         \/ phase' = "link" /\ Linking'
         \/ phase' = "exit" /\ Reported'
<1>1. DOMAIN argv = 1..Len(argv) /\ Len(argv) \in Nat \ {0}
  BY InputsArgv
<1>2. Len(modules') \in Nat \ {0} /\ Len(modules') <= Len(argv)
  BY <1>1
<1>3. CASE Len(modules') < Len(argv)
  <2> DEFINE n == Len(modules') + 1
  <2>1. /\ inname' = argv[n].text /\ status' = "start" /\ handled' = {}
        /\ phase' = "files" /\ exit' = "running"
    BY <1>3 DEF NextFile, Take, Stay
  <2>2. (Len(modules) + 1)' \in DOMAIN argv' /\ inname' = Path(Len(modules) + 1)'
    BY <1>1, <1>2, <1>3, <2>1 DEF Path
  <2>3. DependInvariant'
    <3>1. (handled = {} /\ status = "start" => DependInvariant)'
      BY FreshDepends, PTL
    <3> QED
      BY <2>1, <3>1
  <2>4. Compiling'
    BY <2>1, <2>2, <2>3 DEF Compiling
  <2> QED
    BY <2>1, <2>4
<1>4. CASE ~(Len(modules') < Len(argv)) /\ failed
  <2>1. phase' = "exit" /\ exit' = "1" /\ exit' # "0"
    BY <1>4 DEF NextFile, Exit
  <2>2. \E k \in DOMAIN argv' : ~Compiles(Path(k))'
    BY <1>1, <1>2, <1>4
  <2>3. Reported'
    BY <2>1, <2>2 DEF Reported
  <2> QED
    BY <2>1, <2>3
<1>5. CASE ~(Len(modules') < Len(argv)) /\ ~failed
  <2>1. phase' = "link" /\ exit' = "running" /\ Len(modules') # 0 /\ DOMAIN modules' = DOMAIN argv'
    <3>1. phase' = "link" /\ exit' = "running"
      BY <1>5, Zenon DEF NextFile
    <3>2. ~(Len(modules') < Len(argv))
      BY <1>5
    <3>3. Len(modules') = Len(argv)
      <4>1. \A i, j \in Nat : i <= j /\ ~(i < j) => i = j
        OBVIOUS
      <4> QED
        BY <1>1, <1>2, <3>2, <4>1
    <3> QED
      BY <1>1, <1>2, <3>1, <3>3
  <2>2. \A k \in DOMAIN modules' : Compiles(Path(k))' /\ Has(modules[k], k)'
    BY <1>5
  <2>3. \A k \in DOMAIN modules' : Sound(modules[k])'
    BY <2>2 DEF Has
  <2>4. Linking'
    BY <2>1, <2>2, <2>3 DEF Linking
  <2> QED
    BY <2>1, <2>4
<1> QED
  BY <1>3, <1>4, <1>5

LEMMA FileCompiled ==
  ASSUME Importing, args \in Seq(Argument), Parsed, Compiling, file_compiled
  PROVE  \/ phase' = "files" /\ Compiling'
         \/ phase' = "link" /\ Linking'
         \/ phase' = "exit" /\ Reported'
<1>1. /\ phase = "files" /\ status = "compiled" /\ NextFile(any_failed)
      /\ UNCHANGED <<source, args, argv, output_name, modules, any_failed, disk>>
  BY DEF file_compiled, sourceVars, optionVars, linkVars
<1>2. UNCHANGED project
  BY <1>1 DEF NextFile, importVars
<1>3. Len(modules) \in DOMAIN argv /\ exit = "running" /\ OnDisk
  BY <1>1 DEF Compiling
<1>4. DOMAIN modules = 1..Len(modules)
  BY AppendFacts DEF Importing, ArgvInvariant
<1>5. OnDisk'
  BY <1>1, <1>2, <1>3, SameFiles
<1>6. \A k \in DOMAIN modules' : Compiles(Path(k))' => Has(modules[k], k)'
  BY <1>1, <1>2, SameFiles DEF Compiling
<1>7. any_failed' <=> \E k \in DOMAIN modules' : ~Compiles(Path(k))'
  BY <1>1, <1>2, SameFiles DEF Compiling
<1>8. Len(modules') \in DOMAIN argv /\ DOMAIN modules' = 1..Len(modules') /\ (any_failed <=> any_failed')
  BY <1>1, <1>3, <1>4
<1> DEFINE failed == any_failed
<1> HIDE DEF failed
<1>9. NextFile(failed) /\ (failed <=> any_failed')
  BY <1>1, <1>8 DEF failed
<1> QED
  BY <1>1, <1>2, <1>3, <1>5, <1>6, <1>7, <1>8, <1>9, FileDone

LEMMA FileFailed ==
  ASSUME Importing, args \in Seq(Argument), Parsed, Compiling, file_failed
  PROVE  \/ phase' = "files" /\ Compiling'
         \/ phase' = "link" /\ Linking'
         \/ phase' = "exit" /\ Reported'
<1>1. /\ phase = "files" /\ status = "failed" /\ (NextFile(TRUE) \/ (Exit("undefined") /\ UNCHANGED importVars))
      /\ any_failed' = TRUE /\ modules' = Append(modules, NoModule)
      /\ UNCHANGED <<source, args, argv, output_name, disk>>
  BY DEF file_failed, sourceVars, optionVars
<1>2. UNCHANGED project
  BY <1>1 DEF NextFile, importVars
<1>3. /\ Len(modules) + 1 \in DOMAIN argv /\ inname = Path(Len(modules) + 1)
      /\ exit = "running" /\ OnDisk /\ DependInvariant
  BY <1>1 DEF Compiling
<1>4. /\ Len(modules) \in Nat /\ DOMAIN modules = 1..Len(modules)
      /\ Len(modules') = Len(modules) + 1 /\ DOMAIN modules' = 1..(Len(modules) + 1)
      /\ \A k \in 1..Len(modules) : modules'[k] = modules[k]
  BY <1>1, AppendFacts DEF Importing, ArgvInvariant
<1>5. PICK n \in DOMAIN argv : n = Len(modules) + 1 /\ inname = Path(n)
  BY <1>3
<1>6. ~Compiles(Path(n))
  BY <1>1, <1>3, <1>5 DEF DependInvariant, Compiles, File, MainFile
<1>7. OnDisk' /\ ~Compiles(Path(n))'
  BY <1>1, <1>2, <1>3, <1>6, SameFiles
<1>8. ASSUME NEW CONSTANT k, k \in DOMAIN modules', Compiles(Path(k))' PROVE Has(modules[k], k)'
  <2>1. k # n
    BY <1>7, <1>8
  <2>2. k \in DOMAIN modules /\ (modules[k])' = modules[k]
    BY <1>4, <1>5, <1>8, <2>1
  <2>3. Compiles(Path(k))
    BY <1>1, <1>2, <1>8, SameFiles
  <2>4. Has(modules[k], k)
    BY <2>2, <2>3 DEF Compiling
  <2> QED
    BY <1>1, <1>2, <2>2, <2>4, SameFiles
<1>9. n \in DOMAIN modules' /\ Len(modules') = n /\ DOMAIN modules' = 1..Len(modules')
  BY <1>4, <1>5
<1>10. any_failed' <=> \E k \in DOMAIN modules' : ~Compiles(Path(k))'
  BY <1>1, <1>7, <1>9
<1>11. CASE Exit("undefined")
  <2>1. phase' = "exit" /\ exit' # "0" /\ n \in DOMAIN argv'
    BY <1>1, <1>11 DEF Exit
  <2>2. Reported'
    BY <1>7, <2>1 DEF Reported
  <2> QED
    BY <2>1, <2>2
<1>12. CASE NextFile(TRUE)
  <2> DEFINE failed == TRUE
  <2>1. failed <=> any_failed'
    BY <1>1
  <2> HIDE DEF failed
  <2>2. NextFile(failed)
    BY <1>12 DEF failed
  <2> QED
    BY <1>1, <1>2, <1>3, <1>5, <1>7, <1>8, <1>9, <1>10, <2>1, <2>2, FileDone
<1> QED
  BY <1>1, <1>11, <1>12

-----------------------------------------------------------------------------
(* Linking.                                                                *)

\* The sequence of modules with its first two linked.
LEMMA LinkedModules ==
  ASSUME NEW s, \E S : s \in Seq(S), Len(s) > 1, NEW m
  PROVE  LET r == <<m>> \o SubSeq(s, 3, Len(s))
         IN /\ DOMAIN r = 1..(Len(s) - 1) /\ Len(r) = Len(s) - 1 /\ Len(s) \in Nat /\ DOMAIN s = 1..Len(s)
            /\ r[1] = m /\ \A j \in 2..(Len(s) - 1) : r[j] = s[j + 1]
<1> DEFINE h == <<m>>
           t == SubSeq(s, 3, Len(s))
           r == h \o t
<1>1. PICK S : s \in Seq(S)
  OBVIOUS
<1>2. Len(s) \in Nat /\ DOMAIN s = 1..Len(s) /\ \A k \in 1..Len(s) : s[k] \in S
  BY <1>1, LenProperties
<1>3. /\ t \in Seq(S) /\ Len(t) = (IF 3 <= Len(s) THEN Len(s) - 3 + 1 ELSE 0)
      /\ \A k \in 1..(Len(s) - 3 + 1) : t[k] = s[3 + k - 1]
  BY <1>2, SubSeqProperties
<1>4. Len(t) = Len(s) - 2 /\ \A k \in 1..(Len(s) - 2) : t[k] = s[k + 2]
  BY <1>2, <1>3
<1> DEFINE T == S \cup {m}
<1>5. h \in Seq(T) /\ t \in Seq(T) /\ Len(h) = 1 /\ h[1] = m
  BY <1>3, SeqMonotonic
<1> HIDE DEF h, t, T
<1>6. r \in Seq(T) /\ Len(r) = Len(h) + Len(t)
      /\ \A k \in 1..(Len(h) + Len(t)) : r[k] = IF k <= Len(h) THEN h[k] ELSE t[k - Len(h)]
  BY <1>5, ConcatProperties
<1> HIDE DEF r
<1>7. Len(r) = Len(s) - 1 /\ DOMAIN r = 1..(Len(s) - 1)
  BY <1>2, <1>4, <1>5, <1>6, LenProperties
<1>8. r[1] = m
  BY <1>2, <1>4, <1>5, <1>6
<1>9. ASSUME NEW j \in 2..(Len(s) - 1) PROVE r[j] = s[j + 1]
  <2>1. j \in 1..(Len(h) + Len(t)) /\ ~(j <= Len(h)) /\ j - Len(h) = j - 1 /\ j - 1 \in 1..(Len(s) - 2) /\ (j - 1) + 2 = j + 1
    BY <1>2, <1>4, <1>5
  <2> QED
    BY <1>4, <1>6, <2>1
<1> QED
  BY <1>2, <1>7, <1>8, <1>9 DEF r, h, t

LEMMA LinkKeeps ==
  ASSUME Importing, Linking, link
  PROVE  (phase' = "link" /\ Linking') \/ (phase' = "exit" /\ Reported')
<1> DEFINE a == modules[1]
           b == modules[2]
           m == Linked(a, b)
<1>1. /\ phase = "link" /\ output_name # NoArg /\ Len(modules) > 1
      /\ UNCHANGED <<project, source, args, argv, output_name, disk>>
      /\ \/ Clash(a, b) /\ Exit("1") /\ modules' = modules
         \/ ~Clash(a, b) /\ modules' = <<m>> \o SubSeq(modules, 3, Len(modules)) /\ phase' = phase /\ exit' = exit
  BY DEF link, Stay, importVars, sourceVars, optionVars
<1>2. \E S : modules \in Seq(S)
  BY DEF Importing, ArgvInvariant
<1>3. Len(modules) \in Nat /\ DOMAIN modules = 1..Len(modules)
  BY <1>2, LenProperties
<1>4. 1 \in DOMAIN modules /\ 2 \in DOMAIN modules /\ exit = "running" /\ OnDisk'
  BY <1>1, <1>3, SameFiles DEF Linking
<1>5. CASE Clash(a, b) /\ Exit("1") /\ modules' = modules
  <2>1. phase' = "exit" /\ exit' # "0" /\ output_name' # NoArg
    BY <1>1, <1>5 DEF Exit
  <2>2. \E j, k \in DOMAIN modules' : j # k /\ Clash(modules'[j], modules'[k])
    BY <1>4, <1>5
  <2>3. Reported'
    BY <1>4, <2>1, <2>2 DEF Reported, Clash
  <2> QED
    BY <2>1, <2>3
<1>6. CASE ~Clash(a, b) /\ modules' = <<m>> \o SubSeq(modules, 3, Len(modules)) /\ phase' = phase /\ exit' = exit
  <2>1. /\ \A path : Holds(a, path) \/ Holds(b, path) => Holds(m, path)
        /\ Sound(a) /\ Sound(b) => Sound(m)
    BY <1>6, LinkedFacts
  <2> HIDE DEF m
  <2>2. /\ DOMAIN modules' = 1..(Len(modules) - 1) /\ Len(modules') = Len(modules) - 1
        /\ modules'[1] = m /\ \A j \in 2..(Len(modules) - 1) : modules'[j] = modules[j + 1]
    BY <1>1, <1>2, <1>6, LinkedModules
  <2>3. Sound(m) /\ \A j \in DOMAIN modules : Sound(modules[j])
    BY <1>4, <2>1 DEF Linking
  <2>4. ASSUME NEW j \in DOMAIN modules' PROVE Sound(modules'[j])
    <3>1. j = 1 \/ (j \in 2..(Len(modules) - 1) /\ j + 1 \in DOMAIN modules)
      BY <1>1, <1>3, <2>2
    <3> QED
      BY <2>2, <2>3, <3>1
  <2>5. ASSUME NEW k \in DOMAIN argv
        PROVE  Compiles(Path(k)) /\ \E j \in DOMAIN modules' : Has(modules'[j], k)
    <3>1. PICK j \in DOMAIN modules : Has(modules[j], k)
      BY DEF Linking
    <3>2. CASE j = 1 \/ j = 2
      <4>1. Has(m, k)
        BY <2>1, <2>3, <3>1, <3>2 DEF Has
      <4>2. 1 \in DOMAIN modules'
        BY <1>1, <1>3, <2>2
      <4> QED
        BY <2>2, <4>1, <4>2 DEF Linking
    <3>3. CASE j # 1 /\ j # 2
      <4>1. j - 1 \in 2..(Len(modules) - 1) /\ (j - 1) + 1 = j /\ j - 1 \in DOMAIN modules'
        BY <1>1, <1>3, <2>2, <3>3
      <4>2. modules'[j - 1] = modules[j]
        BY <2>2, <4>1
      <4>3. Compiles(Path(k))
        BY DEF Linking
      <4> QED
        BY <3>1, <4>1, <4>2, <4>3
    <3> QED
      BY <3>2, <3>3
  <2>6. \A j \in DOMAIN modules' : Sound(modules[j])'
    BY <1>1, <2>4, SameFiles
  <2>7. \A k \in DOMAIN argv' : Compiles(Path(k))' /\ \E j \in DOMAIN modules' : Has(modules[j], k)'
    <3>1. \A k : Compiles(Path(k))' <=> Compiles(Path(k))
      BY <1>1, SameFiles
    <3>2. \A x : \A k : Has(x, k)' <=> Has(x, k)
      BY <1>1, SameFiles
    <3> QED
      BY <1>1, <2>5, <3>1, <3>2
  <2>8. phase' = "link" /\ exit' = "running" /\ Len(modules') # 0
    <3>1. Len(modules) - 1 # 0
      BY <1>1, <1>3
    <3> QED
      BY <1>1, <1>4, <1>6, <2>2, <3>1, Zenon
  <2>9. Linking'
    BY <1>4, <2>6, <2>7, <2>8 DEF Linking
  <2> QED
    BY <2>8, <2>9
<1> QED
  BY <1>1, <1>5, <1>6

LEMMA LinkEnds ==
  ASSUME Importing, Linking, linked \/ not_linked
  PROVE  phase' = "exit" /\ Reported'
<1>1. /\ exit' = "0" /\ phase' = "exit"
      /\ UNCHANGED <<project, source, args, argv, output_name, modules>>
      /\ \/ output_name = NoArg /\ disk' = disk
         \/ Len(modules) = 1 /\ disk' = Written(output_name, modules[1])
  BY DEF linked, not_linked, Exit, importVars, sourceVars, optionVars, linkVars
<1>2. Len(modules) \in Nat /\ DOMAIN modules = 1..Len(modules)
  BY AppendFacts DEF Importing, ArgvInvariant
<1>3. DOMAIN disk \subseteq DOMAIN disk'
        /\ (output_name # NoArg => Len(modules) = 1 /\ disk'[output_name] = modules[1])
  BY <1>1 DEF Written
<1>4. ASSUME NEW k \in DOMAIN argv
      PROVE  /\ Compiles(Path(k))' /\ OutName(Path(k))' \in DOMAIN disk'
             /\ output_name' # NoArg => Has(disk[output_name], k)'
  <2>1. PICK j \in DOMAIN modules : Has(modules[j], k)
    BY DEF Linking
  <2>2. Has(modules[j], k)'
    BY <1>1, <1>3, <2>1, SameFiles
  <2>3. Compiles(Path(k))'
    BY <1>1, SameFiles DEF Linking
  <2>4. OutName(Path(k))' \in DOMAIN disk'
    BY <2>2 DEF Has
  <2>5. ASSUME output_name' # NoArg PROVE Has(disk[output_name], k)'
    <3>1. j = 1 /\ (disk[output_name])' = (modules[j])'
      BY <1>1, <1>2, <1>3, <2>5
    <3> QED
      BY <2>2, <3>1
  <2> QED
    BY <2>3, <2>4, <2>5
<1>5. \A k \in DOMAIN argv' : /\ Compiles(Path(k))' /\ OutName(Path(k))' \in DOMAIN disk'
                              /\ output_name' # NoArg => Has(disk[output_name], k)'
  BY <1>1, <1>4
<1> QED
  BY <1>1, <1>5 DEF Reported

-----------------------------------------------------------------------------
(* All steps together.                                                     *)

LEMMA NothingHappens ==
  ASSUME UNCHANGED vars, OptionsInvariant'
  PROVE  /\ Compiling => Compiling'
         /\ Linking => Linking'
         /\ Reported => Reported'
         /\ TurnedDown => TurnedDown'
<1>1. UNCHANGED <<project, source, args, argv, output_name, inname, handled, status, modules, any_failed, disk, exit, phase>>
  BY DEF vars, importVars, sourceVars, optionVars, linkVars
<1>2. \A k : Compiles(Path(k))' <=> Compiles(Path(k))
  BY <1>1, SameFiles
<1>3. \A m : Sound(m)' <=> Sound(m)
  BY <1>1, SameFiles
<1>4. \A m : \A k : Has(m, k)' <=> Has(m, k)
  BY <1>1, SameFiles
<1>5. OnDisk' <=> OnDisk
  BY <1>1, SameFiles
<1>6. ASSUME Compiling PROVE Compiling'
  <2>1. DependInvariant'
    BY <1>1, <1>6, DependsSame DEF Compiling, DependInvariant
  <2>2. \A k \in DOMAIN modules' : Compiles(Path(k))' => Has(modules[k], k)'
    BY <1>1, <1>2, <1>4, <1>6 DEF Compiling
  <2>3. any_failed' <=> \E k \in DOMAIN modules' : ~Compiles(Path(k))'
    BY <1>1, <1>2, <1>6 DEF Compiling
  <2> QED
    BY <1>1, <1>5, <1>6, <2>1, <2>2, <2>3 DEF Compiling, Path
<1>7. ASSUME Linking PROVE Linking'
  <2>1. \A j \in DOMAIN modules' : Sound(modules[j])'
    BY <1>1, <1>3, <1>7 DEF Linking
  <2>2. \A k \in DOMAIN argv' : Compiles(Path(k))' /\ \E j \in DOMAIN modules' : Has(modules[j], k)'
    BY <1>1, <1>2, <1>4, <1>7 DEF Linking
  <2> QED
    BY <1>1, <1>5, <1>7, <2>1, <2>2 DEF Linking
<1>8. ASSUME Reported PROVE Reported'
  <2>1. CASE exit = "0"
    <3>1. \A k \in DOMAIN argv' : /\ Compiles(Path(k))' /\ OutName(Path(k))' \in DOMAIN disk'
                                  /\ output_name' # NoArg => Has(disk[output_name], k)'
      BY <1>1, <1>2, <1>4, <1>8, <2>1 DEF Reported, Path
    <3> QED
      BY <1>1, <2>1, <3>1 DEF Reported
  <2>2. CASE exit # "0"
    <3>1. CASE \E k \in DOMAIN argv : ~Compiles(Path(k))
      <4>1. \E k \in DOMAIN argv' : ~Compiles(Path(k))'
        BY <1>1, <1>2, <3>1
      <4> QED
        BY <1>1, <1>5, <1>8, <2>2, <4>1 DEF Reported
    <3>2. CASE output_name # NoArg /\ \E j, k \in DOMAIN modules : j # k /\ Clash(modules[j], modules[k])
      BY <1>1, <1>5, <1>8, <2>2, <3>2 DEF Reported, Clash
    <3> QED
      BY <1>8, <2>2, <3>1, <3>2 DEF Reported
  <2> QED
    BY <2>1, <2>2
<1>9. ASSUME TurnedDown PROVE TurnedDown'
  <2>1. BadOptions' \/ Playing("file")' = {}
    BY <1>1, <1>9, SameReading DEF TurnedDown
  <2> QED
    BY <1>1, <1>9, <2>1 DEF TurnedDown, Untouched
<1> QED
  BY <1>6, <1>7, <1>8, <1>9

LEMMA NextMain ==
  ASSUME ImportsInvariant, OptionsInvariant, MainInvariant, [Next]_vars
  PROVE  MainInvariant'
<1>1. ImportsInvariant' /\ OptionsInvariant'
  BY NextImports, NextOptions
<1>2. UNCHANGED <<project, source, args>>
  BY SourceStays
<1> SUFFICES ASSUME PlainProject'
             PROVE  /\ phase' \in {"options", "files", "link", "exit"}
                    /\ phase' = "files" => Compiling'
                    /\ phase' = "link" => Linking'
                    /\ phase' = "exit" => TurnedDown' \/ Reported'
  BY DEF MainInvariant
<1>3. PlainProject
  BY <1>2 DEF PlainProject
<1>4. ProjectType /\ Importing /\ args \in Seq(Argument)
  BY <1>1, <1>3 DEF ImportsInvariant, ProjectType
<1>5. /\ phase \in {"options", "files", "link", "exit"}
      /\ (phase = "files" => Compiling) /\ (phase = "link" => Linking) /\ (phase = "exit" => TurnedDown \/ Reported)
  BY <1>3 DEF MainInvariant
<1>6. phase = "files" \/ phase = "link" => Parsed
  BY DEF OptionsInvariant, TurnedDown
<1>7. CASE UNCHANGED vars
  <2>1. phase' = phase
    BY <1>7 DEF vars
  <2> QED
    BY <1>1, <1>5, <1>7, <2>1, NothingHappens
<1>8. CASE parse_positional \/ parse_short_option \/ parse_long_option \/ parse_end
  <2>1. phase = "options" /\ (parse_positional \/ parse_end => phase' = "options")
    BY <1>8 DEF parse_positional, parse_short_option, parse_long_option, parse_end, AtArg, Stay
  <2>2. phase' = "options" \/ TurnedDown'
    BY <1>8, <2>1, ReadShort, ReadLong
  <2> QED
    BY <2>2 DEF TurnedDown
<1>9. CASE options_parsed
  <2>1. (phase' = "files" /\ Parsed') \/ TurnedDown'
    BY <1>9, OptionsAreParsed
  <2>2. phase' = "files" /\ Parsed' => Compiling'
    BY <1>4, <1>9, StartCompiling
  <2> QED
    BY <2>1, <2>2 DEF TurnedDown
<1>10. CASE driver_compile \/ driver_skip \/ driver_import \/ driver_missing \/ driver_declare
  <2>1. phase = "files"
    BY <1>10 DEF driver_compile, driver_skip, driver_import, driver_missing, driver_declare, Step
  <2>2. Compiling' /\ phase' = "files"
    BY <1>3, <1>4, <1>5, <1>10, <2>1, ResolvingStep
  <2> QED
    BY <2>2
<1>11. CASE compiled \/ compile_error \/ file_abort
  <2>1. phase = "files"
    BY <1>11 DEF compiled, compile_error, file_abort
  <2>2. (Compiling' /\ phase' = "files") \/ (Reported' /\ phase' = "exit")
    BY <1>3, <1>4, <1>5, <1>6, <1>11, <2>1, CompiledKeeps, FileStops
  <2> QED
    BY <2>2
<1>12. CASE file_compiled \/ file_failed
  <2>1. phase = "files"
    BY <1>12 DEF file_compiled, file_failed
  <2>2. \/ phase' = "files" /\ Compiling'
        \/ phase' = "link" /\ Linking'
        \/ phase' = "exit" /\ Reported'
    BY <1>4, <1>5, <1>6, <1>12, <2>1, FileCompiled, FileFailed
  <2> QED
    BY <2>2
<1>13. CASE link \/ linked \/ not_linked
  <2>1. phase = "link"
    BY <1>13 DEF link, linked, not_linked
  <2>2. (phase' = "link" /\ Linking') \/ (phase' = "exit" /\ Reported')
    BY <1>4, <1>5, <1>13, <2>1, LinkKeeps, LinkEnds
  <2> QED
    BY <2>2
<1> QED
  BY <1>7, <1>8, <1>9, <1>10, <1>11, <1>12, <1>13 DEF Next, Ended

LEMMA InitMain == DriverInit => MainInvariant
BY DEF DriverInit, MainInvariant

\* What is compiled so far is in memory and on disk, file by file; what is
\* linked has all of them; what is reported is what happened.
THEOREM MainInvariantHolds == FairSpec => []MainInvariant
<1>1. DriverInit => MainInvariant
  BY InitMain
<1>2. ImportsInvariant /\ OptionsInvariant /\ MainInvariant /\ [Next]_vars => MainInvariant'
  BY NextMain
<1>3. FairSpec => []ImportsInvariant /\ []OptionsInvariant
  BY ImportsInvariantHolds, OptionsInvariantHolds
<1> QED
  BY <1>1, <1>2, <1>3, PTL DEF FairSpec

\* Success is reported for compiled inputs only, and failure for a reason
\* (main.c:182-231).
THEOREM SuccessIsEarned == FairSpec => [](PlainProject => SuccessIsReal)
<1>1. ASSUME OptionsInvariant, MainInvariant, PlainProject, phase = "exit" PROVE SuccessIsReal
  <2>1. args \in Seq(Argument) /\ (Parsed \/ TurnedDown) /\ (TurnedDown \/ Reported)
    BY <1>1 DEF OptionsInvariant, MainInvariant
  <2> DEFINE good == {path \in Inputs : Compiles(path)}
  <2>2. CASE TurnedDown
    <3>1. exit # "0" /\ DOMAIN disk = {}
      BY <2>2 DEF TurnedDown, Untouched
    <3>2. BadOptions \/ Inputs = {}
      BY <2>2 DEF TurnedDown, Inputs
    <3> QED
      BY <3>1, <3>2 DEF SuccessIsReal
  <2>3. CASE Parsed /\ Reported
    <3>1. /\ \A k \in DOMAIN argv : Path(k) \in Inputs
          /\ \A path \in Inputs : \E k \in DOMAIN argv : path = Path(k)
      BY <2>1, <2>3, InputsArgv
    <3>2. CASE exit = "0"
      <4>1. ASSUME NEW path \in Inputs
            PROVE  /\ Compiles(path) /\ OutName(path) \in DOMAIN disk
                   /\ output_name # NoArg => OutputHas(path)
        <5>1. PICK k \in DOMAIN argv : path = Path(k)
          BY <3>1
        <5>2. Compiles(path) /\ OutName(path) \in DOMAIN disk /\ (output_name # NoArg => Has(disk[output_name], k))
          BY <2>3, <3>2, <5>1 DEF Reported
        <5>3. ASSUME output_name # NoArg PROVE OutputHas(path)
          <6> DEFINE m == disk[output_name]
          <6>1. Holds(m, path)
            BY <5>1, <5>2, <5>3 DEF Has
          <6> HIDE DEF m
          <6>2. PICK names : /\ Provides(m, path, names)
                             /\ \A n \in source[File(path)].calls :
                                  [from |-> path, name |-> n, symbol |-> Symbol(path, names, n)] \in m.calls
            BY <6>1 DEF Holds
          <6>3. ASSUME NEW n \in source[File(path)].defs
                PROVE  \E s \in DOMAIN m.defines : m.defines[s] = path /\ Last(s) = n
            <7>1. Symbol(path, names, n) \in DOMAIN m.defines /\ m.defines[Symbol(path, names, n)] = path
              BY <6>2 DEF Provides
            <7> QED
              BY <7>1, LastOfSymbol
          <6>4. ASSUME NEW n \in source[File(path)].calls
                PROVE  \E c \in m.calls : c.from = path /\ c.name = n
            <7> DEFINE c == [from |-> path, name |-> n, symbol |-> Symbol(path, names, n)]
            <7>1. c.from = path /\ c.name = n
              OBVIOUS
            <7>2. c \in m.calls
              BY <6>2
            <7> QED
              BY <7>1, <7>2
          <6> QED
            BY <6>3, <6>4 DEF OutputHas, m
        <5> QED
          BY <5>2, <5>3
      <4>2. Inputs = good
        BY <4>1
      <4> QED
        BY <3>2, <4>1, <4>2 DEF SuccessIsReal
    <3>3. CASE exit # "0"
      <4>1. DOMAIN disk \subseteq {OutName(path) : path \in good}
        BY <2>3, <3>3 DEF Reported, OnDisk
      <4>2. \/ Inputs # good
            \/ output_name # NoArg /\ \E j, k \in DOMAIN modules : j # k /\ Clash(modules[j], modules[k])
        BY <2>3, <3>1, <3>3 DEF Reported
      <4> QED
        BY <3>3, <4>1, <4>2 DEF SuccessIsReal
    <3> QED
      BY <3>2, <3>3
  <2> QED
    BY <2>1, <2>2, <2>3
<1>2. OptionsInvariant /\ MainInvariant => (PlainProject => SuccessIsReal)
  BY <1>1 DEF SuccessIsReal
<1> QED
  BY <1>2, OptionsInvariantHolds, MainInvariantHolds, PTL

\* A call goes to the function that one of the linked files defines, whatever
\* else the others declare; the cases where main.c:108 and codegen.c:483 let it
\* go elsewhere are excepted.
THEOREM CallsFindTheirFunction == FairSpec => [](PlainProject => CallsAreBound)
<1>1. ASSUME OptionsInvariant, MainInvariant, PlainProject, phase = "exit", exit = "0", output_name # NoArg,
             NEW c \in disk[output_name].calls,
             NEW g \in { File(path) : path \in Inputs }, c.name \in source[g].defs,
             ~\E h \in { File(path) : path \in Inputs } \ {File(c.from)} :
                c.name \in source[h].defs /\ source[h].package # NoPackage /\ c.name # "main",
             ~(/\ source[File(c.from)].package # NoPackage /\ c.name \notin source[File(c.from)].defs
               /\ \A h \in DependsOn(File(c.from)) \ {File(c.from)} : c.name \notin Says(h))
      PROVE  /\ c.symbol \in DOMAIN disk[output_name].defines
             /\ File(disk[output_name].defines[c.symbol]) \in
                  { h \in { File(path) : path \in Inputs } : c.name \in source[h].defs }
  <2> DEFINE m == disk[output_name]
             f == File(c.from)
             name == c.name
  <2>1. args \in Seq(Argument) /\ Parsed /\ Reported
    BY <1>1 DEF OptionsInvariant, MainInvariant, TurnedDown
  <2>2. \A path \in Inputs : Holds(m, path) /\ Sound(m)
    <3>1. ASSUME NEW path \in Inputs PROVE Holds(m, path) /\ Sound(m)
      <4>1. PICK k \in DOMAIN argv : path = Path(k)
        BY <2>1, InputsArgv
      <4> QED
        BY <1>1, <2>1, <4>1 DEF Reported, Has
    <3> QED
      BY <3>1
  <2>3. PICK input \in Inputs : g = File(input)
    BY <1>1
  <2> HIDE DEF m
  <2>4. c.from \in Inputs /\ \E names : Provides(m, c.from, names) /\ c.symbol = Symbol(c.from, names, name)
    BY <1>1, <2>2, <2>3 DEF Sound, m
  <2>5. PICK names : Provides(m, c.from, names) /\ c.symbol = Symbol(c.from, names, name)
    BY <2>4
  <2>6. c.symbol \in DOMAIN m.defines
    <3>1. CASE name \in source[f].defs
      BY <2>5, <3>1 DEF Provides
    <3>2. CASE name \notin source[f].defs
      <4>1. g # f /\ (source[g].package = NoPackage \/ name = "main")
        BY <1>1, <3>2
      <4>2. PICK others : Provides(m, input, others)
        BY <2>2, <2>3 DEF Holds
      <4>3. <<name>> \in DOMAIN m.defines
        <5>1. Symbol(input, others, name) = <<name>>
          BY <2>3, <4>1 DEF Symbol
        <5> QED
          BY <1>1, <2>3, <4>2, <5>1 DEF Provides
      <4>4. c.symbol = <<name>>
        <5>1. source[f].package = NoPackage \/ \E h \in DependsOn(f) \ {f} : name \in Says(h)
          BY <1>1, <3>2
        <5>2. source[f].package = NoPackage \/ name \in names
          BY <2>5, <5>1 DEF Provides
        <5> QED
          BY <2>5, <5>2 DEF Symbol
      <4> QED
        BY <4>3, <4>4
    <3> QED
      BY <3>1, <3>2
  <2>7. Last(c.symbol) = name
    BY <2>5, LastOfSymbol
  <2>8. m.defines[c.symbol] \in Inputs /\ Last(c.symbol) \in source[File(m.defines[c.symbol])].defs
    BY <2>2, <2>4, <2>6 DEF Sound
  <2> QED
    BY <2>6, <2>7, <2>8 DEF m
<1>2. ASSUME OptionsInvariant, MainInvariant, PlainProject PROVE CallsAreBound
  <2> SUFFICES ASSUME exit = "0", output_name # NoArg PROVE CallsAreBound
    BY DEF CallsAreBound
  <2>1. phase = "exit"
    BY <1>2 DEF OptionsInvariant, OptionsRead, MainInvariant, Compiling, Linking
  <2> QED
    BY <1>1, <1>2, <2>1 DEF CallsAreBound
<1>3. OptionsInvariant /\ MainInvariant => (PlainProject => CallsAreBound)
  BY <1>2
<1> QED
  BY <1>3, OptionsInvariantHolds, MainInvariantHolds, PTL

===============================================================================
