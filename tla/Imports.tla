------------------------------- MODULE Imports -------------------------------
(***************************************************************************)
(* How compile() in main.c reads a file with everything it imports:        *)
(* parse_file, the recursion of resolve_imports, and codegen_decls for     *)
(* each imported file before codegen for the file itself.                  *)
(*                                                                         *)
(* A path is a sequence of names, as written between slashes, and a name   *)
(* the sequence of its parts between dots.  "handled" holds paths as they   *)
(* are put together from import statements; the file such a path opens is   *)
(* another matter (Opens).  main() calls compile for one file after the     *)
(* other (Driver).                                                          *)
(***************************************************************************)
EXTENDS Integers, Sequences, FiniteSets

CONSTANT MaxNesting    \* bound on the recursion, far above what a project needs

VARIABLES project,     \* the files and the import_names of their import units
          inname,      \* the file given on the command line
          frames,      \* calls of resolve_imports: the file's path and the unit's index
          handled,     \* handled_imports
          declared,    \* paths of the files whose declarations are generated
          status       \* "start", "resolving", "compiled", "failed" or "abort"

importVars == <<project, inname, frames, handled, declared, status>>

(***************************************************************************)
(* The file system (external): which file a path opens.                    *)
(***************************************************************************)
Directories(p) == UNION { { SubSeq(f, 1, k) : k \in 0..(Len(f) - 1) } : f \in DOMAIN p }
NoFile == << <<>> >>
Up == <<"", "", "">>      \* ".."
Here == <<"", "">>        \* "."
Nothing == <<"">>         \* between two slashes

\* Walk the path; a directory that is not there ends the walk.
WalkTo(p, path) ==
  LET walk[k \in 0..Len(path)] ==
        IF k = 0 THEN <<>>
        ELSE LET at == walk[k - 1]
             IN  IF at = NoFile THEN NoFile
                 ELSE IF path[k] = Up
                 THEN IF at = <<>> THEN NoFile ELSE SubSeq(at, 1, Len(at) - 1)
                 ELSE IF path[k] \in {Here, Nothing} THEN at
                 ELSE IF k < Len(path) /\ Append(at, path[k]) \notin Directories(p)
                 THEN NoFile
                 ELSE Append(at, path[k])
  IN  walk[Len(path)]

Opens(p, path) ==
  LET f == WalkTo(p, path) IN IF f \in DOMAIN p THEN f ELSE NoFile

(***************************************************************************)
(* The compiler.                                                           *)
(***************************************************************************)
\* Nothing imported yet.
Fresh == frames = <<>> /\ handled = {} /\ declared = <<>>

\* compile: parse the file, then resolve its imports with nothing handled yet.
compile ==
  /\ status = "start"
  /\ IF Opens(project, inname) = NoFile
     THEN status' = "failed" /\ UNCHANGED frames
     ELSE /\ status' = "resolving"
          /\ frames' = << [relative_to |-> inname, i |-> 1] >>
  /\ UNCHANGED <<project, inname, handled, declared>>

Top == frames[Len(frames)]
Callers == SubSeq(frames, 1, Len(frames) - 1)
Units == project[Opens(project, Top.relative_to)]
Advanced == [frames EXCEPT ![Len(frames)].i = @ + 1]

\* basename "/" import_name, the basename being the importing file's path up
\* to its last slash.
Filename == SubSeq(Top.relative_to, 1, Len(Top.relative_to) - 1) \o Units[Top.i]

AtImport == status = "resolving" /\ Top.i <= Len(Units)

\* Mutant: the loop is left where it was.
skip_import_stay ==
  /\ AtImport
  /\ Filename \in handled
  /\ UNCHANGED importVars

\* An import that is in hand already.
skip_import ==
  /\ AtImport
  /\ Filename \in handled
  /\ frames' = Advanced
  /\ UNCHANGED <<project, inname, handled, declared, status>>

\* Mutant: a file is remembered only once it is through.
import_unmarked ==
  /\ AtImport
  /\ Filename \notin handled
  /\ Len(frames) < MaxNesting
  /\ Opens(project, Filename) # NoFile
  /\ frames' = Append(Advanced, [relative_to |-> Filename, i |-> 1])
  /\ UNCHANGED <<project, inname, handled, declared, status>>

\* Mutant: the imports of an imported file are left alone.
import_flat ==
  /\ AtImport
  /\ Filename \notin handled
  /\ Len(frames) < MaxNesting
  /\ Opens(project, Filename) # NoFile
  /\ handled' = handled \cup {Filename}
  /\ frames' = Append(Advanced, [relative_to |-> Filename,
                                 i |-> Len(project[Opens(project, Filename)]) + 1])
  /\ UNCHANGED <<project, inname, declared, status>>

\* A new import: remember it, parse it, resolve its own imports.
import ==
  /\ AtImport
  /\ Filename \notin handled
  /\ Len(frames) < MaxNesting
  /\ Opens(project, Filename) # NoFile
  /\ handled' = handled \cup {Filename}
  /\ frames' = Append(Advanced, [relative_to |-> Filename, i |-> 1])
  /\ UNCHANGED <<project, inname, declared, status>>

\* "unable to open file ... imported from ...", abort().
import_missing ==
  /\ AtImport
  /\ Filename \notin handled
  /\ Opens(project, Filename) = NoFile
  /\ status' = "abort"
  /\ UNCHANGED <<project, inname, frames, handled, declared>>

\* The return from the recursive call, and codegen_decls of the file.
\* Mutant: the declarations of the importing file come first.
declare_early ==
  /\ status = "resolving"
  /\ Len(frames) > 1
  /\ Top.i > Len(Units) \/ Top.i = 1
  /\ ~\E n \in DOMAIN declared : declared[n] = Top.relative_to
  /\ declared' = Append(declared, Top.relative_to)
  /\ frames' = IF Top.i > Len(Units) THEN Callers ELSE frames
  /\ UNCHANGED <<project, inname, handled, status>>

declare_import ==
  /\ status = "resolving"
  /\ Len(frames) > 1
  /\ Top.i > Len(Units)
  /\ declared' = Append(declared, Top.relative_to)
  /\ frames' = Callers
  /\ UNCHANGED <<project, inname, handled, status>>

\* All imports resolved: codegen for the file itself, which starts with its
\* declarations.  Nothing has put the file into handled: one that is imported
\* by what it imports has been declared before.
generate ==
  /\ status = "resolving"
  /\ Len(frames) = 1
  /\ Top.i > Len(Units)
  /\ frames' = <<>>
  /\ declared' = Append(declared, inname)
  /\ status' = "compiled"
  /\ UNCHANGED <<project, inname, handled>>

(***************************************************************************)
(* Properties.                                                             *)
(***************************************************************************)
Paths(s) == { s[n] : n \in DOMAIN s }
Files(s) == { Opens(project, path) : path \in Paths(s) }

\* The files that f imports, as they are on disk.
ImportsOf(f) ==
  { Opens(project, SubSeq(f, 1, Len(f) - 1) \o project[f][k]) : k \in DOMAIN project[f] }

\* When a file's declarations are generated, those of everything it imports are
\* there already, unless that file is itself waiting for this one (a cycle):
\* types used in its signatures must be known (main.c:106-107).
ImportsFirst ==
  \A n \in DOMAIN declared :
    LET f == Opens(project, declared[n])
        earlier == Files(SubSeq(declared, 1, n))
        waiting == { Opens(project, frames[k].relative_to) : k \in DOMAIN frames }
    IN  status = "resolving" /\ n = Len(declared) =>
          ImportsOf(f) \subseteq earlier \cup waiting

\* The files a file depends on, itself included: what no set can do without
\* that has it and all that the files in the set import.
DependsOn(f) ==
  LET places == DOMAIN project \cup {NoFile}
      imports == [g \in DOMAIN project |-> ImportsOf(g)]
      closed == { S \in SUBSET places : f \in S /\ \A g \in S \ {NoFile} : imports[g] \subseteq S }
  IN  { g \in places : \A S \in closed : g \in S }

\* What a file imports, near or far.
Needed(f) == UNION { DependsOn(g) : g \in ImportsOf(f) }

\* "Skip imports that have already been handled." (main.c:91): no file's
\* declarations enter the context twice, but for those of a file that is
\* compiled and that one of the files it needs imports in turn.  They come once
\* for that import (main.c:108) and once more from codegen (main.c:141).
DeclaredOnce ==
  \A m, n \in DOMAIN declared :
    m < n /\ Opens(project, declared[m]) = Opens(project, declared[n]) =>
      /\ status = "compiled" /\ n = Len(declared)
      /\ Opens(project, inname) \in Needed(Opens(project, inname))

\* What is compiled has seen the declarations of every file it depends on, near
\* or far (main.c:81-109).
NothingMissed ==
  status = "compiled" =>
    LET main == Opens(project, inname) IN DependsOn(main) \ {main} \subseteq Files(declared)
==============================================================================
