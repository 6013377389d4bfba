-------------------------------- MODULE Driver --------------------------------
(***************************************************************************)
(* main() of the compiler: parse_options rewrites argv in place, compile   *)
(* takes one file after the other (Imports) into a module of its own, and  *)
(* the modules are linked into one if -o asks for that.                    *)
(*                                                                         *)
(* An argument is its number of leading hyphens and the rest, its text: a   *)
(* path, or the letters of short options (each like a name of one part).   *)
(* A source file has its package, the functions it defines, those it only  *)
(* declares, and the names it calls.  A module knows which symbols it       *)
(* defines, with the file each comes from, and where each call goes.        *)
(***************************************************************************)
EXTENDS Imports, SequencesExt

CONSTANT Invocations   \* what is on disk and on the command line

Name == Seq(STRING)
FileName == Seq(Name) \ { <<>> }
Argument == [hyphens : 0..2, text : Seq(Name)]
\* Each file with the import_names in it; a disk holds finitely many.
ASSUME InvocationsAssumption ==
  \A v \in Invocations :
    /\ IsFiniteSet(DOMAIN v.project)
    /\ \A f \in DOMAIN v.project : f \in FileName /\ v.project[f] \in Seq(FileName)
    /\ v.args \in Seq(Argument)

VARIABLES source,      \* the source files: path -> [package, defs, decls, calls]
          args,        \* the command line as it was given
          argv, argi, argo, output_name,
          phase,       \* "options", "files", "link" or "exit"
          modules, any_failed,
          disk,        \* the files written: name -> module
          exit         \* "0", "1", "abort", or "undefined" after that, else "running"

sourceVars == <<source, args>>
optionVars == <<argv, argi, argo, output_name>>
linkVars == <<modules, any_failed, disk>>
vars == <<importVars, sourceVars, optionVars, phase, linkVars, exit>>

NoArg == [hyphens |-> 3, text |-> <<>>]
NoPackage == "none"
NoModule == [defines |-> <<>>, calls |-> {}]

DriverInit ==
  /\ \E v \in Invocations : project = v.project /\ source = v.source /\ args = v.args
  /\ argv = args /\ argi = 1 /\ argo = 1 /\ output_name = NoArg
  /\ phase = "options"
  /\ Fresh /\ inname = NoFile /\ status = "start"
  /\ modules = <<>> /\ any_failed = FALSE /\ disk = <<>> /\ exit = "running"

\* The process ends.
Exit(code) == phase' = "exit" /\ exit' = code
Stay == UNCHANGED <<phase, exit>>

----------------------------------------------------------------------------
(* parse_options.                                                          *)

Arg == argv[argi]
o == <<"o">>
AtArg(hyphens) == phase = "options" /\ argi <= Len(args) /\ Arg.hyphens = hyphens

\* *argo++ = *argi
parse_positional ==
  /\ AtArg(0)
  /\ argv' = [argv EXCEPT ![argo] = Arg]
  /\ argo' = argo + 1 /\ argi' = argi + 1
  /\ UNCHANGED <<importVars, sourceVars, output_name, linkVars>> /\ Stay

\* Mutant: the letters of one argument share one output name.
ParseShortOnce ==
  /\ AtArg(1)
  /\ LET letters == Arg.text
         last == argi + (IF letters = <<>> THEN 0 ELSE 1)
         fits == \A k \in DOMAIN letters : letters[k] = o /\ last <= Len(args)
     IN IF fits
        THEN /\ argi' = last + 1
             /\ output_name' = IF letters = <<>> THEN output_name ELSE argv[last]
             /\ Stay
        ELSE Exit("1") /\ UNCHANGED <<argi, output_name>>
  /\ UNCHANGED <<importVars, sourceVars, argv, argo, linkVars>>

\* The letters of a short option one by one; each o takes the next argument.
\* "unknown option", "expected output file name after -o".
parse_short_option ==
  /\ AtArg(1)
  /\ LET letters == Arg.text
         last == argi + Len(letters)
         fits == \A k \in DOMAIN letters : letters[k] = o /\ argi + k <= Len(args)
     IN IF fits
        THEN /\ argi' = last + 1
             /\ output_name' = IF letters = <<>> THEN output_name ELSE argv[last]
             /\ Stay
        ELSE Exit("1") /\ UNCHANGED <<argi, output_name>>
  /\ UNCHANGED <<importVars, sourceVars, argv, argo, linkVars>>

\* There are no long options.
parse_long_option ==
  /\ AtArg(2) /\ Arg.text # <<>>
  /\ Exit("1")
  /\ UNCHANGED <<importVars, sourceVars, optionVars, linkVars>>

\* "--": what follows is moved up as it is.
parse_end ==
  /\ AtArg(2) /\ Arg.text = <<>>
  /\ LET rest == Len(args) - argi
     IN /\ argv' = [k \in DOMAIN argv |-> IF k \in argo..(argo + rest - 1) THEN argv[argi + 1 + k - argo] ELSE argv[k]]
        /\ argo' = argo + rest
  /\ argi' = Len(args) + 1
  /\ UNCHANGED <<importVars, sourceVars, output_name, linkVars>> /\ Stay

\* The next file; every call of compile has its own handled_imports.
Take(k) ==
  /\ inname' = argv[k].text /\ status' = "start"
  /\ frames' = <<>> /\ handled' = {} /\ declared' = <<>>

\* Back in main: "no input files", or the first one.
options_parsed ==
  /\ phase = "options" /\ argi > Len(args)
  /\ argv' = SubSeq(argv, 1, argo - 1)
  /\ IF argo = 1 THEN Exit("1") /\ UNCHANGED importVars
     ELSE /\ phase' = "files"
          /\ inname' = argv[1].text /\ UNCHANGED <<project, frames, handled, declared, status, exit>>
  /\ UNCHANGED <<sourceVars, argi, argo, output_name, linkVars>>

----------------------------------------------------------------------------
(* Compiling the files.                                                    *)

\* The name up to its last dot, and ".ll".
OutName(path) ==
  LET name == Last(path)
      stem == IF Len(name) > 1 THEN Front(name) ELSE name
  IN [hyphens |-> 0, text |-> Append(Front(path), Append(stem, "ll"))]

Step(action) == /\ phase = "files" /\ action
                /\ UNCHANGED <<sourceVars, optionVars, linkVars>> /\ Stay

driver_compile == Step(compile)
driver_skip == Step(skip_import)
driver_import == Step(import)
driver_missing == Step(import_missing)
driver_declare == Step(declare_import)

This == source[Opens(project, inname)]
Own == This.defs \cup This.decls
\* resolve_imports has no package set: what is imported is declared by its name.
Imported == UNION {source[f].defs \cup source[f].decls : f \in Files(declared)}

\* The function behind the first symbol with the name: an imported one, or one
\* of this file, whose package goes in front of every name but main's.
SymbolOf(name) ==
  IF name \in Imported \/ This.package = NoPackage \/ name = "main" THEN <<name>>
  ELSE <<This.package, name>>

\* Mutant: a body goes to the function that its own unit has declared.
BodyOfUnit(name) ==
  IF This.package = NoPackage \/ name = "main" THEN <<name>> ELSE <<This.package, name>>

\* A body goes by the name as well (codegen.c:515).
BodySymbol(name) == SymbolOf(name)

ModuleOf ==
  [defines |-> [s \in {BodySymbol(n) : n \in This.defs} |-> inname],
   calls |-> {[from |-> inname, name |-> n, symbol |-> SymbolOf(n)] : n \in This.calls}]

\* LLVMPrintModuleToFile: the file is made, or made anew.
Written(name, module) == [n \in DOMAIN disk \cup {name} |-> IF n = name THEN module ELSE disk[n]]

\* codegen, and the module to its file and to main.
compiled ==
  /\ phase = "files" /\ generate
  /\ This.calls \subseteq Own \cup Imported
  /\ modules' = Append(modules, ModuleOf)
  /\ disk' = Written(OutName(inname), ModuleOf)
  /\ UNCHANGED <<sourceVars, optionVars, any_failed>> /\ Stay

\* derror: "identifier unknown".
compile_error ==
  /\ phase = "files" /\ generate
  /\ ~ This.calls \subseteq Own \cup Imported
  /\ Exit("1")
  /\ UNCHANGED <<sourceVars, optionVars, linkVars>>

\* On to the next file, or to the linker unless a file has failed.
NextFile(failed) ==
  IF Len(modules') < Len(argv)
  THEN Take(Len(modules') + 1) /\ UNCHANGED project /\ Stay
  ELSE IF failed THEN Exit("1") /\ UNCHANGED importVars
  ELSE phase' = "link" /\ UNCHANGED <<importVars, exit>>

file_compiled ==
  /\ phase = "files" /\ status = "compiled"
  /\ UNCHANGED <<sourceVars, optionVars, linkVars>>
  /\ NextFile(any_failed)

\* Mutant: only the last file decides.
FileFailedForgotten ==
  /\ phase = "files" /\ status = "failed"
  /\ modules' = Append(modules, NoModule)
  /\ UNCHANGED any_failed
  /\ NextFile(any_failed)
  /\ UNCHANGED <<sourceVars, optionVars, disk>>

\* "unable to compile".  compile has not set modules[i]; what is there is
\* disposed of unless it happens to be null.
file_failed ==
  /\ phase = "files" /\ status = "failed"
  /\ any_failed' = TRUE
  /\ modules' = Append(modules, NoModule)
  /\ UNCHANGED <<sourceVars, optionVars, disk>>
  /\ \/ NextFile(TRUE)
     \/ Exit("undefined") /\ UNCHANGED importVars

\* An import that cannot be opened.
file_abort ==
  /\ phase = "files" /\ status = "abort"
  /\ Exit("abort")
  /\ UNCHANGED <<importVars, sourceVars, optionVars, linkVars>>

----------------------------------------------------------------------------
(* Linking.                                                                *)

\* LLVMLinkModules2 (external): a symbol is defined once.
Clash(m, n) == DOMAIN m.defines \cap DOMAIN n.defines # {}
Linked(m, n) ==
  [defines |-> [s \in DOMAIN m.defines \cup DOMAIN n.defines |->
                  IF s \in DOMAIN m.defines THEN m.defines[s] ELSE n.defines[s]],
   calls |-> m.calls \cup n.calls]

\* "unable to link".
link ==
  /\ phase = "link" /\ output_name # NoArg /\ Len(modules) > 1
  /\ IF Clash(modules[1], modules[2]) THEN Exit("1") /\ UNCHANGED modules
     ELSE /\ modules' = <<Linked(modules[1], modules[2])>> \o SubSeq(modules, 3, Len(modules))
          /\ Stay
  /\ UNCHANGED <<importVars, sourceVars, optionVars, any_failed, disk>>

linked ==
  /\ phase = "link" /\ output_name # NoArg /\ Len(modules) = 1
  /\ disk' = Written(output_name, modules[1])
  /\ Exit("0")
  /\ UNCHANGED <<importVars, sourceVars, optionVars, modules, any_failed>>

not_linked ==
  /\ phase = "link" /\ output_name = NoArg
  /\ Exit("0")
  /\ UNCHANGED <<importVars, sourceVars, optionVars, linkVars>>

Ended == phase = "exit" /\ UNCHANGED vars

Next ==
  \/ parse_positional \/ parse_short_option \/ parse_long_option \/ parse_end \/ options_parsed
  \/ driver_compile \/ driver_skip \/ driver_import \/ driver_missing \/ driver_declare
  \/ compiled \/ compile_error \/ file_compiled \/ file_failed \/ file_abort
  \/ link \/ linked \/ not_linked \/ Ended

\* One thread that runs until main returns.
FairSpec == DriverInit /\ [][Next]_vars /\ WF_vars(Next)

----------------------------------------------------------------------------
(* Properties.                                                             *)

\* How many values the options among the first k arguments still want; -1
\* after "--", which nothing but files follow.
Owed[k \in 0..Len(args)] ==
  IF k = 0 THEN 0
  ELSE LET owed == Owed[k - 1]
       IN IF owed > 0 THEN owed - 1
          ELSE IF owed < 0 THEN owed
          ELSE IF args[k].hyphens = 1 THEN Len(args[k].text)
          ELSE IF args[k].hyphens = 2 /\ args[k].text = <<>> THEN -1
          ELSE 0

\* The part that an argument plays, and the arguments that play one.
Part(k) ==
  IF Owed[k - 1] > 0 THEN "value"
  ELSE IF Owed[k - 1] < 0 \/ args[k].hyphens = 0 THEN "file"
  ELSE IF args[k].hyphens = 1 THEN "option"
  ELSE IF args[k].text = <<>> THEN "end"
  ELSE "bad"
Playing(part) == { k \in DOMAIN args : Part(k) = part }

BadOptions ==
  \/ Playing("bad") # {}
  \/ \E k \in Playing("option") : \E l \in DOMAIN args[k].text : args[k].text[l] # o \/ k + l > Len(args)

\* "after parsing, only the positional arguments are left" (options.c:50), all
\* of them and in their order, although they are moved within the array that
\* is still being read; the last -o names the output.
PositionalsLeft ==
  phase = "files" /\ modules = <<>> =>
    LET files == Playing("file")
        values == Playing("value")
    IN /\ ~BadOptions
       /\ Len(argv) = Cardinality(files)
       /\ \A k \in files : argv[Cardinality({ j \in files : j <= k })] = args[k]
       /\ \/ values = {} /\ output_name = NoArg
          \/ \E k \in values : (\A j \in values : j <= k) /\ output_name = args[k]

Inputs == { args[k].text : k \in Playing("file") }
File(path) == Opens(project, path)
Says(f) == source[f].defs \cup source[f].decls
Compiles(path) ==
  LET files == DependsOn(File(path))
  IN NoFile \notin files /\ source[File(path)].calls \subseteq UNION {Says(g) : g \in files}
OutputHas(path) ==
  /\ \A n \in source[File(path)].defs :
       \E s \in DOMAIN disk[output_name].defines : disk[output_name].defines[s] = path /\ Last(s) = n
  /\ \A n \in source[File(path)].calls :
       \E c \in disk[output_name].calls : c.from = path /\ c.name = n

\* Success is reported only if every input compiles; then each of them has left
\* its module, and the output holds all of them.  Failure is reported only for
\* bad options, an input that does not compile, or two modules that define one
\* symbol; then nothing is linked, and nothing but modules that compiled is
\* left (main.c:182-231).
SuccessIsReal ==
  phase = "exit" =>
    LET inputs == Inputs
        good == {path \in inputs : Compiles(path)}
    IN IF exit = "0"
       THEN /\ inputs = good
            /\ \A path \in inputs : OutName(path) \in DOMAIN disk
            /\ output_name # NoArg => \A path \in inputs : OutputHas(path)
       ELSE /\ DOMAIN disk \subseteq {OutName(path) : path \in good}
            /\ \/ BadOptions \/ inputs = {} \/ inputs # good
               \/ output_name # NoArg /\ \E j, k \in DOMAIN modules : j # k /\ Clash(modules[j], modules[k])

\* In a linked program every call of a function that one of the files defines
\* goes to that definition.  Known limits: an imported file declares its
\* functions without its package (main.c:108), and a file with a package puts
\* it in front of functions it only declares (codegen.c:483).
CallsAreBound ==
  exit = "0" /\ output_name # NoArg =>
    LET files == {File(path) : path \in Inputs}
    IN \A c \in disk[output_name].calls :
         LET f == File(c.from)
             targets == {g \in files : c.name \in source[g].defs}
             packaged == \E g \in targets \ {f} : source[g].package # NoPackage /\ c.name # "main"
             byHand == /\ source[f].package # NoPackage /\ c.name \notin source[f].defs
                       /\ \A g \in DependsOn(f) \ {f} : c.name \notin Says(g)
         IN targets # {} /\ ~packaged /\ ~byHand =>
              /\ c.symbol \in DOMAIN disk[output_name].defines
              /\ File(disk[output_name].defines[c.symbol]) \in targets

\* The compiler ends, whatever files import each other.
Finishes == <>(phase = "exit")
===============================================================================
