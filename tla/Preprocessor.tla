---------------------------- MODULE Preprocessor ----------------------------
(***************************************************************************)
(* The preprocessor driver (src/preprocessor/mod.rs): it walks the entry   *)
(* file line by line, descends into the files of imported modules          *)
(* (modules.rs), keeps the table of module-scoped defines (defines.rs) and *)
(* steers the stack of conditional chains (module Conditionals).           *)
(*                                                                         *)
(* What the files on disk say is not given: every step picks the next line *)
(* of the file being walked, so one behaviour is the walk over one choice  *)
(* of file contents.  Since a file is walked at most once (OncePerFile),   *)
(* picking a line when it is read is picking the contents beforehand.      *)
(* Lines that cannot change anything (ordinary text without a use of a     *)
(* name, and everything but conditionals inside a skipped branch) are      *)
(* stuttering steps and are not listed.                                    *)
(*                                                                         *)
(* `uses` and `importLines` are history: the substitutions made so far and *)
(* the `$import` lines obeyed so far.                                      *)
(***************************************************************************)
EXTENDS Conditionals, FiniteSets

CONSTANTS
  Entry,        \* the file `aspc` was given
  Modules,      \* the module paths an `$import` or `$module` can name
  Anonymous,    \* the module "" of a file without a `$module`
  NumRoots,     \* the `-I` search roots, in flag order, are 1..NumRoots
  FileForm,     \* [1..NumRoots -> [Modules -> SUBSET Files]]: `<root>/<path>.ap`
  DirForm,      \* [1..NumRoots -> [Modules -> Seq(Files)]]: `<root>/<path>/*.ap`
  Unreadable,   \* the files that cannot be read or do not lex
  Names,        \* the names a `$define` can bind
  Platform,     \* the names the compiler itself defines
  Kinds,        \* the kinds of lines the files are made of
  MaxLines,     \* bound: lines of one file
  MaxCli        \* bound: `-D` options

ASSUME DiskAssumption ==
  /\ Entry \in Files
  /\ Anonymous \notin Modules
  /\ NumRoots \in Nat
  /\ FileForm \in [1..NumRoots -> [Modules -> SUBSET Files]]
  /\ DirForm \in [1..NumRoots -> [Modules -> Seq(Files)]]
  /\ \A r \in 1..NumRoots, m \in Modules :
        \A f, g \in FileForm[r][m] : f = g
  /\ Unreadable \subseteq Files
  /\ Platform \subseteq Names
  /\ MaxLines \in Nat /\ MaxCli \in Nat

VARIABLES
  defs,         \* name -> the origins of its live defines, in order
  seen,         \* the files whose loading has started
  fileModule,   \* the module each file declared so far
  edges,        \* module -> its direct imports, for the modules recorded
  imported,     \* the modules whose loading has started
  stack,        \* the files being walked, the entry file first
  loads,        \* the `$import`s being obeyed, outermost first
  uses,         \* history: [file, name, origin] of every substitution
  importLines   \* history: <<file, module>> of every `$import` obeyed

driverVars == <<seen, fileModule, edges, imported, loads, importLines>>
preVars == <<frames, err, defs, stack, uses, driverVars>>

Origin == Files \cup {"builtin", "cli"}

\* `base` is the depth of the conditional stack when the file was entered,
\* `brace` the brace depth of the tokens it emitted; `lines` counts the lines
\* read, for MaxLines.
Context == [file : Files, moduleSeen : BOOLEAN, sawContent : BOOLEAN,
            imports : Seq(Modules), brace : Nat, base : Nat, lines : Nat]

\* One `load_and_verify_module` in progress: the files not yet processed.
Load == [module : Modules, files : Seq(Files)]

Elems(s) == {s[i] : i \in 1..Len(s)}

\* The members of s that are in T, in their order.
Kept(s, T) ==
  LET upTo[i \in 0..Len(s)] == IF i = 0 THEN <<>>
                               ELSE IF s[i] \in T THEN Append(upTo[i - 1], s[i])
                               ELSE upTo[i - 1]
  IN  upTo[Len(s)]

-----------------------------------------------------------------------------
\* Where the walk stands.

Seeding == err = "none" /\ Entry \notin seen
Walking == err = "none" /\ Len(stack) = Len(loads) + 1
Loading == err = "none" /\ Len(loads) = Len(stack) /\ loads # <<>>
Done    == err = "none" /\ Entry \in seen /\ stack = <<>>

Top == stack[Len(stack)]

\* The next line of the top file is of kind k.
Reads(k) == Walking /\ k \in Kinds /\ Top.lines < MaxLines

\* Where a directive other than a conditional is obeyed.
AtTopLevel == Active /\ Top.brace = 0

SetTop(c) == stack' = [stack EXCEPT ![Len(stack)] = [c EXCEPT !.lines = c.lines + 1]]

Fail(e) == err' = e /\ UNCHANGED <<frames, stack>>

-----------------------------------------------------------------------------
\* The define table.

Global(o) == o \in {"builtin", "cli"}

Collides(o, p) ==
  \/ Global(o) \/ Global(p)
  \/ fileModule[o] = fileModule[p]

\* Slip: what any file imported is visible to all.
SeesTransitively(o) == \/ Global(o)
                       \/ fileModule[o] = fileModule[Top.file]
                       \/ fileModule[o] \in imported

\* ScopedDefines::sees, from the file on top of the stack.
Sees(o) == \/ Global(o)
           \/ fileModule[o] = fileModule[Top.file]
           \/ fileModule[o] \in Elems(Top.imports)

IsDefined(x) == \E i \in 1..Len(defs[x]) : Sees(defs[x][i])

\* ScopedDefines::get: the first entry of the list that is visible.
Lookup(x) == LET i == CHOOSE i \in 1..Len(defs[x]) :
                        /\ Sees(defs[x][i])
                        /\ \A j \in 1..(i - 1) : ~Sees(defs[x][j])
             IN  defs[x][i]

\* `-D NAME`, before the entry file.
AddCliDefine(x) ==
  /\ Seeding
  /\ Cardinality({y \in Names : "cli" \in Elems(defs[y])}) < MaxCli
  /\ IF defs[x] # <<>>
     THEN err' = "CliRedefinition" /\ UNCHANGED defs
     ELSE defs' = [defs EXCEPT ![x] = Append(@, "cli")] /\ UNCHANGED err
  /\ UNCHANGED <<frames, stack, uses, driverVars>>

\* A `-D` whose name is no identifier, or whose value does not lex.
BadCliDefine ==
  /\ Seeding
  /\ err' = "InvalidCliDefine"
  /\ UNCHANGED <<frames, defs, stack, uses, driverVars>>

\* `$define NAME ...`
DefineLine(x) ==
  /\ Reads("define") /\ AtTopLevel
  /\ IF \E o \in Elems(defs[x]) : Collides(Top.file, o)
     THEN Fail("Redefinition") /\ UNCHANGED defs
     ELSE /\ defs' = [defs EXCEPT ![x] = Append(@, Top.file)]
          /\ SetTop(Top)
          /\ UNCHANGED <<frames, err>>
  /\ UNCHANGED <<uses, driverVars>>

\* Slip: the compiler's defines go with the rest.
SparedUnlessOurs(o) == ~Global(o) /\ fileModule[o] # fileModule[Top.file]

\* What an `$undefine` leaves: globals, and the defines of other modules.
Spared(o) == Global(o) \/ fileModule[o] # fileModule[Top.file]

\* `$undefine NAME`
UndefineLine(x) ==
  /\ Reads("undefine") /\ AtTopLevel
  /\ defs' = [defs EXCEPT ![x] = Kept(@, {o \in Origin : Spared(o)})]
  /\ SetTop(Top)
  /\ UNCHANGED <<frames, err, uses, driverVars>>

-----------------------------------------------------------------------------
\* Ordinary tokens.

\* An identifier: replaced by the define it sees, if any.
UseLine(x) ==
  /\ Reads("use") /\ Active
  /\ SetTop([Top EXCEPT !.sawContent = TRUE])
  /\ uses' = IF IsDefined(x)
             THEN uses \cup {[file |-> Top.file, name |-> x, origin |-> Lookup(x)]}
             ELSE uses
  /\ UNCHANGED <<frames, err, defs, driverVars>>

OpenBrace ==
  /\ Reads("brace") /\ Active
  /\ SetTop([Top EXCEPT !.sawContent = TRUE, !.brace = Top.brace + 1])
  /\ UNCHANGED <<frames, err, defs, uses, driverVars>>

OneLess(n) == IF n = 0 THEN 0 ELSE n - 1

\* A `}` too many leaves the depth at zero.
CloseBrace ==
  /\ Reads("brace") /\ Active
  /\ SetTop([Top EXCEPT !.sawContent = TRUE,
                        !.brace = OneLess(Top.brace)])
  /\ UNCHANGED <<frames, err, defs, uses, driverVars>>

-----------------------------------------------------------------------------
\* Conditional directives: obeyed at any brace depth and in skipped branches,
\* where their conditions are not evaluated.

CondLine(step) ==
  /\ step
  /\ IF err' = "none" THEN SetTop(Top) ELSE UNCHANGED stack
  /\ UNCHANGED <<defs, uses, driverVars>>

\* `$ifdef NAME` (want = TRUE), `$ifndef NAME` (want = FALSE)
IfdefLine(x, want) ==
  /\ Reads("cond")
  /\ CondLine(Open(Top.file, Active /\ (IsDefined(x) <=> want)))

\* `$if EXPR`: the expression is an environment's choice, an error included.
IfLine ==
  /\ Reads("cond")
  /\ \/ \E t \in BOOLEAN : (t => Active) /\ CondLine(Open(Top.file, t))
     \/ Active /\ CondLine(Fail("InvalidIfExpression"))

ElseifdefLine(x) ==
  /\ Reads("cond") /\ OwnsTop(Top.file)
  /\ CondLine(ElseIf(Top.file, Evaluates /\ IsDefined(x)))

ElseifLine ==
  /\ Reads("cond") /\ OwnsTop(Top.file)
  /\ \/ \E t \in BOOLEAN : (t => Evaluates) /\ CondLine(ElseIf(Top.file, t))
     \/ /\ Evaluates /\ ~frames[Len(frames)].elseSeen
        /\ CondLine(Fail("InvalidIfExpression"))

ElseLine  == Reads("cond") /\ CondLine(Else(Top.file))
EndifLine == Reads("cond") /\ CondLine(EndIf(Top.file))

\* The ways a conditional directive fails whatever the branch it stands in.
BadCondLine ==
  /\ Reads("cond")
  /\ \/ CondLine(Stray(Top.file))
     \/ CondLine(AfterElse(Top.file))
     \/ CondLine(Fail("MalformedDirective"))

-----------------------------------------------------------------------------
\* Modules and imports.

\* `$module PATH`
ModuleLine(m) ==
  /\ Reads("module") /\ AtTopLevel
  /\ IF Top.moduleSeen \/ Top.sawContent
     THEN /\ Fail(IF Top.moduleSeen THEN "DuplicateModuleDirective"
                                    ELSE "ModuleAfterContent")
          /\ UNCHANGED fileModule
     ELSE /\ fileModule' = [fileModule EXCEPT ![Top.file] = m]
          /\ SetTop([Top EXCEPT !.moduleSeen = TRUE])
          /\ UNCHANGED <<frames, err>>
  /\ UNCHANGED <<defs, uses, seen, edges, imported, loads, importLines>>

\* The first root that offers the module in either form.
Offers(r, m) == FileForm[r][m] # {} \/ DirForm[r][m] # <<>>
Resolvable(m) == \E r \in 1..NumRoots : Offers(r, m)
FirstRoot(m) == CHOOSE r \in 1..NumRoots :
                   Offers(r, m) /\ \A q \in 1..(r - 1) : ~Offers(q, m)
Ambiguous(m) == /\ FileForm[FirstRoot(m)][m] # {}
                /\ DirForm[FirstRoot(m)][m] # <<>>
ModuleFiles(m) == LET r == FirstRoot(m)
                  IN  IF FileForm[r][m] # {}
                      THEN <<CHOOSE f \in FileForm[r][m] : TRUE>>
                      ELSE DirForm[r][m]

\* Slip: a module is not marked when its loading starts.
NotMarked(m) == imported

Marked(m) == imported \cup {m}

\* `$import PATH`: the edge is noted on the importing file; the first import
\* of a module marks it and starts to load its files.
ImportLine(m) ==
  /\ Reads("import") /\ AtTopLevel
  /\ SetTop([Top EXCEPT !.imports = IF m \in Elems(@) THEN @ ELSE Append(@, m)])
  /\ importLines' = importLines \cup {<<Top.file, m>>}
  /\ imported' = Marked(m)
  /\ IF m \in imported
     THEN UNCHANGED <<err, loads>>
     ELSE IF Resolvable(m) /\ ~Ambiguous(m)
     THEN /\ loads' = Append(loads, [module |-> m, files |-> ModuleFiles(m)])
          /\ UNCHANGED err
     ELSE /\ err' = IF Resolvable(m) THEN "AmbiguousModuleForms" ELSE "ModuleNotFound"
          /\ UNCHANGED loads
  /\ UNCHANGED <<frames, defs, uses, seen, fileModule, edges>>

\* A directive that is not in the table, one whose operand is malformed, and
\* any of the above between braces.
BadLine ==
  /\ Reads("bad") /\ Active
  /\ Fail(IF Top.brace > 0 THEN "DirectiveInsideBlock" ELSE "MalformedDirective")
  /\ UNCHANGED <<defs, uses, driverVars>>

-----------------------------------------------------------------------------
\* Entering and leaving files.

\* `process_file` up to its first token, for a file that was not seen before.
EnterFile(f) ==
  /\ seen' = seen \cup {f}
  /\ IF f \in Unreadable
     THEN err' = "Unreadable" /\ UNCHANGED stack
     ELSE /\ stack' = Append(stack,
                [file |-> f, moduleSeen |-> FALSE, sawContent |-> FALSE,
                 imports |-> <<>>, brace |-> 0, base |-> Len(frames), lines |-> 0])
          /\ UNCHANGED err
  /\ UNCHANGED <<frames, defs, uses, fileModule, edges, imported, importLines>>

Start == Seeding /\ EnterFile(Entry) /\ UNCHANGED loads

CurrentLoad == loads[Len(loads)]
SetLoad(l) == loads' = [loads EXCEPT ![Len(loads)] = l]

\* Slip: the file stays the next one.
SameAgain(l) == l

Rest(l) == [l EXCEPT !.files = Tail(@)]

\* The next file of the module being loaded.  One that was seen before is not
\* walked again but is judged at once.
LoadFile ==
  LET l == CurrentLoad
      f == Head(l.files)
  IN  /\ Loading /\ l.files # <<>>
      /\ IF f \notin seen
         THEN EnterFile(f) /\ SetLoad(Rest(l))
         ELSE /\ IF fileModule[f] = l.module
                 THEN SetLoad(Rest(l)) /\ UNCHANGED err
                 ELSE err' = "ModuleDeclarationMismatch" /\ UNCHANGED loads
              /\ UNCHANGED <<frames, defs, uses, stack, seen, fileModule, edges,
                             imported, importLines>>

\* The module is loaded; the importing file goes on behind its `$import`.
LoadDone ==
  /\ Loading /\ CurrentLoad.files = <<>>
  /\ loads' = SubSeq(loads, 1, Len(loads) - 1)
  /\ UNCHANGED <<frames, err, defs, stack, uses, seen, fileModule, edges,
                 imported, importLines>>

\* The imports of a finished file accrue to its module, each once.
Merged(old, imports) == old \o Kept(imports, Modules \ Elems(old))

\* Slip: what a loaded file declares is not checked.
NoVerdict(home) == "none"

\* A loaded file must have declared the module it was loaded for.
Verdict(home) == IF loads # <<>> /\ CurrentLoad.module # home
                 THEN "ModuleDeclarationMismatch" ELSE "none"

RecordEdges(home) ==
  LET old == IF home \in DOMAIN edges THEN edges[home] ELSE <<>>
  IN  edges' = [m \in DOMAIN edges \cup {home} |->
                  IF m = home THEN Merged(old, Top.imports) ELSE edges[m]]

LeaveFile ==
  /\ RecordEdges(fileModule[Top.file])
  /\ err' = Verdict(fileModule[Top.file])
  /\ stack' = SubSeq(stack, 1, Len(stack) - 1)
  /\ UNCHANGED <<defs, uses, seen, fileModule, imported, loads, importLines>>

\* Slip: the end of a file closes its open chains.
EndFileClosingChains ==
  Walking /\ LeaveFile /\ frames' = SubSeq(frames, 1, Top.base)

\* The end of the file: no chain of its own may be open; its imports accrue to
\* its module; it is judged by the module it was loaded for.
EndFile ==
  /\ Walking
  /\ IF Len(frames) > Top.base
     THEN Fail("UnterminatedConditional") /\ UNCHANGED <<defs, uses, driverVars>>
     ELSE LeaveFile /\ UNCHANGED frames

-----------------------------------------------------------------------------

PreInit ==
  /\ CondInit
  /\ defs = [x \in Names |-> IF x \in Platform THEN <<"builtin">> ELSE <<>>]
  /\ seen = {}
  /\ fileModule = [f \in Files |-> Anonymous]
  /\ edges = [m \in {} |-> <<>>]
  /\ imported = {}
  /\ stack = <<>>
  /\ loads = <<>>
  /\ uses = {}
  /\ importLines = {}

\* The walk is over, with or without an error.
Stopped == (Done \/ err # "none") /\ UNCHANGED preVars

PreStep ==
  \/ BadCliDefine \/ Start \/ LoadFile \/ LoadDone \/ EndFile
  \/ OpenBrace \/ CloseBrace \/ BadLine
  \/ IfLine \/ ElseifLine \/ ElseLine \/ EndifLine \/ BadCondLine
  \/ \E m \in Modules : ModuleLine(m) \/ ImportLine(m)
  \/ \E x \in Names :
        \/ AddCliDefine(x) \/ DefineLine(x) \/ UndefineLine(x) \/ UseLine(x)
        \/ ElseifdefLine(x)
        \/ \E want \in BOOLEAN : IfdefLine(x, want)

PreNext == PreStep \/ Stopped

PreSpec == PreInit /\ [][PreNext]_preVars

\* The driver is one sequential loop over finite files: it takes its next step
\* as long as there is one.
FairPreSpec == PreSpec /\ WF_preVars(PreStep)

-----------------------------------------------------------------------------

Homes == Modules \cup {Anonymous}

\* What can stop the walk; the malformed lines count as one kind.
Errors == {"none", "CliRedefinition", "InvalidCliDefine", "Redefinition", "InvalidIfExpression",
           "MalformedDirective", "DirectiveInsideBlock", "StrayConditional",
           "ConditionalAfterElse", "UnterminatedConditional", "DuplicateModuleDirective",
           "ModuleAfterContent", "ModuleNotFound", "AmbiguousModuleForms",
           "ModuleDeclarationMismatch", "Unreadable"}

PreTypeOK ==
  /\ CondTypeOK
  /\ err \in Errors
  /\ defs \in [Names -> Seq(Origin)]
  /\ seen \subseteq Files
  /\ fileModule \in [Files -> Homes]
  /\ DOMAIN edges \subseteq Homes
  /\ \A m \in DOMAIN edges : edges[m] \in Seq(Modules)
  /\ imported \subseteq Modules
  /\ stack \in Seq(Context)
  /\ loads \in Seq(Load)
  /\ uses \subseteq [file : Files, name : Names, origin : Origin]
  /\ importLines \subseteq Files \X Modules

\* Files and imports nest: a file other than the entry is walked on behalf of
\* the import right below it, which the file below that one asked for; and no
\* file is walked, no module loaded, inside its own walk, however the imports
\* are circular.
WalkNests ==
  /\ Len(stack) \in {Len(loads), Len(loads) + 1}
  /\ \A k \in 1..Len(loads) :
        /\ loads[k].module \in Elems(stack[k].imports)
        /\ k < Len(stack) =>
              stack[k + 1].file \in Elems(ModuleFiles(loads[k].module))
  /\ \A j, k \in 1..Len(stack) : stack[j].file = stack[k].file => j = k
  /\ \A j, k \in 1..Len(loads) : loads[j].module = loads[k].module => j = k

\* Chains never span files: the open chains a file opened are exactly those
\* between its baseline and the baseline of the file it is importing, so a
\* closing directive can only close a chain of its own file.
ChainsFollowFiles ==
  \A k \in 1..Len(stack), i \in 1..Len(frames) :
     frames[i].opened = stack[k].file
        <=> /\ stack[k].base < i
            /\ k < Len(stack) => i <= stack[k + 1].base

\* An imported file starts in live text and its importers' chains stay in
\* their live branch while it is walked: nothing outside a file can make it
\* skip.
ImportersAreLive ==
  \A k \in 1..Len(stack), i \in 1..Len(frames) :
     i <= stack[k].base => frames[i].state = "live"

\* A define of the compiler or of the command line is final: no `$define`
\* shadows or duplicates it, no `$undefine` of any file removes it.
GlobalsAreFinal ==
  [][\A x \in Names : (\E o \in Elems(defs[x]) : Global(o)) => defs'[x] = defs[x]]_preVars

\* When the walk succeeds every imported module is complete: all its files
\* were walked and all declare it, also those that were judged while they were
\* still walked; and nothing else was read.
ModulesAreWhole ==
  Done => /\ \A m \in imported : \A f \in Elems(ModuleFiles(m)) :
                f \in seen /\ fileModule[f] = m
          /\ \A f \in seen : f = Entry \/ fileModule[f] \in imported

\* The import graph handed to the parser (`PreprocessedSource::imports`) has an
\* entry for exactly the modules that have files, and the entry lists exactly the
\* modules its files import, each once, wherever in the file the `$module` stood.
GraphIsExact ==
  Done => /\ DOMAIN edges = {fileModule[f] : f \in seen}
          /\ \A m \in DOMAIN edges :
                /\ Elems(edges[m]) =
                      {p[2] : p \in {q \in importLines : fileModule[q[1]] = m}}
                /\ Len(edges[m]) = Cardinality(Elems(edges[m]))

\* Non-transitive visibility: the tables keep their shape, the import graph comes
\* out exact, and judged by that graph and the final module of every file each
\* substitution that was made took a global define, one of the using file's own
\* module, or one of a module that module imports directly.
SubstitutionIsScoped ==
  /\ PreTypeOK /\ GraphIsExact
  /\ Done => \A u \in uses :
        \/ Global(u.origin)
        \/ fileModule[u.origin] = fileModule[u.file]
        \/ fileModule[u.origin] \in Elems(edges[fileModule[u.file]])

\* The walk ends, import cycles or not.
Termination == <>(Done \/ err # "none")
=============================================================================
