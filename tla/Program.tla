------------------------------ MODULE Program ------------------------------
(***************************************************************************)
(* The two-pass parse of a program (src/parser/program.rs, with the        *)
(* declaration parsers, the symbol table and the visibility gates it       *)
(* calls): type names are reserved, aliases are resolved to a fixpoint,    *)
(* pass 1 registers signatures, globals and layouts and sets bodies aside, *)
(* the layouts are searched for by-value cycles (module Cycles), pass 2    *)
(* parses the bodies, and the bodies are filled in by name.                *)
(*                                                                         *)
(* A program is a sequence of declarations.  Of a declaration the model    *)
(* keeps what the tables and the gates see: its form, name, file and       *)
(* `public`; `refs`, the types it names in order (fields, payloads,        *)
(* parameters, the alias's target, the global's type); `body`, the names   *)
(* its statements or its initializer use; and a type-struct's `methods`.   *)
(* The grammar inside a declaration is left out, and so are locals other   *)
(* than the type they are declared with, array suffixes (by-value storage  *)
(* like the element) and function-pointer types.                           *)
(***************************************************************************)
EXTENDS Cycles, FiniteSetsExt, SequencesExt

CONSTANTS
  Files,      \* the values of Position::file_id
  Modules,    \* module names, the anonymous root module included
  ModuleOf,   \* file -> module it belongs to
  Imports,    \* module -> the modules it imports directly
  Builtins,   \* the types the lexer knows
  Texts       \* the programs considered: a set of sequences of declarations

ASSUME RegistryAssumption == /\ ModuleOf \in [Files -> Modules]
                             /\ Imports \in [Modules -> SUBSET Modules]

VARIABLES
  text,       \* the program being parsed
  phase,      \* where do_parse_program is
  at,         \* pass 1: the declaration the cursor is on
  sites,      \* the alias declarations prescan_aliases has not resolved
  todo,       \* ... and those of them this round has yet to try
  before,     \* how many there were when the round began
  installed,  \* alias_prescan_sites
  types,      \* ModuleSymbols::types by name
  functions,  \* ModuleSymbols::functions
  globals,    \* the outermost variable scope, with global_vis
  items,      \* the functions of the Program being built
  pending,    \* pending_bodies
  bodies,     \* pass 2's parsed bodies by name, each the site it came from
  errors,     \* the errors collected, each with its declaration's number
  result      \* "none", "accepted" or "rejected"

parseVars == <<text, phase, at, sites, todo, before, installed, types,
               functions, globals, items, pending, bodies, errors, result>>
vars == <<parseVars, cycVars>>

Nominal == {"type", "enum", "sum"}
Sites   == Nat \X Nat      \* declaration number, method number (0: none)

Ref  == [to : Types \cup Builtins, ptr : BOOLEAN]
Use  == [op : {"call", "read", "local"}, name : STRING]
Method == [name : STRING, refs : Seq(Ref), body : Seq(Use)]
Declaration ==
  [form : Nominal \cup {"alias", "fn", "extern", "asm", "global"},
   name : STRING, file : Files, public : BOOLEAN,
   refs : Seq(Ref), body : Seq(Use), methods : Seq(Method)]

\* What the grammar lets through: the name of a builtin is a token of its own
\* kind, and an alias has one target, a global one type.
ASSUME ProgramAssumption ==
  /\ Types \cap Builtins = {}
  /\ \A s \in Texts :
       /\ s \in Seq(Declaration)
       /\ \A i \in DOMAIN s :
            /\ s[i].form \in Nominal \cup {"alias"} => s[i].name \in Types
            /\ s[i].form \in {"alias", "global"} => Len(s[i].refs) = 1

-----------------------------------------------------------------------------
(* Resolving names *)

SameModule(d, u) == ModuleOf[d] = ModuleOf[u]

\* What file d defines may be named in file u.
ImportVisible(d, u) == SameModule(d, u) \/ ModuleOf[d] \in Imports[ModuleOf[u]]

\* The gate for a function or a global.
NameVisible(x, f) == ImportVisible(x.file, f) /\ (x.public \/ SameModule(x.file, f))

\* The gate for a named type; an alias carries no visibility of its own.
TypeVisible(t, f) ==
  /\ ImportVisible(types[t].file, f)
  /\ types[t].kind = "alias" \/ types[t].public \/ SameModule(types[t].file, f)

Registered(t) == t \in DOMAIN types

\* Slip: the gate looks at the name written only, not at what it stands for.
ResolvesAsWritten(r, f) ==
  r.to \in Builtins \/ (Registered(r.to) /\ TypeVisible(r.to, f))

\* parse_type succeeds on the type expression r in file f.
Resolves(r, f) ==
  \/ r.to \in Builtins
  \/ /\ Registered(r.to)
     /\ TypeVisible(r.to, f)
     /\ types[r.to].kind = "alias" /\ types[r.to].target.base \notin Builtins
          => TypeVisible(types[r.to].target.base, f)

\* The type it yields: aliases are resolved eagerly, pointer depths add up.
Meaning(r) ==
  IF Registered(r.to) /\ types[r.to].kind = "alias"
  THEN [base |-> types[r.to].target.base, ptr |-> types[r.to].target.ptr \/ r.ptr]
  ELSE [base |-> r.to, ptr |-> r.ptr]

AllResolve(refs, f) == \A i \in DOMAIN refs : Resolves(refs[i], f)
Meanings(refs) == [i \in DOMAIN refs |-> Meaning(refs[i])]

\* A statement: a local of a named type, or a name read or called.  A global
\* shadows a function; an unknown name that is not called gets a placeholder
\* type and is left to the type checker.
StatementParses(s, f) ==
  IF s.op = "local" THEN Resolves([to |-> s.name, ptr |-> FALSE], f)
  ELSE IF s.name \in DOMAIN globals
       THEN s.op = "read" /\ NameVisible(globals[s.name], f)
  ELSE IF s.name \in DOMAIN functions THEN NameVisible(functions[s.name], f)
  ELSE s.op = "read"

-----------------------------------------------------------------------------
(* The prescans *)

NoTarget == [base |-> "-", ptr |-> FALSE]

Init ==
  /\ text \in Texts
  /\ phase = "names" /\ at = 1
  /\ sites = {} /\ todo = {} /\ before = 0 /\ installed = {}
  /\ types = <<>> /\ functions = <<>> /\ globals = <<>>
  /\ items = <<>> /\ pending = <<>> /\ bodies = <<>>
  /\ errors = {} /\ result = "none"
  /\ contains = [t \in Types |-> {}]
  /\ WalkStarts

\* prescan_type_names: the first declaration of a name reserves it.
ReserveNames ==
  /\ phase = "names"
  /\ LET declares(i) == text[i].form \in Nominal
         names       == {text[i].name : i \in {j \in DOMAIN text : declares(j)}}
         first(n)    == text[Min({i \in DOMAIN text : declares(i) /\ text[i].name = n})]
     IN types' = [n \in names |->
                   [kind |-> first(n).form, file |-> first(n).file,
                    public |-> first(n).public, defined |-> FALSE,
                    target |-> NoTarget, parts |-> <<>>]]
  /\ sites'  = {i \in DOMAIN text : text[i].form = "alias"}
  /\ todo'   = sites'
  /\ before' = Cardinality(sites')
  /\ phase'  = "aliases"
  /\ UNCHANGED <<text, at, installed, functions, globals, items, pending,
                 bodies, errors, result, cycVars>>

\* The alias's name is free and its target resolves.
AliasParses(d) == ~Registered(d.name) /\ AllResolve(d.refs, d.file)

Alias(d) == [kind |-> "alias", file |-> d.file, public |-> FALSE, defined |-> TRUE,
             target |-> Meaning(d.refs[1]), parts |-> <<>>]

WithType(n, t) == [m \in DOMAIN types \cup {n} |-> IF m = n THEN t ELSE types[m]]

RetainsSite(d) == ~AliasParses(d)

\* One step of a round: try_prescan_alias at the next site.
TryAlias ==
  /\ phase = "aliases"
  /\ todo # {}
  /\ LET i == Min(todo)
         d == text[i]
     IN /\ todo' = todo \ {i}
        /\ sites' = IF RetainsSite(d) THEN sites ELSE sites \ {i}
        /\ IF AliasParses(d)
           THEN types' = WithType(d.name, Alias(d)) /\ installed' = installed \cup {i}
           ELSE UNCHANGED <<types, installed>>
  /\ UNCHANGED <<text, phase, at, before, functions, globals, items, pending,
                 bodies, errors, result, cycVars>>

\* Slip: one round over the sites is taken to be enough.
OneRound == TRUE

NoMoreRounds == sites = {} \/ Cardinality(sites) = before

\* The end of a round: another one if this one resolved something.
EndRound ==
  /\ phase = "aliases"
  /\ todo = {}
  /\ IF NoMoreRounds
     THEN phase' = "pass1" /\ UNCHANGED <<todo, before>>
     ELSE todo' = sites /\ before' = Cardinality(sites) /\ UNCHANGED phase
  /\ UNCHANGED <<text, at, sites, installed, types, functions, globals, items,
                 pending, bodies, errors, result, cycVars>>

-----------------------------------------------------------------------------
(* Pass 1: one declaration per step; the first error ends the parse *)

Here == text[at]

\* parse_program drops the parser with its tables, so what the failing
\* declaration had entered in them before its error is not kept.
Abort ==
  /\ errors' = errors \cup {at}
  /\ phase'  = "done"
  /\ result' = "rejected"
  /\ UNCHANGED <<text, at, sites, todo, before, installed, types, functions,
                 globals, items, pending, bodies, cycVars>>

\* The cursor moves on; what the declaration's parser changed is said there.
Next1 == /\ at' = at + 1
         /\ UNCHANGED <<text, phase, sites, todo, before, installed, bodies,
                        errors, result, cycVars>>

\* parse_type_alias: a prescanned site is only consumed again; any other is
\* parsed for the error it produces.
ParseAlias ==
  /\ Here.form = "alias"
  /\ IF at \in installed
     THEN IF AllResolve(Here.refs, Here.file) THEN Next1 /\ UNCHANGED types ELSE Abort
     ELSE IF AliasParses(Here)
          THEN Next1 /\ types' = WithType(Here.name, Alias(Here))
          ELSE Abort
  /\ UNCHANGED <<functions, globals, items, pending>>

\* claim_type_decl: reserved under this kind and not defined yet.
Claimable(d) == types[d.name].kind = d.form /\ ~types[d.name].defined

Defined(d) == [types EXCEPT ![d.name].defined = TRUE,
                            ![d.name].parts = Meanings(d.refs)]

\* add_function refuses a second body, and a body that does not fit the
\* declaration before it.
Clashes(s) ==
  /\ s.name \in DOMAIN functions
  /\ s.hasBody
  /\ functions[s.name].hasBody \/ functions[s.name].sig # s.sig

Symbol(d) == [name |-> d.name, sig |-> Meanings(d.refs), hasBody |-> d.form # "extern",
              file |-> d.file, public |-> d.public]

\* HashMap::insert of each symbol, the later one winning.
WithFunctions(ss) ==
  LET names == {ss[i].name : i \in DOMAIN ss}
      last(n) == ss[Max({i \in DOMAIN ss : ss[i].name = n})]
  IN [n \in DOMAIN functions \cup names |-> IF n \in names THEN last(n) ELSE functions[n]]

\* mangle_method
Mangled(t, m) == t \o "$" \o m

\* `$` is a token of its own: nothing a program declares or uses has the name of
\* a method's function, and no two methods of different names share one.
ASSUME MangledAssumption ==
  \A p \in Texts : \A i, j \in DOMAIN p : \A k \in DOMAIN p[i].methods :
    LET n == Mangled(p[i].name, p[i].methods[k].name)
    IN /\ n # p[j].name
       /\ \A u \in DOMAIN p[j].body : n # p[j].body[u].name
       /\ \A l \in DOMAIN p[j].methods :
            /\ \A u \in DOMAIN p[j].methods[l].body : n # p[j].methods[l].body[u].name
            /\ n = Mangled(p[j].name, p[j].methods[l].name) =>
                 p[i].name = p[j].name /\ p[i].methods[k].name = p[j].methods[l].name

\* What a method lowers to: a free function of the type's file whose first
\* parameter is a pointer to the type.
Lowered(d, m) ==
  [form |-> "fn", name |-> Mangled(d.name, m.name), file |-> d.file, public |-> FALSE,
   refs |-> <<[to |-> d.name, ptr |-> TRUE]>> \o m.refs, body |-> m.body]

Methods(d) == [k \in DOMAIN d.methods |-> Lowered(d, d.methods[k])]

\* A function of the Program: extern, asm, or an Aspect body filled in later.
Item(d, site) == [name |-> d.name, site |-> site, body |-> {},
                  kind |-> IF d.form = "fn" THEN "aspect" ELSE d.form]

Deferred(d, site) == [name |-> d.name, site |-> site, file |-> d.file, body |-> d.body]

\* parse_struct_def: fields, then methods, each registered as it is parsed.
ParseType ==
  /\ Here.form = "type"
  /\ LET ms   == Methods(Here)
         syms == [k \in DOMAIN ms |-> Symbol(ms[k])]
     IN IF /\ Claimable(Here)
           /\ AllResolve(Here.refs, Here.file)
           /\ \A k \in DOMAIN ms :
                /\ AllResolve(Here.methods[k].refs, Here.file)
                /\ ~Clashes(syms[k])
                /\ \A j \in 1..(k - 1) : ms[j].name # ms[k].name
        THEN /\ types'     = Defined(Here)
             /\ functions' = WithFunctions(syms)
             /\ items'     = items \o [k \in DOMAIN ms |-> Item(ms[k], <<at, k>>)]
             /\ pending'   = pending \o [k \in DOMAIN ms |-> Deferred(ms[k], <<at, k>>)]
             /\ Next1
        ELSE Abort
  /\ UNCHANGED globals

\* parse_enum_def, parse_sum_def
ParseVariants ==
  /\ Here.form \in {"enum", "sum"}
  /\ IF Claimable(Here) /\ AllResolve(Here.refs, Here.file)
     THEN types' = Defined(Here) /\ Next1
     ELSE Abort
  /\ UNCHANGED <<functions, globals, items, pending>>

\* parse_function, parse_asm_function, parse_naked_function
ParseFunction ==
  /\ Here.form \in {"fn", "extern", "asm"}
  /\ IF AllResolve(Here.refs, Here.file) /\ ~Clashes(Symbol(Here))
     THEN /\ functions' = WithFunctions(<<Symbol(Here)>>)
          /\ items'     = Append(items, Item(Here, <<at, 0>>))
          /\ pending'   = IF Here.form = "fn"
                          THEN Append(pending, Deferred(Here, <<at, 0>>)) ELSE pending
          /\ Next1
     ELSE Abort
  /\ UNCHANGED <<types, globals>>

\* parse_global_var: the initializer sees what pass 1 has registered so far,
\* the variable itself not included.
ParseGlobal ==
  /\ Here.form = "global"
  /\ IF /\ AllResolve(Here.refs, Here.file)
        /\ \A i \in DOMAIN Here.body : StatementParses(Here.body[i], Here.file)
        /\ Here.name \notin DOMAIN globals
     THEN /\ globals' = [n \in DOMAIN globals \cup {Here.name} |->
                          IF n \in DOMAIN globals THEN globals[n]
                          ELSE [file |-> Here.file, public |-> Here.public,
                                type |-> Meaning(Here.refs[1])]]
          /\ Next1
     ELSE Abort
  /\ UNCHANGED <<types, functions, items, pending>>

ParseItem ==
  /\ phase = "pass1"
  /\ at \in DOMAIN text
  /\ ParseAlias \/ ParseType \/ ParseVariants \/ ParseFunction \/ ParseGlobal

-----------------------------------------------------------------------------
(* Containment cycles, pass 2, and the fill *)

\* What a value of the type t stores by value: a pointer ends the chain, and
\* so does anything that is neither a type-struct nor a sum.
Parts(t) ==
  IF Registered(t) /\ types[t].kind \in {"type", "sum"}
  THEN {types[t].parts[i].base : i \in {j \in DOMAIN types[t].parts : ~types[t].parts[j].ptr}}
         \cap {u \in DOMAIN types : types[u].kind \in {"type", "sum"}}
  ELSE {}

\* Pass 1 has reached the end of the tokens: every layout is final.
StartCycles ==
  /\ phase = "pass1"
  /\ at \notin DOMAIN text
  /\ contains' = [t \in Types |-> Parts(t)]
  /\ phase' = "cycles"
  /\ UNCHANGED <<text, at, sites, todo, before, installed, types, functions,
                 globals, items, pending, bodies, errors, result,
                 colors, path, cyclic, rank, clock>>

WalkCycles == phase = "cycles" /\ CycNext /\ UNCHANGED parseVars

\* check_byvalue_containment_cycles: one error per reported type.
ReportCycles ==
  /\ phase = "cycles"
  /\ Walked
  /\ errors' = errors \cup {i \in DOMAIN text : text[i].form \in Nominal /\ text[i].name \in cyclic}
  /\ phase'  = "pass2"
  /\ UNCHANGED <<text, at, sites, todo, before, installed, types, functions,
                 globals, items, pending, bodies, result, cycVars>>

\* parse_pending_bodies, one body per step.  A statement that fails is an
\* error, and sync! goes on with the next one.
ParseBody ==
  /\ phase = "pass2"
  /\ pending # <<>>
  /\ LET p == Head(pending)
     IN /\ errors' = IF \A i \in DOMAIN p.body : StatementParses(p.body[i], p.file)
                     THEN errors ELSE errors \cup {p.site[1]}
        /\ bodies' = [n \in DOMAIN bodies \cup {p.name} |->
                       IF n = p.name THEN p.site ELSE bodies[n]]
  /\ pending' = Tail(pending)
  /\ UNCHANGED <<text, phase, at, sites, todo, before, installed, types,
                 functions, globals, items, result, cycVars>>

\* Slip: the k-th function takes the k-th body parsed, extern or not.
TakesNth(k) ==
  LET precedes(a, b) == a[1] < b[1] \/ (a[1] = b[1] /\ a[2] < b[2])
      parsed == SetToSortSeq({bodies[n] : n \in DOMAIN bodies}, precedes)
  IN IF k <= Len(parsed) THEN {parsed[k]} ELSE {}

\* The body bodies.remove(name) yields for the k-th function: the first
\* function of a name takes it, whatever its kind, and leaves none.
Takes(k) ==
  IF /\ items[k].name \in DOMAIN bodies
     /\ \A j \in 1..(k - 1) : items[j].name # items[k].name
  THEN {bodies[items[k].name]} ELSE {}

\* The bodies are filled in, and parse_program gives its verdict.
Fill ==
  /\ phase = "pass2"
  /\ pending = <<>>
  /\ items' = [k \in DOMAIN items |->
                IF Takes(k) = {} THEN items[k]
                ELSE [items[k] EXCEPT !.kind = "aspect", !.body = Takes(k)]]
  /\ phase'  = "done"
  /\ result' = IF errors = {} THEN "accepted" ELSE "rejected"
  /\ UNCHANGED <<text, at, sites, todo, before, installed, types, functions,
                 globals, pending, bodies, errors, cycVars>>

Next == \/ ReserveNames \/ TryAlias \/ EndRound
        \/ ParseItem
        \/ StartCycles \/ WalkCycles \/ ReportCycles
        \/ ParseBody \/ Fill

Spec == Init /\ [][Next]_vars

-----------------------------------------------------------------------------
(* What a program p means, whatever the order of its declarations *)

Decls(p, forms) == {i \in DOMAIN p : p[i].form \in forms}
TypeDecls(p)    == Decls(p, Nominal \cup {"alias"})
FnDecls(p)      == Decls(p, {"fn", "extern", "asm"})
GlobalDecls(p)  == Decls(p, {"global"})

DistinctNames(p, D) == \A i, j \in D : p[i].name = p[j].name => i = j

\* The declaration of a name among those numbered D, when there is just one.
Declares(p, D, n) == {i \in D : p[i].name = n}
The(p, D, n) == p[CHOOSE i \in Declares(p, D, n) : TRUE]

\* A dash is no name.
ASSUME NamesAssumption == "-" \notin Types \cup Builtins

\* What each name stands for, following at most k aliases.
Stands(p) ==
  LET s[k \in Nat] ==
        [n \in Types \cup Builtins |->
           IF n \in Builtins THEN [base |-> n, ptr |-> FALSE]
           ELSE IF Declares(p, TypeDecls(p), n) = {} THEN NoTarget
           ELSE LET d == The(p, TypeDecls(p), n)
                IN  IF d.form # "alias" THEN [base |-> n, ptr |-> FALSE]
                    ELSE IF k = 0 THEN NoTarget
                    ELSE LET r == d.refs[1]
                         IN  [base |-> s[k - 1][r.to].base, ptr |-> s[k - 1][r.to].ptr \/ r.ptr]]
  IN s

StandsFor(p, n) == Stands(p)[Len(p)][n]

\* Code of file f may use what file g of the same module or of a module it
\* imports directly defines; across modules, what is public there.
Sees(f, g)   == \/ ModuleOf[f] = ModuleOf[g]
                \/ ModuleOf[g] \in Imports[ModuleOf[f]]
MayUse(f, d) == Sees(f, d.file) /\ (d.public \/ ModuleOf[f] = ModuleOf[d.file])

\* n names a type, and file f may name both it and what it stands for.
Nameable(p, n, f) ==
  \/ n \in Builtins
  \/ /\ n \in Types
     /\ LET b == StandsFor(p, n).base
        IN /\ b # "-"
           /\ Sees(f, The(p, TypeDecls(p), n).file)
           /\ b \in Builtins \/ MayUse(f, The(p, TypeDecls(p), b))

AllNameable(p, refs, f) == \A i \in DOMAIN refs : Nameable(p, refs[i].to, f)

\* A name used where the functions Fs and the globals Gs are in sight.
Usable(p, s, f, Fs, Gs) ==
  IF s.op = "local" THEN Nameable(p, s.name, f)
  ELSE IF Declares(p, Gs, s.name) # {} THEN s.op = "read" /\ MayUse(f, The(p, Gs, s.name))
  ELSE IF Declares(p, Fs, s.name) # {} THEN MayUse(f, The(p, Fs, s.name))
  ELSE s.op = "read"

AllUsable(p, body, f, Fs, Gs) == \A k \in DOMAIN body : Usable(p, body[k], f, Fs, Gs)

\* The types a declared type stores by value.
Stores(p, n) ==
  LET d == The(p, TypeDecls(p), n)
  IN  IF d.form \in {"type", "sum"}
      THEN {StandsFor(p, r.to).base : r \in {q \in Range(d.refs) :
                                               ~q.ptr /\ ~StandsFor(p, q.to).ptr}}
      ELSE {}

FiniteLayouts(p) ==
  \A S \in SUBSET {p[i].name : i \in Decls(p, {"type", "sum"})} :
    S # {} => \E n \in S : Stores(p, n) \cap S = {}

Upto(D, i) == {j \in D : j < i}

WellFormed(p) ==
  /\ DistinctNames(p, TypeDecls(p)) /\ DistinctNames(p, FnDecls(p))
  /\ DistinctNames(p, GlobalDecls(p))
  /\ \A i \in DOMAIN p : AllNameable(p, p[i].refs, p[i].file)
  /\ \A i \in Decls(p, {"fn"}) :
       AllUsable(p, p[i].body, p[i].file, FnDecls(p), GlobalDecls(p))
  \* The one exception to order: an initializer sees what stands before it.
  /\ \A i \in GlobalDecls(p) :
       AllUsable(p, p[i].body, p[i].file, Upto(FnDecls(p), i), Upto(GlobalDecls(p), i))
  /\ \A i \in Decls(p, {"type"}) : \A k \in DOMAIN p[i].methods :
       LET m == p[i].methods[k]
       IN /\ AllNameable(p, m.refs, p[i].file)
          /\ \A j \in DOMAIN p[i].methods : p[i].methods[j].name = m.name => j = k
          /\ AllUsable(p, m.body, p[i].file, FnDecls(p), GlobalDecls(p))
  /\ FiniteLayouts(p)

\* No function is both declared `extern` and declared again.
NoRedeclaration(p) ==
  \A i, j \in FnDecls(p) : p[i].name = p[j].name /\ p[i].form = "extern" => i = j

-----------------------------------------------------------------------------
(* Properties *)

TypeShape == [kind : Nominal \cup {"alias"}, file : Files, public : BOOLEAN,
              defined : BOOLEAN,
              target : [base : Types \cup Builtins \cup {"-"}, ptr : BOOLEAN],
              parts : Seq([base : Types \cup Builtins, ptr : BOOLEAN])]

\* The shape of the tables.  A body in an item is the site it was parsed at.
TypeOK ==
  /\ phase \in {"names", "aliases", "pass1", "cycles", "pass2", "done"}
  /\ at \in 1..(Len(text) + 1)
  /\ todo \subseteq sites /\ sites \subseteq DOMAIN text
  /\ installed \subseteq DOMAIN text \ sites
  /\ DOMAIN types \subseteq Types
  /\ \A t \in DOMAIN types : types[t] \in TypeShape
  /\ \A k \in DOMAIN items : /\ items[k].site \in Sites
                             /\ items[k].kind \in {"aspect", "extern", "asm"}
                             /\ items[k].body \subseteq Sites
  /\ \A n \in DOMAIN bodies : bodies[n] \in Sites
  /\ result = "none" <=> phase # "done"
  /\ CycTypeOK

\* "Declaration order is thus non-semantic, with one exception": the prescans,
\* the two passes and the walk accept exactly the programs that are well
\* formed by a reading that never asks what comes first, initializers aside.
VerdictIsOrderFree ==
  phase = "done" /\ NoRedeclaration(text) => (result = "accepted" <=> WellFormed(text))

\* "Aliasing does not launder module visibility" (type_expr.rs): no table of an
\* accepted program holds, for a file, a type that file may not name.
NoLaundering ==
  result = "accepted" =>
    LET usable(m, f) == m.base \in Builtins \/ MayUse(f, types[m.base])
    IN /\ \A t \in DOMAIN types :
            /\ \A m \in Range(types[t].parts) : usable(m, types[t].file)
            /\ types[t].kind = "alias" => usable(types[t].target, types[t].file)
       /\ \A n \in DOMAIN functions :
            \A m \in Range(functions[n].sig) : usable(m, functions[n].file)
       /\ \A n \in DOMAIN globals : usable(globals[n].type, globals[n].file)

\* The tables keep their shape, and in an accepted program every name a prescan
\* reserved was given its body, and every function that shares its name with no
\* other holds the body that stands at its own site.
AcceptedIsComplete ==
  TypeOK /\ (result = "accepted" =>
    /\ \A t \in DOMAIN types : types[t].defined
    /\ \A k \in DOMAIN items :
         (\A j \in DOMAIN items : items[j].name = items[k].name => j = k)
           => items[k].body = IF items[k].kind = "aspect" THEN {items[k].site} ELSE {})
=============================================================================
