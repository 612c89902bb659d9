------------------------------ MODULE Adapters ------------------------------
(***************************************************************************)
(* A repository of one language that is written statement by statement, and *)
(* what its adapter makes of it each time: every file is extracted by       *)
(* itself, then each is resolved with all of them in sight (analyze_files   *)
(* of each lang/*/mod.rs). An adapter sees no file of another language, so  *)
(* that a repository of several is one of each.                             *)
(***************************************************************************)
EXTENDS Python, Rust, Go, C

CONSTANTS
  TsFiles, TsKnown, TsMinified, TsRelative, TsPatterns, TsMatches, TsConfigs, RootConfig, TsRoot,
  TsProbe, TsBuiltin, MaxExtends, MaxReexports,
  Beginnings,  \* for each language, the sources to start from
  Writable,    \* for each language, the statements that may be added: a file
               \*   and a statement of it
  MaxWrites    \* model bound: statements added

Ts == INSTANCE TypeScript

VARIABLES
  language,
  sources,  \* the statements of every file that is analysed
  index,    \* the IR of every file, as the analysis of `sources` left it
  writes    \* statements added so far

adapters == <<language, sources, index, writes>>

-----------------------------------------------------------------------------
(* What can be written. A base is said where the class is declared.         *)
FilesOf(l) ==
  CASE l = "typescript" -> TsKnown [] l = "python" -> PyFiles [] l = "rust" -> RsFiles
    [] l = "go" -> GoFiles [] l = "c" -> CFiles
StatementsOf(l) ==
  CASE l = "typescript" -> Ts!TsStatements [] l = "python" -> PyStatements [] l = "rust" -> RsStatements
    [] l = "go" -> GoStatements [] l = "c" -> CStatements
MayInherit(s, source) ==
  s.is = "inherits" => \E i \in DOMAIN source : source[i] = Def(s.name, NONE, "class")

IsRepository(l, written) ==
  /\ written \in [FilesOf(l) -> Seq(StatementsOf(l))]
  /\ \A f \in FilesOf(l) : \A i \in DOMAIN written[f] : MayInherit(written[f][i], written[f])

ASSUME WritingAssumption ==
  /\ DOMAIN Beginnings \subseteq {"typescript", "python", "rust", "go", "c"}
  /\ \A l \in DOMAIN Beginnings :
       /\ \A written \in Beginnings[l] : IsRepository(l, written)
       /\ \A w \in Writable[l] : /\ w[1] \in FilesOf(l) /\ w[2] \in StatementsOf(l)
                                 /\ \A written \in Beginnings[l] : MayInherit(w[2], written[w[1]])

(* The kinds of symbols that are told apart (SymbolKind).                   *)
SymbolKinds == {"module", "class", "interface", "function", "method", "property", "variant"}

(* NONE is none of the values it stands beside: a name, a path, a symbol, a *)
(* package or an import.                                                    *)
ASSUME FilesAssumption ==
  /\ \A files \in {TsKnown, PyFiles, RsFiles, GoFiles, CFiles} : files \subseteq Nat /\ IsFiniteSet(files)
  /\ \A spec \in DOMAIN TsRelative : TsRelative[spec] \in Seq(TsFiles)
  /\ PyDirectory \in [PyFiles -> Seq(Nat)]
  /\ NONE \notin Nat /\ NONE \notin Path
  /\ NONE \notin [file : Nat, name : Nat, owner : Owner, kind : SymbolKinds]
  /\ NONE \notin [file : Nat, name : Nat, kind : SymbolKinds]
  /\ NONE \notin [package : Nat]
  /\ NONE \notin [file : Nat, name : Nat] /\ NONE \notin [module : Seq(Nat), name : Nat]
  /\ NONE \notin [spec : [dots : Nat, path : Seq(Nat)], name : Nat]
  /\ MaxReexports \in Nat /\ MaxInits \in Nat /\ MaxPubUses \in Nat

Extract(l, file, source) ==
  CASE l = "typescript" -> Ts!TsFileIR(file, source)
    [] l = "python" -> ExtractPy(file, source)
    [] l = "rust" -> ExtractRs(file, source)
    [] l = "go" -> ExtractGo(file, source)
    [] l = "c" -> ExtractC(file, source)

Resolve(l, irs, file) ==
  CASE l = "typescript" -> Ts!ResolveTs(irs, file)
    [] l = "python" -> ResolvePy(irs, file)
    [] l = "rust" -> ResolveRs(irs, file)
    [] l = "go" -> ResolveGo(irs, file)
    [] l = "c" -> ResolveC(irs, file)

Extracted(l, written) == [f \in DOMAIN written |-> Extract(l, f, written[f])]
Analysis(l, written) ==
  LET irs == Extracted(l, written) IN [f \in DOMAIN irs |-> Resolve(l, irs, f)]

Checkout ==
  /\ language \in DOMAIN Beginnings
  /\ sources \in Beginnings[language]
  /\ index = Analysis(language, sources)
  /\ writes = 0

(* A file is saved and the repository is analysed again.                    *)
WriteStatement ==
  /\ language # NONE /\ writes < MaxWrites
  /\ \E w \in Writable[language] :
       /\ sources' = [sources EXCEPT ![w[1]] = Append(@, w[2])]
       /\ index' = Analysis(language, sources')
  /\ writes' = writes + 1
  /\ UNCHANGED language

AdaptersSpec == Checkout /\ [][WriteStatement]_adapters

-----------------------------------------------------------------------------
(* What is left when the graph is built: both ends are of the repository,   *)
(* or the target is a package.                                              *)
SymbolsOfAll == UNION {index[f].symbols : f \in DOMAIN index}
EdgesAt(f, i) ==
  {r \in index[f].relationships :
     r.line = i /\ r.from \in index[f].symbols /\ (IsPackage(r.to) \/ r.to \in SymbolsOfAll)}
Reported(f, i) == i \in index[f].diagnostics
(* Some of what TypeScript reports gives no line, only what it is about.    *)
ReportedAs(f, what) == language = "typescript" /\ what \in index[f].unplaced
ReportedMissing(f, s) ==
  language = "typescript" /\ s.is \in {"import", "reexport"} /\ ReportedAs(f, Ts!MissingFile(Ts!Destination(s.spec)))
IsLookedInto(f) ==
  CASE language = "typescript" -> f \notin TsMinified
    [] language = "python" -> f \notin PyGenerated
    [] language = "rust" -> f \notin RsGenerated
    [] language = "go" -> f \notin GoGenerated
    [] language = "c" -> f \notin CGenerated
Written(f, is) == {i \in DOMAIN sources[f] : IsLookedInto(f) /\ sources[f][i].is \in is}

(* What a file says it takes from another, or is a kind of, leaves an edge  *)
(* or a diagnostic, at its line or, of a file that tsconfig leads to and    *)
(* that is not analysed, by the name of that file: no statement is lost     *)
(* without a word. But the name of a built-in type is not looked for, an    *)
(* `export *` of TypeScript from a file that declares nothing exports       *)
(* nothing, as a `use` of Rust may name none, and an `impl` is taken for    *)
(* that of a struct of its file whatever the type is.                       *)
IsBuiltinName(s) ==
  \/ s.is = "symbol" /\ ("bases" \in DOMAIN s => s.bases \subseteq PyBuiltin)
  \/ s.is = "impl" /\ <<s.trait>> \in RsBuiltin
  \/ s.is = "alias" /\ (s.name = s.type \/ <<s.type>> \in CBuiltin)
  \/ s.is = "forward" /\ <<s.name>> \in CBuiltin
  \/ s.is = "inherits" /\ <<s.base>> \in CBuiltin
UsesNothing(s) == s.is = "usetree" /\ Leaves(s) = {}
ExportsNothing(s) ==
  /\ language = "typescript" /\ s.is = "reexport" /\ s.name = Ts!Star
  /\ LET f == Ts!Destination(s.spec) IN f \in DOMAIN index /\ index[f].symbols = {Ts!ModuleSymbol(f)}
IsImplOfNoStruct(f, s) ==
  s.is = "impl" /\ SymbolAt(f, Def(s.name, NONE, s.kind)) \notin index[f].symbols

NothingIsLostSilently ==
  \A f \in DOMAIN sources :
  \A i \in Written(f, {"import", "reexport", "usetree", "include", "impl", "alias", "forward",
                       "inherits", "symbol"}) :
    LET s == sources[f][i]
    IN  \/ EdgesAt(f, i) # {} \/ Reported(f, i) \/ ReportedMissing(f, s)
        \/ IsBuiltinName(s) \/ UsesNothing(s) \/ ExportsNothing(s) \/ IsImplOfNoStruct(f, s)

(* The names an import makes known in its file.                             *)
LocalNames(f, s) ==
  CASE s.is = "import" /\ language = "typescript" -> {s.local}
    [] s.is = "import" /\ language = "python" -> {PyLocalName(f, r) : r \in PyImports(f, <<s>>)}
    [] s.is = "usetree" -> {RsLocalName(leaf) : leaf \in Leaves(s)}
    [] OTHER -> {}

UsedName(s) ==
  IF language = "typescript" THEN s.name ELSE IF Len(s.path) = 1 THEN s.path[1] ELSE NONE

(* An import of a TypeScript package by its own name is known by that of    *)
(* the package, and so neither name is known for what it is.                *)
IsMisnamed(f, name) ==
  /\ language = "typescript"
  /\ \E j \in Written(f, {"import"}) :
       LET s == sources[f][j]
       IN  /\ s.name = s.local /\ name \in {s.name, s.spec}
           /\ s.spec \notin DOMAIN TsRelative /\ Ts!Destination(s.spec) = NONE

(* A use of an imported name leads where the last import of that name does, *)
(* whatever else the file, or another, declares by that name. What a        *)
(* package holds is not in the graph. An import of several names of which   *)
(* not all are found is left out: its edges do not tell which.              *)
UsesFollowImports ==
  \A f \in DOMAIN sources : \A i \in Written(f, {"use"}) :
    LET name == UsedName(sources[f][i])
        imports == {j \in Written(f, {"import", "usetree"}) : name \in LocalNames(f, sources[f][j])}
        last == CHOOSE j \in imports : \A k \in imports : k <= j
        targets == {r.to : r \in EdgesAt(f, last)}
    IN  /\ name # NONE /\ ~IsMisnamed(f, name) /\ imports # {} /\ targets # {}
        /\ LocalNames(f, sources[f][last]) = {name} \/ ~Reported(f, last)
        => /\ {r.to : r \in EdgesAt(f, i)} \subseteq targets
           /\ EdgesAt(f, i) # {} \/ \E to \in targets : IsPackage(to)

(* The name a statement takes from a file, where it takes one.              *)
IsSimple(s) == Cardinality(Leaves(s)) = 1
Used(s) == (CHOOSE leaf \in Leaves(s) : TRUE).to
TakenFrom(f, s) ==
  CASE s.is = "import" /\ language = "typescript" /\ s.name \notin {Ts!Default, Ts!Star} -> <<Ts!TargetFile(s.spec), s.name>>
    [] s.is = "import" /\ language = "python" /\ s.name # All -> <<PyFileOf(PyAbsolute(f, s.spec)), s.name>>
    [] s.is = "usetree" /\ IsSimple(s) /\ Used(s).name # All -> <<RsFileOf(Absolutize(f, Used(s).module)), Used(s).name>>
    [] OTHER -> <<NONE, NONE>>

(* The lines of a file that say a name of what it takes from others. A      *)
(* chain is followed as far as they pass the name on as it is, in           *)
(* TypeScript from a relative specifier, and take it from another file.     *)
NamesIn(g, s) ==
  IF language = "typescript" THEN IF s.is = "reexport" THEN {s.name, s.as} ELSE {}
  ELSE LocalNames(g, s)
LinesOf(g, name) == {j \in Written(g, {"import", "reexport", "usetree"}) : name \in NamesIn(g, sources[g][j])}
PassesOn(g, s) ==
  IF s.is = "reexport" THEN s.name = s.as /\ s.spec \in DOMAIN TsRelative
  ELSE TakenFrom(g, s)[1] \notin {NONE, g}

(* From a name of a file to the next: what it is a re-export of, in         *)
(* TypeScript, and elsewhere what it is imported as.                        *)
KnownAs(r) == IF r.alias = NONE THEN r.to.name ELSE r.alias
NextNames(f) ==
  LET taken(kind) == {r \in Extract(language, f, sources[f]).relationships : r.kind = kind}
  IN  CASE language = "typescript" -> {<<<<f, r.to.name>>, <<Ts!TargetFile(r.to.import), r.to.name>>>> : r \in taken("ReExports")}
        [] language = "python" -> {<<<<f, KnownAs(r)>>, <<PyFileOf(PyAbsolute(f, r.to.spec)), r.to.name>>>> : r \in taken("Imports")}
        [] language = "rust" -> {<<<<f, KnownAs(r)>>, <<RsFileOf(Absolutize(f, r.to.module)), r.to.name>>>> : r \in taken("Imports")}
        [] OTHER -> {}
Limit ==
  CASE language = "typescript" -> MaxReexports [] language = "python" -> MaxInits
    [] language = "rust" -> MaxPubUses [] OTHER -> 0

(* No chain from a name of a file is cut short: all that it can come to and *)
(* that leads on are no more names than may be followed.                    *)
IsShort(g, name) ==
  LET steps == UNION {NextNames(f) : f \in DOMAIN sources}
      passed == {step[1] : step \in steps}
  IN  \E K \in SUBSET passed :
        /\ IsFiniteSet(K) /\ Cardinality(K) <= Limit /\ <<g, name>> \in K
        /\ \A step \in steps : step[1] \in K /\ step[2] \in passed => step[2] \in K

(* Where what is said at a line leads.                                      *)
TargetsAt(f, i) == {r.to : r \in EdgesAt(f, i)}

(* A name that a file only passes on leads, wherever it is taken from that  *)
(* file, to what it leads to there: passing it on once more loses nothing.  *)
ReexportsAreTransparent ==
  \A f \in DOMAIN sources : \A i \in Written(f, {"import", "usetree"}) :
    LET g == TakenFrom(f, sources[f][i])[1]
        name == TakenFrom(f, sources[f][i])[2]
    IN  /\ g \in DOMAIN sources /\ (\A s \in index[g].symbols : s.name # name) /\ IsShort(g, name)
        /\ \A j \in LinesOf(g, name) : PassesOn(g, sources[g][j])
        => \A j \in LinesOf(g, name) :
             /\ \A k \in LinesOf(g, name) : TargetsAt(g, k) = TargetsAt(g, j)
             /\ \E s \in TargetsAt(g, j) : IsSymbol(s) /\ s.kind # "module"
             => TargetsAt(f, i) = TargetsAt(g, j)

(* The files of a library that go by a name, and the files that may mean    *)
(* something else by it.                                                    *)
ManifestsOf(f) == {p \in Range(RsManifests) : Nearest(f) = {p.dir}}
InLibrary(f, name) ==
  \E p \in ManifestsOf(f) :
    /\ p.extern = name
    /\ IsPrefix(p.dir \o (IF p.lib = NONE THEN <<Src>> ELSE Front(p.lib)), RsPath[f])
    /\ Last(RsPath[f]) # MainRs
    /\ \A c \in Range(Conventional) : ~IsPrefix(p.dir \o c.dir, RsPath[f])
Renames(f, name) == \E p \in ManifestsOf(f) : name \in DOMAIN p.renames

IsCrateName(name) == name \notin {Crate, Self, Super} \union RsSuperLike \union RsAlwaysExternal

(* `crate::p` inside a library is what `name::p` is outside: two such       *)
(* imports lead to the same, or both are reported.                          *)
CrateNamesAgree ==
  \A f, g \in DOMAIN sources : \A i \in Written(f, {"usetree"}), j \in Written(g, {"usetree"}) :
    LET inside == Used(sources[f][i])
        outside == Used(sources[g][j])
        name == Head(outside.module)
    IN  /\ IsSimple(sources[f][i]) /\ IsSimple(sources[g][j])
        /\ Head(inside.module) = Crate /\ InLibrary(f, name) /\ IsCrateName(name) /\ ~Renames(g, name)
        /\ Tail(inside.module) = Tail(outside.module) /\ inside.name = outside.name
        => /\ TargetsAt(f, i) = TargetsAt(g, j)
           /\ Reported(f, i) = Reported(g, j)

-----------------------------------------------------------------------------
(* The files that a file names: those its imports are of, in Go also those  *)
(* of its directory and its package (two modules of one path share it), and *)
(* in C also those that include a header it includes.                       *)
PackageOfFile(f) == LET own == ImportPath(GoDirectory[f]) IN IF own = NONE THEN {} ELSE GoPackage(own)
NamedBy(irs, f) ==
  LET imports == {r \in irs[f].relationships : r.kind \in {"Imports", "ReExports"}}
  IN  CASE language = "typescript" -> {Ts!TargetFile(r.to.import) : r \in imports} \union {Ts!ByTsConfig(r.to.import) : r \in imports}
        [] language = "python" -> {PyFileOf(PyAbsolute(f, r.to.spec)) : r \in imports}
        [] language = "rust" -> {RsFileOf(Absolutize(f, r.to.module)) : r \in imports}
        [] language = "go" -> {g \in GoFiles : GoDirectory[g] = GoDirectory[f]} \union PackageOfFile(f)
                                \union UNION {GoPackage(r.to.path) : r \in imports}
        [] language = "c" -> {g \in CFiles : g \in ToSet(Includes(irs, f)) \/ f \in ToSet(Includes(irs, g))}

Reach(named, f) ==
  LET within[n \in 0 .. Cardinality(DOMAIN named)] ==
        IF n = 0 THEN {f} ELSE LET nearer == within[n - 1] IN nearer \union UNION {named[g] : g \in nearer}
  IN  within[Cardinality(DOMAIN named)]

(* What is written in a file changes nothing of a file from which no path   *)
(* of imports leads to it: a name is never looked for everywhere.           *)
ChangesWhatReachesIt ==
  language' = language =>
    LET irs == Extracted(language, sources')
        named == [f \in DOMAIN irs |-> NamedBy(irs, f) \intersect DOMAIN irs]
    IN  \A g \in {g \in DOMAIN sources : sources'[g] # sources[g]}, f \in DOMAIN index :
          index'[f] # index[f] => g \in Reach(named, f)
ResolutionIsLocal == [][ChangesWhatReachesIt]_adapters

-----------------------------------------------------------------------------
(* The types that a statement can say a member is of: those of the variable *)
(* in this function, and in all of the file.                                *)
IsTypedHere(s, t) ==
  IF language = "typescript" THEN s.scope = t.scope /\ ~s.this
  ELSE s.owner = t.owner /\ s.path = t.path
Typings(f, s) == {t \in Range(sources[f]) : t.is = "typed" /\ t.var = s.var /\ t.type # NONE}
TypesOf(f, s) == {t.type : t \in Typings(f, s)}
TypesHere(f, s) == {t.type : t \in {t \in Typings(f, s) : IsTypedHere(s, t)}}
NamesType(r, type) ==
  IF language = "typescript" THEN Ts!IsTypeName(r.to) /\ r.to.type = type ELSE IsNamed(r.to) /\ r.to.named = type
IsBuiltin(type) ==
  type \in CASE language = "typescript" -> TsBuiltin [] language = "python" -> PyBuiltin
              [] language = "rust" -> RsBuiltin [] language = "go" -> GoBuiltin [] language = "c" -> CBuiltin

(* What is imported by a name and not found, which is reported once, and    *)
(* what is in a Go package of nobody here.                                  *)
IsElsewhere(irs, f, type) ==
  \/ /\ language = "typescript"
     /\ \E j \in Written(f, {"import"}) :
          /\ sources[f][j].local = type
          /\ Reported(f, j) \/ ReportedMissing(f, sources[f][j])
  \/ language = "go" /\ Len(type) > 1 /\ GoPackageNamed(irs, f, type[1]) = {}

(* A member of a variable that is of one type in all of the file is charged *)
(* to it, at the first line where one is, unless the type is elsewhere; and *)
(* a type is charged only where a variable of it, or `self`, has a member   *)
(* taken.                                                                   *)
MembersAreOfTheirType ==
  LET irs == Extracted(language, sources)
      charged(f) == {r \in irs[f].relationships : r.kind = "AccessesProperty"}
  IN  /\ \A f \in DOMAIN sources : \A i \in Written(f, {"access", "member"}) :
           LET s == sources[f][i]
               types == TypesOf(f, s)
           IN  Cardinality(types) = 1 /\ types = TypesHere(f, s) =>
                 \A type \in types :
                   \/ IsBuiltin(type) \/ IsElsewhere(irs, f, type)
                   \/ \E r \in charged(f) : /\ NamesType(r, type) /\ r.line <= i
                                            /\ \/ EdgesAt(f, r.line) # {} \/ Reported(f, r.line)
                                               \/ ReportedAs(f, Ts!TypeNamed(type))
      /\ \A f \in DOMAIN irs : \A r \in charged(f) :
           LET s == sources[f][r.line]
           IN  \/ \E type \in TypesOf(f, s) : NamesType(r, type)
               \/ language # "typescript" /\ s.var = Self /\ r.to.named = <<s.owner>>
=============================================================================
