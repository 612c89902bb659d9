--------------------------------- MODULE Go ---------------------------------
(***************************************************************************)
(* The Go adapter (lang/go). A package is a directory, imported by a path   *)
(* that go.mod files give it; a name of one of its files is a name of all.  *)
(***************************************************************************)
EXTENDS Sources

CONSTANTS
  GoFiles,      \* files, numbered as they are sorted
  GoDirectory,  \* the directory of a file: a sequence of names
  GoMods,       \* the module path that a go.mod in a directory declares
  GoBuiltin,    \* predeclared types
  GoGenerated   \* files taken for generated, which are not looked into

Blank == 120
Dot == 121

(* `import name "path"`, name being NONE, Blank, Dot or another; and a type *)
(* that is named in a field, a result or a literal.                         *)
ImportGo(path, name) == [is |-> "import", path |-> path, name |-> name]
Refer(type) == [is |-> "refer", type |-> type]

GoStatements ==
  SharedStatements
    \union [is : {"import"}, path : Path, name : Nat \union {NONE}]
    \union [is : {"refer"}, type : Path]

-----------------------------------------------------------------------------
(* extractor.rs and scope_analyzer.rs                                       *)

GoSymbols(file, source) ==
  {ModuleSymbol(file)} \union {SymbolAt(file, source[i]) : i \in Statements(source, "symbol")}

GoImports(file, source) ==
  {Rel(ModuleSymbol(file), [path |-> source[i].path], "Imports",
       IF source[i].name \in {Blank, Dot} THEN NONE ELSE source[i].name, i) :
     i \in Statements(source, "import")}

GoLocalName(rel) == IF rel.alias # NONE THEN rel.alias ELSE Last(rel.to.path)
PackageNames(file, source) == {GoLocalName(r) : r \in GoImports(file, source)}

(* What is qualified by anything else is a method of a value.               *)
GoCalls(file, source) ==
  {Rel(ModuleSymbol(file), Named(source[i].path), source[i].kind, NONE, i) :
     i \in {i \in Statements(source, "use") :
              Len(source[i].path) = 1 \/ Head(source[i].path) \in PackageNames(file, source)}}

(* bindings_for_function: the receiver is a parameter like any other.       *)
GoBound(source, m) == <<m[1], BoundType(source, source[m[1]].owner, m[2], source[m[1]].var)>>
GoAccesses(file, source) ==
  {Rel(ModuleSymbol(file), Named(a[2]), "AccessesProperty", NONE, a[1]) :
     a \in MemberTypes({GoBound(source, m) : m \in Members(source)}, GoBuiltin)}

(* collect_type_references: each type once.                                 *)
GoTypeReferences(file, source) ==
  LET named == {i \in DOMAIN source : source[i].is \in {"typed", "refer"} /\ source[i].type # NONE}
  IN  {Rel(ModuleSymbol(file), Named(a[2]), "UsesType", NONE, a[1]) :
         a \in FirstOfEach({<<i, source[i].type>> : i \in {i \in named : source[i].type \notin GoBuiltin}})}

ExtractGo(file, written) ==
  LET source == IF file \in GoGenerated THEN << >> ELSE written
  IN  [symbols |-> GoSymbols(file, source),
       order |-> InOrder(file, source),
       relationships |-> GoImports(file, source) \union GoCalls(file, source)
                           \union GoAccesses(file, source) \union GoTypeReferences(file, source),
       diagnostics |-> {}]

-----------------------------------------------------------------------------
(* module_resolver.rs                                                       *)

(* The nearest go.mod at or above a directory.                              *)
ModuleFor(dir) ==
  LET above == {n \in 0 .. Len(dir) : SubSeq(dir, 1, n) \in DOMAIN GoMods}
  IN  IF above = {} THEN NONE ELSE SubSeq(dir, 1, CHOOSE n \in above : \A k \in above : k <= n)

ImportPath(dir) ==
  LET module == ModuleFor(dir)
  IN  IF module = NONE THEN NONE ELSE GoMods[module] \o SubSeq(dir, Len(module) + 1, Len(dir))

(* discover looks no further than the directories above files.              *)
IsLocalImport(path) ==
  \E dir \in DOMAIN GoMods : /\ IsPrefix(GoMods[dir], path)
                             /\ \E f \in GoFiles : IsPrefix(dir, GoDirectory[f])

-----------------------------------------------------------------------------
(* import_resolver.rs                                                       *)

GoPackage(path) == {f \in GoFiles : ImportPath(GoDirectory[f]) = path}
OwnerOf(files) == CHOOSE f \in files : \A g \in files : f <= g
PackageSymbol(path) == [dir |-> GoDirectory[OwnerOf(GoPackage(path))], name |-> Last(path), kind |-> "module"]

(* The first symbol of a name of a package is that name.                    *)
GoDeclaredIn(irs, files, name) ==
  LET declare == {f \in files : ByName(irs[f].order, name) # NONE}
      order == irs[OwnerOf(declare)].order
  IN  IF declare = {} THEN NONE ELSE FirstSymbol(order, NamedAt(order, name))

(* alias_to_package: the packages of the repository a file imports.         *)
GoPackageNamed(irs, file, name) ==
  LET imports == {r \in irs[file].relationships :
                    r.kind = "Imports" /\ GoLocalName(r) = name /\ GoPackage(r.to.path) # {}}
  IN  IF imports = {} THEN {} ELSE GoPackage(Latest(imports).to.path)

GoName(irs, file, path) ==
  IF Len(path) = 1
    THEN LET own == ImportPath(GoDirectory[file])
         IN  IF own = NONE THEN NONE ELSE GoDeclaredIn(irs, GoPackage(own), path[1])
    ELSE GoDeclaredIn(irs, GoPackageNamed(irs, file, path[1]), path[2])

GoTarget(path) == IF GoPackage(path) = {} THEN PackageNode(Last(path)) ELSE PackageSymbol(path)

-----------------------------------------------------------------------------
(* interface_detector.rs: a type satisfies the interfaces of its package    *)
(* that require no method it has not; what an interface embeds is not seen. *)

SymbolsIn(irs, dir) == UNION {irs[f].symbols : f \in {f \in GoFiles : GoDirectory[f] = dir}}

IsInterface(irs, file, name) == \E s \in irs[file].symbols : s.kind = "interface" /\ s.name = name

MethodsOf(irs, dir, type) ==
  {s.name : s \in {s \in SymbolsIn(irs, dir) :
                     s.kind = "method" /\ s.owner = type /\ ~IsInterface(irs, s.file, type)}}

Required(irs, i) == {s.name : s \in {s \in irs[i.file].symbols : s.kind = "method" /\ s.owner = i.name}}

FirstClass(irs, file, s) ==
  \A f \in GoFiles : f < file /\ GoDirectory[f] = GoDirectory[file] =>
    \A t \in irs[f].symbols : ~(t.kind = "class" /\ t.name = s.name)

Implementations(irs, file) ==
  LET dir == GoDirectory[file]
      classes == {s \in irs[file].symbols : s.kind = "class" /\ FirstClass(irs, file, s)}
      interfaces == {i \in SymbolsIn(irs, dir) : i.kind = "interface" /\ Required(irs, i) # {}}
  IN  {Rel(p[1], p[2], "Implements", NONE, 0) :
         p \in {p \in classes \X interfaces : Required(irs, p[2]) \subseteq MethodsOf(irs, dir, p[1].name)}}

-----------------------------------------------------------------------------
(* resolve_repo_ir and detect_implementations, one file. A call that is not *)
(* bound is not kept; a type is not kept either, but reported, unless it is *)
(* said to be of a package from elsewhere.                                  *)
ResolveGo(irs, file) ==
  LET rels == irs[file].relationships
      imports == {r \in rels : r.kind = "Imports"}
      means == [path \in {r.to.named : r \in rels \ imports} |-> GoName(irs, file, path)]
      to(r) == means[r.to.named]
      isCall(r) == r.kind \in {"Calls", "Instantiates"}
      kept == {r \in rels \ imports : to(r) # NONE}
      lost == {r \in rels \ (imports \union kept) : ~isCall(r)}
      isExternal(path) == Len(path) > 1 /\ GoPackageNamed(irs, file, path[1]) = {}
      unindexed == {r \in imports : GoPackage(r.to.path) = {} /\ IsLocalImport(r.to.path)}
      package == ImportPath(GoDirectory[file])
      hosts == package # NONE /\ OwnerOf(GoPackage(package)) = file
  IN  [irs[file] EXCEPT
         !.symbols = @ \union (IF hosts THEN {PackageSymbol(package)} ELSE {}),
         !.relationships =
           {[r EXCEPT !.to = GoTarget(r.to.path)] : r \in imports}
             \union {[r EXCEPT !.to = to(r), !.kind = IF isCall(r) /\ to(r).kind = "class"
                                                         THEN "Instantiates" ELSE @] : r \in kept}
             \union Implementations(irs, file),
         !.diagnostics = {r.line : r \in unindexed
             \union {r \in lost : ~isExternal(r.to.named) /\ r.to.named \notin GoBuiltin}}]
=============================================================================
