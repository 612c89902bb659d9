------------------------------- MODULE Python -------------------------------
(***************************************************************************)
(* The Python adapter (lang/python). A module's name, and a dotted name, is *)
(* a sequence of names.                                                     *)
(***************************************************************************)
EXTENDS Sources

CONSTANTS
  PyFiles,      \* files, numbered as they are sorted
  PyDirectory,  \* the directory of a file: a sequence of names
  PyStem,       \* its name without the extension, .py or .pyi
  PyInit,       \* the stem __init__
  PyBuiltin,    \* built-in types
  PyInterfaces, \* INTERFACE_BASES
  PyGenerated,  \* files taken for generated, which are not looked into
  MaxInits      \* MAX_REEXPORT_DEPTH

(* A class goes by what it is derived from (framework.rs, classify).        *)
ClassKind(bases) == IF \E base \in bases : Last(base) \in PyInterfaces THEN "interface" ELSE "class"
Class(name, bases) ==
  [is |-> "symbol", name |-> name, owner |-> NONE, kind |-> ClassKind(bases), bases |-> bases]
ImportPy(dots, path, name, alias) ==
  [is |-> "import", spec |-> [dots |-> dots, path |-> path], name |-> name, alias |-> alias]

PyStatements ==
  SharedStatements
    \union [is : {"symbol"}, name : Nat, owner : Owner, kind : {"class", "interface"}, bases : SUBSET Path]
    \union [is : {"import"}, spec : [dots : Nat, path : Seq(Nat)], name : Nat, alias : Nat \union {NONE}]

-----------------------------------------------------------------------------
(* extractor.rs and scope_analyzer.rs                                       *)

PySymbols(file, source) ==
  {ModuleSymbol(file)} \union {SymbolAt(file, source[i]) : i \in Statements(source, "symbol")}

PyMember(spec, name) == [spec |-> spec, name |-> name]

PyImports(file, source) ==
  {Rel(ModuleSymbol(file), PyMember(source[i].spec, source[i].name), "Imports", source[i].alias, i) :
     i \in Statements(source, "import")}

(* A base is said of the class as it was classified.                        *)
PyBases(file, source) ==
  UNION {{Rel(SymbolAt(file, source[i]), Named(base), "Extends", NONE, i) : base \in source[i].bases} :
           i \in {i \in Statements(source, "symbol") : "bases" \in DOMAIN source[i]}}

(* Whether it calls or constructs is not known yet.                         *)
PyCalls(file, source) ==
  {Rel(ModuleSymbol(file), Named(source[i].path), "Calls", NONE, i) :
     i \in {i \in Statements(source, "use") : Len(source[i].path) = 1}}

(* bindings_for_function; a function is a definition or a lambda.           *)
PyBound(source, m) == <<m[1], BoundType(source, source[m[1]].owner, m[2], source[m[1]].var)>>
PyAccesses(file, source) ==
  {Rel(ModuleSymbol(file), Named(a[2]), "AccessesProperty", NONE, a[1]) :
     a \in MemberTypes({PyBound(source, m) : m \in Members(source)}, PyBuiltin)}

(* All but inheritance is said of the module, whatever function it is in.   *)
ExtractPy(file, written) ==
  LET source == IF file \in PyGenerated THEN << >> ELSE written
  IN  [symbols |-> PySymbols(file, source),
       order |-> InOrder(file, source),
       relationships |-> PyBases(file, source) \union PyImports(file, source)
                           \union PyCalls(file, source) \union PyAccesses(file, source),
       diagnostics |-> {}]

-----------------------------------------------------------------------------
(* import_resolver.rs                                                       *)

(* file_to_module: __init__ is its directory, except at the root.           *)
PyModule(file) ==
  IF PyStem[file] = PyInit /\ PyDirectory[file] # << >> THEN PyDirectory[file]
  ELSE Append(PyDirectory[file], PyStem[file])

(* module_to_file: of two files of one module, the later.                   *)
PyFileOf(module) ==
  LET files == {f \in PyFiles : PyModule(f) = module}
  IN  IF files = {} THEN NONE ELSE CHOOSE f \in files : \A g \in files : g <= f

(* absolutize: one dot is the package, each other one climbs.               *)
PyAbsolute(file, spec) ==
  LET package == PyDirectory[file]
      up == IF spec.dots > Len(package) THEN Len(package) ELSE spec.dots - 1
  IN  IF spec.dots = 0 THEN spec.path ELSE SubSeq(package, 1, Len(package) - up) \o spec.path

(* imports_by_file: what a name was imported as; a whole module is known as *)
(* IMPORT_ALL unless it has an alias.                                       *)
PyImportOf(irs, file, name) ==
  LET of == {r \in irs[file].relationships :
               r.kind = "Imports" /\ (IF r.alias = NONE THEN r.to.name ELSE r.alias) = name}
  IN  IF of = {} THEN NONE ELSE Latest(of).to

(* What a name of a file is, through what it imports in its turn; and, by a *)
(* plausible slip, with the module that is asked read as an absolute one.   *)
PyLookupUnanchored(irs) ==
  LET leads(import) == IF import = NONE THEN NONE ELSE Import(PyFileOf(import.spec.path), import.name)
  IN  Imported(irs, [p \in PyFiles \X Nat |-> leads(PyImportOf(irs, p[1], p[2]))], MaxInits)

PyLookup(irs) ==
  LET leads(file, import) ==
        IF import = NONE THEN NONE ELSE Import(PyFileOf(PyAbsolute(file, import.spec)), import.name)
  IN  Imported(irs, [p \in PyFiles \X Nat |-> leads(p[1], PyImportOf(irs, p[1], p[2]))], MaxInits)

(* An import leads to the symbol, to the module when it is imported whole   *)
(* or lacks the symbol, or to the package the module's name begins with.    *)
PyTarget(irs, file, rel) ==
  LET module == PyAbsolute(file, rel.to.spec)
      target == PyFileOf(module)
      found == PyLookup(irs)[<<target, rel.to.name, 0>>]
  IN  IF target = NONE THEN PackageNode(IF module = << >> THEN 0 ELSE Head(module))
      ELSE IF rel.to.name = All \/ found = NONE THEN ModuleSymbol(target)
      ELSE found

PyIsMissing(irs, file, rel) ==
  LET target == PyFileOf(PyAbsolute(file, rel.to.spec))
  IN  rel.to.name # All /\ target # NONE /\ PyLookup(irs)[<<target, rel.to.name, 0>>] = NONE

(* local_names: a whole module goes by its last name.                       *)
PyLocalName(file, rel) ==
  LET module == PyAbsolute(file, rel.to.spec)
  IN  IF rel.alias # NONE THEN rel.alias
      ELSE IF rel.to.name # All THEN rel.to.name
      ELSE IF module = << >> THEN NONE ELSE Last(module)

PyLocal(irs, file, name) ==
  LET of == {r \in irs[file].relationships : r.kind = "Imports" /\ PyLocalName(file, r) = name}
  IN  IF of = {} THEN NONE ELSE PyTarget(irs, file, Latest(of))

(* resolve_dotted: a member of an imported module, or the package itself.   *)
PyMemberOf(irs, base, path) ==
  IF Len(path) < 2 \/ base = NONE THEN NONE
  ELSE IF IsPackage(base) THEN base
  ELSE IF Len(path) > 2 THEN NONE
  ELSE PyLookup(irs)[<<base.file, path[2], 0>>]
PyDotted(irs, file, path) == PyMemberOf(irs, PyLocal(irs, file, Head(path)), path)

PyMeans(irs, file, path) ==
  IF Len(path) > 1 THEN PyDotted(irs, file, path)
  ELSE IF PyLocal(irs, file, path[1]) # NONE THEN PyLocal(irs, file, path[1])
  ELSE ByName(irs[file].order, path[1])

(* resolve_repo_ir, one file. A call is a construction if its target is a   *)
(* class, and is not kept if it is a package or nothing; anything else that *)
(* is not bound is not kept either, but reported.                           *)
ResolvePy(irs, file) ==
  LET rels == irs[file].relationships
      imports == {r \in rels : r.kind = "Imports"}
      means == [path \in {r.to.named : r \in rels \ imports} |-> PyMeans(irs, file, path)]
      to(r) == means[r.to.named]
      kept == {r \in rels \ imports : to(r) # NONE /\ ~(r.kind = "Calls" /\ IsPackage(to(r)))}
      lost == {r \in rels \ imports : to(r) = NONE /\ r.kind # "Calls" /\ r.to.named \notin PyBuiltin}
      constructs(r) == r.kind = "Calls" /\ to(r).kind = "class"
  IN  [irs[file] EXCEPT
         !.relationships =
           {[r EXCEPT !.to = PyTarget(irs, file, r)] : r \in imports}
             \union {[r EXCEPT !.to = to(r), !.kind = IF constructs(r) THEN "Instantiates" ELSE @] : r \in kept},
         !.diagnostics = {r.line : r \in {r \in imports : PyIsMissing(irs, file, r)} \union lost}]
=============================================================================
