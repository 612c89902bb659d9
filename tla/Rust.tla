-------------------------------- MODULE Rust --------------------------------
(***************************************************************************)
(* The Rust adapter (lang/rust): what it extracts from a file, the module   *)
(* paths it makes of `use` paths, and what they are resolved to.            *)
(***************************************************************************)
EXTENDS RustCrates

CONSTANTS
  RsBuiltin,       \* standard types
  RsAlwaysExternal,\* std, core, alloc, proc_macro
  RsSuperLike,     \* names that begin with `super`
  RsGenerated,     \* files taken for generated, which are not looked into
  MaxPubUses       \* MAX_REEXPORT_DEPTH

(* `use prefix::{leaves}`, a leaf being a path, with or without an alias, a *)
(* glob or `self`; and `impl trait for name`, or a derived trait.           *)
UseTree(prefix, leaves) == [is |-> "usetree", prefix |-> prefix, leaves |-> leaves]
Leaf(path, form, alias) == [path |-> path, form |-> form, alias |-> alias]
Impl(name, trait) == [is |-> "impl", name |-> name, kind |-> "class", trait |-> trait]
Derive(name, kind, trait) == [is |-> "impl", name |-> name, kind |-> kind, trait |-> trait]

RsLeaves ==
  [path : Path, form : {"name"}, alias : Nat \union {NONE}]
    \union [path : Seq(Nat), form : {"glob", "self"}, alias : {NONE}]
RsStatements ==
  SharedStatements
    \union [is : {"usetree"}, prefix : Seq(Nat), leaves : Seq(RsLeaves)]
    \union [is : {"impl"}, name : Nat, kind : {"class", "variant"}, trait : Nat]

-----------------------------------------------------------------------------
(* extractor.rs, macro_analyzer.rs and scope_analyzer.rs                    *)

RsSymbols(file, source) ==
  {ModuleSymbol(file)} \union {SymbolAt(file, source[i]) : i \in Statements(source, "symbol")}

RsMember(module, name) == [module |-> module, name |-> name]
SplitPath(path) == IF Len(path) = 1 THEN RsMember(path, All) ELSE RsMember(Front(path), Last(path))

(* collect_use_tree: one import for each name.                              *)
Leaves(tree) ==
  {CASE leaf.form = "self" -> [to |-> RsMember(tree.prefix, All), alias |-> NONE]
     [] leaf.form = "glob" -> [to |-> RsMember(tree.prefix \o leaf.path, All), alias |-> NONE]
     [] leaf.form = "name" -> [to |-> SplitPath(tree.prefix \o leaf.path), alias |-> leaf.alias] :
     leaf \in {leaf \in ToSet(tree.leaves) : leaf.form = "self" => tree.prefix # << >>}}

RsImports(file, source) ==
  UNION {{Rel(ModuleSymbol(file), leaf.to, "Imports", leaf.alias, i) : leaf \in Leaves(source[i])} :
           i \in Statements(source, "usetree")}

(* An `impl` is of a struct, whatever the type is.                          *)
RsImpls(file, source) ==
  {Rel(SymbolAt(file, Def(source[i].name, NONE, source[i].kind)), Named(<<source[i].trait>>),
       "Implements", NONE, i) : i \in Statements(source, "impl")}

RsCalls(file, source) ==
  {Rel(ModuleSymbol(file), Named(source[i].path), source[i].kind, NONE, i) : i \in Statements(source, "use")}

(* bindings_for_function: a function is an item or a closure, and a generic *)
(* parameter names no type.                                                 *)
RsBound(source, m) == <<m[1], BoundType(source, source[m[1]].owner, m[2], source[m[1]].var)>>
RsAccesses(file, source) ==
  {Rel(ModuleSymbol(file), Named(a[2]), "AccessesProperty", NONE, a[1]) :
     a \in MemberTypes({RsBound(source, m) : m \in Members(source)}, RsBuiltin)}

ExtractRs(file, written) ==
  LET source == IF file \in RsGenerated THEN << >> ELSE written
  IN  [symbols |-> RsSymbols(file, source),
       order |-> InOrder(file, source),
       relationships |-> RsImpls(file, source) \union RsImports(file, source)
                           \union RsCalls(file, source) \union RsAccesses(file, source),
       diagnostics |-> {}]

-----------------------------------------------------------------------------
(* module_tree.rs                                                           *)

LastOf(files) == IF files = {} THEN NONE ELSE CHOOSE f \in files : \A g \in files : g <= f
RsFileOf(module) == LastOf({f \in RsFiles : ModulePath[f] = module})

Below(module, path) == At(module.namespace, module.path \o path)
Up(module, n) == At(module.namespace, SubSeq(module.path, 1, Len(module.path) - n))

(* The leading `super`s, and a name that only begins so, which is read as   *)
(* one and ends the path.                                                   *)
Climb(here, path) ==
  LET supers == CHOOSE n \in 0 .. Len(path) :
                  /\ \A i \in 1 .. n : path[i] = Super
                  /\ n < Len(path) => path[n + 1] # Super
      rest == SubSeq(path, supers + 1, Len(path))
  IN  IF rest # << >> /\ rest[1] \in RsSuperLike THEN Up(here, supers + 1) ELSE Below(Up(here, supers), rest)

(* absolutize: a bare path is of a crate of the repository, a module beside *)
(* this one, or one at the crate's root, if there is one; else another's.   *)
Here(own) == IF own = NONE THEN At(<<Crate>>, << >>) ELSE own
Bare(here, top, extern, path) ==
  LET beside == {m \in {here, top} : RsFileOf(Below(m, <<Head(path)>>)) # NONE}
  IN  IF extern # NONE THEN At(extern, Tail(path))
      ELSE IF beside = {} THEN At(<<Head(path)>>, Tail(path))
      ELSE Below(IF here \in beside THEN here ELSE top, path)
AbsoluteAt(here, top, file, path) ==
  LET root == Head(path)
  IN  CASE root = Crate -> Below(top, Tail(path))
        [] root = Self -> Below(here, Tail(path))
        [] root \in {Super} \union RsSuperLike -> Climb(here, path)
        [] root \in RsAlwaysExternal -> At(<<root>>, Tail(path))
        [] OTHER -> Bare(here, top, ExternNamespace(file, root), path)
AbsoluteFrom(here, file, path) == AbsoluteAt(here, At(here.namespace, << >>), file, path)
Absolutize(file, path) == AbsoluteFrom(Here(ModulePath[file]), file, path)

(* imports_by_file: what a name was imported as.                            *)
RsImportOf(irs, file, name) ==
  LET of == {r \in irs[file].relationships :
               r.kind = "Imports" /\ (IF r.alias = NONE THEN r.to.name ELSE r.alias) = name}
  IN  IF of = {} THEN NONE ELSE Latest(of).to

RsLeads(file, import) ==
  IF import = NONE THEN NONE ELSE Import(RsFileOf(Absolutize(file, import.module)), import.name)
RsLookup(irs) ==
  Imported(irs, [p \in RsFiles \X Nat |-> RsLeads(p[1], RsImportOf(irs, p[1], p[2]))], MaxPubUses)

-----------------------------------------------------------------------------
(* import_resolver.rs                                                       *)

(* An import leads to the symbol, to the module when it is imported whole   *)
(* or has no such name, to a third-party package, or nowhere.               *)
NowhereIn(namespace) == IF IsLocalNamespace(namespace) THEN NONE ELSE PackageNode(Head(namespace))
OrModule(found, target) == IF found = NONE THEN ModuleSymbol(target) ELSE found
RsTargetIn(irs, target, namespace, name) ==
  IF target = NONE THEN NowhereIn(namespace)
  ELSE IF name = All THEN ModuleSymbol(target)
  ELSE OrModule(RsLookup(irs)[<<target, name, 0>>], target)
RsTargetOf(irs, module, name) == RsTargetIn(irs, RsFileOf(module), module.namespace, name)
RsTarget(irs, file, rel) == RsTargetOf(irs, Absolutize(file, rel.to.module), rel.to.name)

RsIsMissingIn(irs, target, name) == name # All /\ target # NONE /\ RsLookup(irs)[<<target, name, 0>>] = NONE
RsIsMissing(irs, file, rel) == RsIsMissingIn(irs, RsFileOf(Absolutize(file, rel.to.module)), rel.to.name)

(* local_names, and the file's own symbols by their bare names.             *)
RsLocalName(rel) ==
  IF rel.alias # NONE THEN rel.alias
  ELSE IF rel.to.name # All THEN rel.to.name ELSE Last(rel.to.module)

RsLocal(ir, targets, name) ==
  LET of == {r \in DOMAIN targets : RsLocalName(r) = name /\ targets[r] # NONE}
  IN  IF of = {} THEN ByName(ir.order, name) ELSE targets[Latest(of)]

(* resolve_callee: `Type::method` is looked up where the type is declared,  *)
(* as it is spelled.                                                        *)
MethodOf(irs, type, path) ==
  IF Len(path) > 2 \/ type = NONE THEN NONE
  ELSE IF IsPackage(type) THEN NONE
  ELSE LastSymbol(irs[type.file].order, MethodAt(irs[type.file].order, path[1], path[2]))
RsCallee(irs, local, path) == IF Len(path) = 1 THEN local ELSE MethodOf(irs, local, path)

Constructs(to) == to.kind \in {"class", "variant"}

(* resolve_repo_ir, one file: imports, calls, and then types. A call that   *)
(* is not bound is not kept; a type is not kept either, but reported.       *)
BoundCalls(called) ==
  {[c[1] EXCEPT !.to = c[2], !.kind = IF Constructs(c[2]) THEN "Instantiates" ELSE @] :
     c \in {c \in called : c[2] # NONE /\ ~IsPackage(c[2])}}

ResolveWith(irs, file, targets, missing) ==
  LET ir == irs[file]
      calls == {r \in ir.relationships : r.kind \in {"Calls", "Instantiates"}}
      types == {r \in ir.relationships : r.kind \notin {"Imports", "Calls", "Instantiates"}}
      local(r) == RsLocal(ir, targets, r.to.named[1])
      unknown == {r \in DOMAIN targets : targets[r] = NONE}
      lost == {r \in types : local(r) = NONE}
  IN  [ir EXCEPT
         !.relationships = {[r EXCEPT !.to = targets[r]] : r \in DOMAIN targets \ unknown}
                             \union BoundCalls({<<r, RsCallee(irs, local(r), r.to.named)>> : r \in calls})
                             \union {[r EXCEPT !.to = local(r)] : r \in types \ lost},
         !.diagnostics = {r.line : r \in unknown \union missing
                                           \union {r \in lost : r.to.named \notin RsBuiltin}}]

ImportsIn(ir) == {r \in ir.relationships : r.kind = "Imports"}
ResolveRs(irs, file) ==
  ResolveWith(irs, file, [r \in ImportsIn(irs[file]) |-> RsTarget(irs, file, r)],
              {r \in ImportsIn(irs[file]) : RsIsMissing(irs, file, r)})
=============================================================================
