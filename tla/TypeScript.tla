----------------------------- MODULE TypeScript -----------------------------
(***************************************************************************)
(* The TypeScript and JavaScript adapter (lang/typescript): what it         *)
(* extracts from a file, and how what it could not name there is resolved   *)
(* across files. A file is the sequence of its statements; names are        *)
(* numbers, for ids are compared, and a path is one of the files.           *)
(***************************************************************************)
EXTENDS Naturals, FiniteSets, SequencesExt

CONSTANTS
  TsFiles,       \* files on disk
  TsKnown,       \* those that are analysed, not ignored or left out
  TsMinified,    \* those taken for bundled code, which are not looked into
  TsRelative,    \* relative specifiers, with the files they may mean in the
                 \*   order they are tried: as written, with an extension
                 \*   appended, with another extension, as a directory
  TsPatterns,    \* patterns of tsconfig paths, by length: the longest first
  TsMatches,     \* the specifiers a pattern matches
  TsConfigs,     \* tsconfig files: what each extends, its baseUrl, its paths
  RootConfig,    \* the one at the root of the repository
  TsRoot,        \* its directory, the default of baseUrl
  TsProbe,       \* the file that is at <<baseUrl, replacement, specifier>>
  TsBuiltin,     \* names taken for built-in types
  MaxExtends,    \* tsconfig files in a chain
  MaxReexports,  \* MAX_REEXPORT_DEPTH
  NONE

Module == 0
Default == 100
Star == 101

(* What may be written in a file. `use` is a call, a construction or a      *)
(* reference of a decorator; a variable is typed where it is declared, and  *)
(* `this` is a field that a constructor's parameter has typed.              *)
Declare(name, kind) == [is |-> "declaration", name |-> name, kind |-> kind]
ImportAs(spec, name, local) == [is |-> "import", spec |-> spec, name |-> name, local |-> local]
ReexportAs(spec, name, as) == [is |-> "reexport", spec |-> spec, name |-> name, as |-> as]
Use(kind, name) == [is |-> "use", kind |-> kind, name |-> name]
Typed(scope, var, type) == [is |-> "typed", scope |-> scope, var |-> var, type |-> type]
Access(scope, this, var) == [is |-> "access", scope |-> scope, this |-> this, var |-> var]

TsStatements ==
  [is : {"declaration"}, name : Nat, kind : {"class", "function", "method", "property"}]
    \union [is : {"import"}, spec : Nat, name : Nat, local : Nat \ {Default}]
    \union [is : {"reexport"}, spec : Nat, name : Nat, as : Nat]
    \union [is : {"use"}, kind : {"Calls", "Instantiates", "UsesType"}, name : Nat]
    \union [is : {"typed"}, scope : Nat, var : Nat, type : Nat]
    \union [is : {"access"}, scope : Nat, this : BOOLEAN, var : Nat]

-----------------------------------------------------------------------------
(* extractor.rs                                                             *)

StatementsOf(source, is) == {i \in DOMAIN source : source[i].is = is}

Sym(file, name, kind) == [file |-> file, name |-> name, kind |-> kind]
ModuleSymbol(file) == Sym(file, Module, "module")

SymbolsOf(file, source) ==
  {ModuleSymbol(file)} \union
    {Sym(file, source[i].name, source[i].kind) : i \in StatementsOf(source, "declaration")}

(* Sorted by id, the module last: the first is the source of every          *)
(* relationship of the file, whichever function it is written in.           *)
KindRank == [class |-> 1, function |-> 2, method |-> 3, property |-> 4, module |-> 5]
SymPrecedes(s, t) ==
  \/ t.kind = "module" /\ s.kind # "module"
  \/ /\ (s.kind = "module") = (t.kind = "module")
     /\ s.name < t.name \/ (s.name = t.name /\ KindRank[s.kind] < KindRank[t.kind])
LeastSymbol(S) == CHOOSE s \in S : \A t \in S : s = t \/ SymPrecedes(s, t)
Primary(file, source) == LeastSymbol(SymbolsOf(file, source))

(* What a relationship leads to before it is resolved.                      *)
ImportOf(spec, name) == [import |-> spec, name |-> name]
TypeNamed(name) == [type |-> name]
PackageOf(spec) == [package |-> spec]
IsImport(to) == "import" \in DOMAIN to
IsTypeName(to) == "type" \in DOMAIN to
IsSymbol(to) == "file" \in DOMAIN to

Rel(from, to, kind, alias, line) ==
  [from |-> from, to |-> to, kind |-> kind, alias |-> alias, line |-> line]
AliasOf(name, local) == IF name = local THEN NONE ELSE local

(* typed_vars is one map: of two declarations of a name, the later.         *)
TypeOf(source, scopes, var) ==
  LET typed == {i \in StatementsOf(source, "typed") :
                  source[i].var = var /\ source[i].scope \in scopes}
  IN  IF typed = {} THEN NONE
      ELSE source[CHOOSE i \in typed : \A j \in typed : j <= i].type

Constructor == 102
AllScopes(source) == {source[i].scope : i \in StatementsOf(source, "typed")}

AccessedType(source, i, scopes) ==
  TypeOf(source, IF source[i].this THEN {Constructor} ELSE scopes, source[i].var)

(* One relationship for each type whose properties are accessed, at the     *)
(* first such line: of the file, from its first symbol, and of each method, *)
(* which knows what is typed in it.                                         *)
AccessRels(file, source) ==
  LET rels(from, accesses, scopes) ==
        LET said == {<<i, AccessedType(source, i, scopes)>> : i \in accesses}
        IN  {Rel(from, TypeNamed(a[2]), "AccessesProperty", a[2], a[1]) :
               a \in {a \in said : /\ a[2] \notin TsBuiltin \union {NONE}
                                   /\ \A b \in said : a[2] = b[2] => a[1] <= b[1]}}
      accesses == StatementsOf(source, "access")
      methods == {s \in SymbolsOf(file, source) : s.kind = "method"}
  IN  rels(Primary(file, source), accesses, AllScopes(source))
        \union UNION {rels(m, {i \in accesses : source[i].scope = m.name}, {m.name}) : m \in methods}

(* Where an export is passed through; `export *` is not among them.         *)
ReexportEntries(source) ==
  {[name |-> source[i].name, spec |-> source[i].spec, line |-> i] :
     i \in {i \in StatementsOf(source, "reexport") : source[i].name # Star}}

ExtractTs(file, source) ==
  LET primary == Primary(file, source)
      imports == {Rel(primary, ImportOf(source[i].spec, source[i].name), "Imports",
                      AliasOf(source[i].name, source[i].local), i) : i \in StatementsOf(source, "import")}
      reexports == {Rel(primary, ImportOf(source[i].spec, source[i].name), "ReExports",
                        AliasOf(source[i].name, source[i].as), i) : i \in StatementsOf(source, "reexport")}
      uses == {Rel(primary, TypeNamed(source[i].name), source[i].kind, source[i].name, i) :
                 i \in StatementsOf(source, "use")}
  IN  [symbols |-> SymbolsOf(file, source),
       reexports |-> ReexportEntries(source),
       relationships |-> imports \union reexports \union uses \union AccessRels(file, source),
       diagnostics |-> {}, unplaced |-> {}]

(* parse_file: bundled code is read as an empty file.                       *)
TsFileIR(file, source) == ExtractTs(file, IF file \in TsMinified THEN << >> ELSE source)

-----------------------------------------------------------------------------
(* tsconfig.rs: a chain of extended files, of which the nearer wins.        *)
DefaultConfig == [base |-> TsRoot, paths |-> << >>]

(* The functions of patterns merged, child over parent.                     *)
LoadChain ==
  LET load[c \in DOMAIN TsConfigs, depth \in 0 .. MaxExtends] ==
        IF depth = 0 THEN NONE
        ELSE LET config == TsConfigs[c]
                 above == IF config.extends \in DOMAIN TsConfigs
                            THEN load[config.extends, depth - 1] ELSE NONE
                 parent == IF above = NONE THEN DefaultConfig ELSE above
             IN  [base |-> IF config.base = NONE THEN parent.base ELSE config.base,
                  paths |-> config.paths @@ parent.paths]
  IN  load

IfOfUse(config) == IF DOMAIN config.paths = {} /\ config.base = TsRoot THEN NONE ELSE config
TsConfig ==
  IF RootConfig \in DOMAIN TsConfigs THEN IfOfUse(LoadChain[RootConfig, MaxExtends]) ELSE NONE

Found(files) == IF files = << >> THEN NONE ELSE Head(files)

(* The first file on disk, pattern by pattern and replacement by            *)
(* replacement, then from baseUrl itself.                                   *)
Probe(base, where, spec) ==
  IF <<base, where, spec>> \in DOMAIN TsProbe THEN <<TsProbe[<<base, where, spec>>]>> ELSE << >>
Through(config, spec) ==
  LET patterns == SelectSeq(TsPatterns, LAMBDA p : p \in DOMAIN config.paths /\ spec \in TsMatches[p])
      replacements == FlattenSeq([i \in DOMAIN patterns |-> config.paths[patterns[i]]])
      bare == IF config.base = TsRoot THEN << >> ELSE <<NONE>>
  IN  Found(FlattenSeq([i \in DOMAIN (replacements \o bare) |->
                          Probe(config.base, (replacements \o bare)[i], spec)]))
ByTsConfig(spec) == IF TsConfig = NONE THEN NONE ELSE Through(TsConfig, spec)

-----------------------------------------------------------------------------
(* import_resolver.rs                                                       *)

(* resolve_target_file_from_known                                           *)
FirstIn(files, S) ==
  LET at == {i \in DOMAIN files : files[i] \in S}
  IN  IF at = {} THEN NONE ELSE files[CHOOSE i \in at : \A j \in at : i <= j]
TargetFile(spec) == IF spec \in DOMAIN TsRelative THEN FirstIn(TsRelative[spec], TsKnown) ELSE NONE

(* The first symbol that is neither the module nor a property.              *)
PickDefault(symbols) ==
  LET candidates == {s \in symbols : s.kind \notin {"module", "property"}}
  IN  IF candidates = {} THEN NONE ELSE LeastSymbol(candidates)

Exported(symbols, name) ==
  IF name = Default THEN PickDefault(symbols)
  ELSE LET named == {s \in symbols : s.name = name}
       IN  IF named = {} THEN NONE ELSE LeastSymbol(named)

(* The file from which another passes a name on, by its first entry for it. *)
PassedFrom(ir, name) ==
  LET entries == {e \in ir.reexports : e.name = name}
      first == CHOOSE e \in entries : \A d \in entries : e.line <= d.line
  IN  IF entries = {} THEN NONE ELSE TargetFile(first.spec)

(* follow_reexport_chain: by the first entry of that name, and on, as long  *)
(* as the chain is short enough and comes to no file twice.                 *)
Follow(irs, name) ==
  LET follow[q \in TsKnown \X SUBSET TsKnown] ==
        LET target == PassedFrom(irs[q[1]], name)
        IN  IF Cardinality(q[2]) > MaxReexports \/ target \in {NONE} \union q[2] THEN NONE
            ELSE IF Exported(irs[target].symbols, name) # NONE
                   THEN Exported(irs[target].symbols, name)
            ELSE follow[<<target, q[2] \union {target}>>]
  IN  follow

(* resolve_local_import: what a name means in a file.                       *)
Lookup(irs, target, name) ==
  IF target \notin DOMAIN irs THEN NONE
  ELSE IF Exported(irs[target].symbols, name) # NONE THEN Exported(irs[target].symbols, name)
  ELSE Follow(irs, name)[<<target, {target}>>]

(* resolve_import_like: a relationship becomes one or several.              *)
Destination(spec) == IF spec \in DOMAIN TsRelative THEN TargetFile(spec) ELSE ByTsConfig(spec)
Led(rel, targets) == IF targets = {} THEN {rel} ELSE {[rel EXCEPT !.to = s] : s \in targets}
LedTo(irs, rel, target) ==
  IF target = NONE /\ rel.to.import \notin DOMAIN TsRelative THEN Led(rel, {PackageOf(rel.to.import)})
  ELSE IF target \notin DOMAIN irs THEN {rel}
  ELSE IF rel.to.name = Star /\ rel.kind = "ReExports"
    THEN Led(rel, {s \in irs[target].symbols : s.kind # "module"})
  ELSE Led(rel, {Lookup(irs, target, rel.to.name)} \ {NONE})
ResolveImport(irs, rel) == LedTo(irs, rel, Destination(rel.to.import))

(* The name by which the file knows an import: its alias or the name of     *)
(* what it was resolved to, which for a package is the package's.           *)
LocalName(rel) ==
  IF rel.alias # NONE THEN rel.alias
  ELSE IF IsSymbol(rel.to) THEN rel.to.name
  ELSE IF IsImport(rel.to) THEN NONE ELSE rel.to.package

(* Of two imports of a local name, the later.                               *)
BoundTo(imports, name) ==
  LET of == {r \in imports : r.kind = "Imports" /\ LocalName(r) = name}
  IN  IF of = {} THEN NONE ELSE (CHOOSE r \in of : \A q \in of : q.line <= r.line).to

(* A plausible slip: a local declaration is preferred to an import.         *)
NameInFileFirst(irs, file, imports, name) ==
  LET declared == {s \in irs[file].symbols : s.name = name}
  IN  IF declared # {} THEN LeastSymbol(declared)
      ELSE IF BoundTo(imports, name) # NONE THEN BoundTo(imports, name)
      ELSE TypeNamed(name)

NameInFile(irs, file, imports, name) ==
  LET declared == {s \in irs[file].symbols : s.name = name}
  IN  IF BoundTo(imports, name) # NONE THEN BoundTo(imports, name)
      ELSE IF declared # {} THEN LeastSymbol(declared)
      ELSE TypeNamed(name)

(* `export *` of a file that declares nothing is let go without a word,     *)
(* whether the file is named by a path or by tsconfig. And, by a plausible  *)
(* slip, any other is.                                                      *)
IsAnyBarrel(irs, rel) == rel.kind = "ReExports" /\ rel.to.name = Star
IsEmptyBarrel(irs, rel) ==
  rel.kind = "ReExports" /\ rel.to.name = Star /\ Destination(rel.to.import) \in DOMAIN irs

(* A file that tsconfig leads to and that is not analysed.                  *)
MissingFile(file) == [missing |-> file]
LeadsAstray(irs, rel) ==
  rel.to.import \notin DOMAIN TsRelative /\ Destination(rel.to.import) \notin DOMAIN irs \union {NONE}

(* resolve_repo_ir, one file: imports first, then what is named in the file.*)
(* A call that is not bound is not kept, anything else is reported: an      *)
(* import at its line, unless its file is missing, which is reported by     *)
(* name alone (`unplaced`), as is a type. What is said of a chain that is   *)
(* circular or too long comes with the report of its import.                *)
ResolveTs(irs, file) ==
  LET rels == irs[file].relationships
      importLike == {r \in rels : IsImport(r.to)}
      imports == UNION {ResolveImport(irs, r) : r \in importLike}
      named == {[r EXCEPT !.to = NameInFile(irs, file, imports, r.to.type)] : r \in rels \ importLike}
      unbound == {r \in imports : IsImport(r.to) /\ ~IsEmptyBarrel(irs, r)}
      astray == {r \in unbound : LeadsAstray(irs, r)}
      lost == {r \in named : IsTypeName(r.to)}
      dropped == {r \in lost : r.kind \in {"Calls", "Instantiates"}}
  IN  [irs[file] EXCEPT
         !.relationships = imports \union (named \ dropped),
         !.diagnostics = {r.line : r \in unbound \ astray},
         !.unplaced = {MissingFile(Destination(r.to.import)) : r \in astray}
              \union {r.to : r \in {r \in lost \ dropped : r.to.type \notin TsBuiltin}}]
=============================================================================
