---------------------------------- MODULE C ----------------------------------
(***************************************************************************)
(* The C and C++ adapter (lang/c): what a file sees is what it declares and *)
(* what the headers it includes declare, and a function that a header only  *)
(* declares is the one that a file including that header defines.           *)
(***************************************************************************)
EXTENDS Sources

CONSTANTS
  CFiles,       \* files, numbered as they are sorted
  CPath,        \* the path of a file: directories and a file name
  CBuiltin,     \* built-in types
  CGenerated    \* files taken for generated, which are not looked into

ParentDir == 130   \* the segment `..`

(* `#include "path"` or `#include <path>`; a function that is declared; a   *)
(* name for a type, by typedef or using; a type that is declared only; and  *)
(* a base of a class.                                                       *)
Include(isLocal, path) == [is |-> "include", isLocal |-> isLocal, path |-> path]
Prototype(name) == [is |-> "prototype", name |-> name]
TypeAlias(name, type) == [is |-> "alias", name |-> name, type |-> type]
Forward(name) == [is |-> "forward", name |-> name]
Inherits(name, base) == [is |-> "inherits", name |-> name, base |-> base]

CStatements ==
  SharedStatements
    \union [is : {"include"}, isLocal : BOOLEAN, path : Path]
    \union [is : {"prototype"}, name : Nat]
    \union [is : {"alias"}, name : Nat, type : Nat]
    \union [is : {"forward"}, name : Nat]
    \union [is : {"inherits"}, name : Nat, base : Nat]

-----------------------------------------------------------------------------
(* extractor.rs and scope_analyzer.rs                                       *)

CSymbols(file, source) ==
  {ModuleSymbol(file)} \union {SymbolAt(file, source[i]) : i \in Statements(source, "symbol")}

CIncludes(file, source) ==
  {Rel(ModuleSymbol(file), [include |-> source[i].path, isLocal |-> source[i].isLocal], "Imports", NONE, i) :
     i \in Statements(source, "include")}

(* prototype_name: scaffolding, which resolution takes away again.          *)
Prototypes(file, source) ==
  {Rel(ModuleSymbol(file), [prototype |-> source[i].name], "ReExports", source[i].name, i) :
     i \in Statements(source, "prototype")}

(* typedef, using_alias: but not a name for itself.                         *)
Aliases(file, source) ==
  {Rel(ModuleSymbol(file), Named(<<source[i].type>>), "Imports", source[i].name, i) :
     i \in {i \in Statements(source, "alias") : source[i].name # source[i].type}}

(* record_record_type: a type that has no body here, and bases.             *)
Forwards(file, source) ==
  {Rel(ModuleSymbol(file), Named(<<source[i].name>>), "UsesType", NONE, i) :
     i \in {i \in Statements(source, "forward") : <<source[i].name>> \notin CBuiltin}}
CBases(file, source) ==
  {Rel(SymbolAt(file, Def(source[i].name, NONE, "class")), Named(<<source[i].base>>), "Extends", NONE, i) :
     i \in Statements(source, "inherits")}

(* What is called through a value or a scope is left out.                   *)
CCalls(file, source) ==
  {Rel(ModuleSymbol(file), Named(source[i].path), source[i].kind, NONE, i) :
     i \in {i \in Statements(source, "use") : Len(source[i].path) = 1}}

CBound(source, m) == <<m[1], BoundType(source, source[m[1]].owner, m[2], source[m[1]].var)>>
CAccesses(file, source) ==
  {Rel(ModuleSymbol(file), Named(a[2]), "AccessesProperty", NONE, a[1]) :
     a \in MemberTypes({CBound(source, m) : m \in Members(source)}, CBuiltin)}

ExtractC(file, written) ==
  LET source == IF file \in CGenerated THEN << >> ELSE written
  IN  [symbols |-> CSymbols(file, source),
       order |-> InOrder(file, source),
       relationships |-> CIncludes(file, source) \union Prototypes(file, source) \union Aliases(file, source)
                           \union Forwards(file, source) \union CBases(file, source)
                           \union CCalls(file, source) \union CAccesses(file, source),
       diagnostics |-> {}]

IsInclude(r) == "include" \in DOMAIN r.to
IsPrototype(r) == "prototype" \in DOMAIN r.to

-----------------------------------------------------------------------------
(* include_resolver.rs                                                      *)

(* resolve_relative: a path that climbs out of the tree is none.            *)
Relatively(file, path) ==
  FoldLeft(LAMBDA at, segment : IF at = NONE THEN NONE
                                ELSE IF segment # ParentDir THEN Append(at, segment)
                                ELSE IF at = << >> THEN NONE ELSE Front(at),
           Front(CPath[file]), path)

(* unique_basename_match                                                    *)
ByBasename(path) ==
  LET files == {f \in CFiles : Last(CPath[f]) = Last(path)}
  IN  IF Cardinality(files) = 1 THEN CHOOSE f \in files : TRUE ELSE NONE

IncludedFile(file, to) ==
  LET path == Relatively(file, to.include)
      beside == {f \in CFiles : CPath[f] = path}
  IN  IF to.isLocal /\ beside # {} THEN CHOOSE f \in beside : TRUE ELSE ByBasename(to.include)

(* The files a file includes, each where it does.                           *)
Includes(irs, file) ==
  LET at(i) == {r \in irs[file].relationships : IsInclude(r) /\ r.line = i}
  IN  [i \in DOMAIN irs[file].order |->
         IF at(i) = {} THEN NONE ELSE IncludedFile(file, (CHOOSE r \in at(i) : TRUE).to)]
FilesIn(includes) == ToSet(includes) \ {NONE}

(* reachable_headers; `includes` are the files each file includes.          *)
Reachable(includes, file) ==
  LET within[n \in 0 .. Cardinality(CFiles)] ==
        IF n = 0 THEN FilesIn(includes[file])
        ELSE LET nearer == within[n - 1] IN nearer \union UNION {FilesIn(includes[f]) : f \in nearer}
  IN  within[Cardinality(CFiles)]

(* visible_symbols: the last of what is included is looked into first, and  *)
(* what it includes before the rest.                                        *)
Visit(includes, at) ==
  LET f == Last(at.stack)
  IN  IF at.stack = << >> THEN at
      ELSE IF f = NONE \/ Contains(at.seen, f) THEN [at EXCEPT !.stack = Front(@)]
      ELSE [stack |-> Front(at.stack) \o includes[f], seen |-> Append(at.seen, f)]

LookedInto(includes, file) ==
  LET turns == Cardinality(UNION {{f} \X DOMAIN includes[f] : f \in CFiles}) + 1
      walk[n \in 0 .. turns] ==
        IF n = 0 THEN [stack |-> <<file>>, seen |-> << >>] ELSE Visit(includes, walk[n - 1])
  IN  walk[turns].seen

Visible(irs, files, name) ==
  LET declaring == {i \in DOMAIN files : ByName(irs[files[i]].order, name) # NONE}
  IN  IF declaring = {} THEN NONE
      ELSE ByName(irs[files[CHOOSE i \in declaring : \A j \in declaring : i <= j]].order, name)

(* link_prototypes: a header's function is the one definition of that name  *)
(* in the files that include it; and, by a plausible slip, in any file.     *)
Definitions(irs, name) ==
  {s \in UNION {{f} \X (DOMAIN irs[f].order) : f \in CFiles} :
     LET d == irs[s[1]].order[s[2]] IN d # NONE /\ d.kind = "function" /\ d.name = name}
OnlyOne(irs, S) == IF Cardinality(S) # 1 THEN NONE ELSE LET s == CHOOSE s \in S : TRUE IN irs[s[1]].order[s[2]]

LinkAnywhere(irs, includes, header, name) == OnlyOne(irs, Definitions(irs, name))
Link(irs, includes, header, name) ==
  OnlyOne(irs, {s \in Definitions(irs, name) : header \in ToSet(includes[s[1]])})

(* via_prototype: of two headers that declare it, the later in their order. *)
ViaPrototype(irs, includes, file, name) ==
  LET declares(h) == \E r \in irs[h].relationships : IsPrototype(r) /\ r.to.prototype = name
      headers == {h \in Reachable(includes, file) : declares(h) /\ Link(irs, includes, h, name) # NONE}
  IN  IF headers = {} THEN NONE ELSE Link(irs, includes, CHOOSE h \in headers : \A g \in headers : g <= h, name)

(* A type is what is visible by that name, or what it is another name for   *)
(* in this file.                                                            *)
CName(irs, files, file, name) ==
  LET seen == Visible(irs, files, name)
      aliases == {r \in irs[file].relationships :
                    /\ r.kind = "Imports" /\ IsNamed(r.to) /\ r.alias = name
                    /\ Visible(irs, files, r.to.named[1]) # NONE}
  IN  IF seen # NONE THEN seen
      ELSE IF aliases = {} THEN NONE ELSE Visible(irs, files, Latest(aliases).to.named[1])

CIncludeTarget(file, to) ==
  IF IncludedFile(file, to) = NONE THEN PackageNode(Last(to.include)) ELSE ModuleSymbol(IncludedFile(file, to))

(* resolve_repo_ir, one file. A call that is not bound is not kept; a type  *)
(* is not kept either, but reported.                                        *)
ResolveC(irs, file) ==
  LET rels == irs[file].relationships
      included == {r \in rels : IsInclude(r)}
      named == {r \in rels : IsNamed(r.to)}
      isCall(r) == r.kind \in {"Calls", "Instantiates"}
      includes == [f \in CFiles |-> Includes(irs, f)]
      files == LookedInto(includes, file)
      seen == [n \in {r.to.named[1] : r \in named} |-> CName(irs, files, file, n)]
      linked == [n \in {r.to.named[1] : r \in {r \in named : isCall(r)}} |->
                   IF seen[n] # NONE THEN seen[n] ELSE ViaPrototype(irs, includes, file, n)]
      to(r) == IF isCall(r) THEN linked[r.to.named[1]] ELSE seen[r.to.named[1]]
      kept == {r \in named : to(r) # NONE}
      lost == {r \in named \ kept : ~isCall(r) /\ r.to.named \notin CBuiltin}
  IN  [irs[file] EXCEPT
         !.relationships =
           {[r EXCEPT !.to = CIncludeTarget(file, r.to)] : r \in included}
             \union {[r EXCEPT !.to = to(r), !.kind = IF isCall(r) /\ to(r).kind = "class"
                                                         THEN "Instantiates" ELSE @] : r \in kept},
         !.diagnostics = {r.line : r \in lost}]
=============================================================================
