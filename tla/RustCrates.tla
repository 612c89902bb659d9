----------------------------- MODULE RustCrates -----------------------------
(***************************************************************************)
(* The crates of a repository as the Rust adapter finds them (lang/rust,    *)
(* crate_set.rs): the manifests, the roots of module trees, and the module  *)
(* path of a file. A path in the tree is the sequence of its directories    *)
(* and the name of the file, without .rs; a module path is a namespace and  *)
(* the modules below it.                                                    *)
(***************************************************************************)
EXTENDS Sources

CONSTANTS
  RsFiles,      \* files, numbered as they are sorted
  RsPath,       \* the path of a file
  RsManifests   \* the Cargo.toml files, sorted by directory: `dir`, whether
                \*   they are of a package, its `extern` name, the `lib` path
                \*   or NONE, the `targets` with a path, each with its kind,
                \*   the `renames` of dependencies, and workspace `members`

(* Words of Cargo and of the language among the names.                      *)
Crate == 110
Super == 111
Src == 112
LibRs == 113
MainRs == 114
ModRs == 115
Bin == 116
Tests == 117
Benches == 118
Examples == 119

(* RootKind, in its order, with the directory Cargo looks into.             *)
RootKinds == <<"lib", "bin", "test", "bench", "example">>
RankOf(kind) == CHOOSE i \in DOMAIN RootKinds : RootKinds[i] = kind
Conventional == <<[dir |-> <<Src, Bin>>, kind |-> "bin"], [dir |-> <<Tests>>, kind |-> "test"],
                  [dir |-> <<Benches>>, kind |-> "bench"], [dir |-> <<Examples>>, kind |-> "example"]>>

-----------------------------------------------------------------------------
ManifestAt(dir) == \E i \in DOMAIN RsManifests : RsManifests[i].dir = dir
OnDisk(path) == \E f \in RsFiles : RsPath[f] = path
Sorted == [i \in 1 .. Cardinality(RsFiles) |-> CHOOSE f \in RsFiles : Cardinality({g \in RsFiles : g < f}) = i - 1]
After(prefix, path) == SubSeq(path, Len(prefix) + 1, Len(path))

(* The nearest manifest above each file, and the members of workspaces.     *)
Nearest(file) ==
  LET above == {n \in 0 .. Len(RsPath[file]) - 1 : ManifestAt(SubSeq(RsPath[file], 1, n))}
  IN  IF above = {} THEN {}
      ELSE {SubSeq(RsPath[file], 1, CHOOSE n \in above : \A k \in above : k <= n)}

Manifests ==
  LET joined[n \in 0 .. Len(RsManifests)] ==
        IF n = 0 THEN UNION {Nearest(f) : f \in RsFiles}
        ELSE joined[n - 1] \union UNION {RsManifests[i].members :
                                           i \in {i \in DOMAIN RsManifests : RsManifests[i].dir \in joined[n - 1]}}
  IN  SelectSeq(RsManifests, LAMBDA p : p.package /\ p.dir \in joined[Len(RsManifests)])

(* push_root: where the modules of a root are, and its namespace, which for *)
(* a library is the name other crates know it by.                           *)
Root(package, path, kind) ==
  [file |-> path,
   dir |-> IF kind = "lib" \/ Last(path) = MainRs THEN Front(path) ELSE path,
   namespace |-> IF kind = "lib" THEN <<package.extern>> ELSE <<package.extern, path>>,
   kind |-> kind,
   renames |-> package.renames]

(* add_package: the targets a manifest states, then those Cargo finds.      *)
IsTargetIn(dir, path) ==
  LET rest == After(dir, path)
  IN  IsStrictPrefix(dir, path) /\ (Len(rest) = 1 \/ (Len(rest) = 2 /\ Last(rest) = MainRs))

RootsOf(p) ==
  LET in(dir) == SelectSeq(Sorted, LAMBDA f : IsTargetIn(p.dir \o dir, RsPath[f]))
      lib == IF p.lib # NONE THEN <<Root(p, p.dir \o p.lib, "lib")>>
             ELSE IF OnDisk(p.dir \o <<Src, LibRs>>) THEN <<Root(p, p.dir \o <<Src, LibRs>>, "lib")>>
             ELSE << >>
      stated == [i \in DOMAIN p.targets |-> Root(p, p.dir \o p.targets[i].path, p.targets[i].kind)]
      main == IF OnDisk(p.dir \o <<Src, MainRs>>) THEN <<Root(p, p.dir \o <<Src, MainRs>>, "bin")>> ELSE << >>
      found(c) == LET files == in(c.dir) IN [i \in DOMAIN files |-> Root(p, RsPath[files[i]], c.kind)]
  IN  lib \o stated \o main \o FlattenSeq([i \in DOMAIN Conventional |-> found(Conventional[i])])

(* add_conventional_roots: a crate without a manifest goes by the name of   *)
(* its directory.                                                           *)
Unmanifested(stem) ==
  SelectSeq(Sorted, LAMBDA f : /\ IsSuffix(<<Src, stem>>, RsPath[f])
                               /\ ~ManifestAt(SubSeq(RsPath[f], 1, Len(RsPath[f]) - 2)))
Implied(file) ==
  LET dir == SubSeq(RsPath[file], 1, Len(RsPath[file]) - 2)
  IN  [extern |-> IF dir = << >> THEN Crate ELSE Last(dir), renames |-> << >>]

RootsAt(files, kind) == [i \in DOMAIN files |-> Root(Implied(files[i]), RsPath[files[i]], kind)]
ConventionalRoots == RootsAt(Unmanifested(LibRs), "lib") \o RootsAt(Unmanifested(MainRs), "bin")

(* discover: of two roots at one file the first stays.                      *)
FirstOfFile(all) == {all[i] : i \in {i \in DOMAIN all : \A j \in 1 .. i - 1 : all[j].file # all[i].file}}
RootsOfAll(manifests) == FlattenSeq([i \in DOMAIN manifests |-> RootsOf(manifests[i])])
Roots == FirstOfFile(RootsOfAll(Manifests) \o ConventionalRoots)

ExternNames ==
  {p.extern : p \in ToSet(Manifests)}
    \union {Implied(f).extern : f \in ToSet(Unmanifested(LibRs)) \union ToSet(Unmanifested(MainRs))}

-----------------------------------------------------------------------------
(* root_for: the file's own root; or the deepest around it, the library     *)
(* before a binary. And, by a plausible slip, the shallowest.               *)
Claims(r, s, deeper) ==
  \/ deeper
  \/ /\ Len(r.dir) = Len(s.dir)
     /\ \/ RankOf(r.kind) < RankOf(s.kind)
        \/ r.kind = s.kind /\ Len(r.file) <= Len(s.file)

ClaimantShallow(roots, path) ==
  LET around == {r \in roots : r.file = path \/ IsStrictPrefix(r.dir, path)}
  IN  IF around = {} THEN NONE
      ELSE CHOOSE r \in around : \A s \in around : Claims(r, s, Len(r.dir) < Len(s.dir))

Claimant(roots, path) ==
  LET own == {r \in roots : r.file = path}
      around == {r \in roots : IsStrictPrefix(r.dir, path)}
  IN  IF own # {} THEN CHOOSE r \in own : TRUE
      ELSE IF around = {} THEN NONE
      ELSE CHOOSE r \in around : \A s \in around : Claims(r, s, Len(r.dir) > Len(s.dir))
RootFor == [file \in RsFiles |-> Claimant(Roots, RsPath[file])]

At(namespace, path) == [namespace |-> namespace, path |-> path]

(* module_path_for: mod.rs is its directory.                                *)
ModuleBelow(root, path) ==
  LET rest == After(root.dir, path)
  IN  IF root = NONE THEN NONE
      ELSE IF root.file = path THEN At(root.namespace, << >>)
      ELSE IF Len(rest) > 1 /\ Last(rest) = ModRs THEN At(root.namespace, Front(rest))
      ELSE At(root.namespace, rest)
ModulePath == [file \in RsFiles |-> ModuleBelow(RootFor[file], RsPath[file])]

(* extern_namespace: a crate of the repository, by the name a file may know *)
(* it by; NONE if it is a third party's.                                    *)
RealName(root, name) == IF root # NONE /\ name \in DOMAIN root.renames THEN root.renames[name] ELSE name
NamespaceOf(real) == IF real \in ExternNames THEN <<real>> ELSE NONE
ExternNamespace(file, name) == NamespaceOf(RealName(RootFor[file], name))

IsLocalNamespace(namespace) == \E r \in Roots : r.namespace = namespace
=============================================================================
