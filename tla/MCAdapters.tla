----------------------------- MODULE MCAdapters -----------------------------
(***************************************************************************)
(* Adapters over a small repository of each language. Names of things are   *)
(* numbers up to 9, those of directories and files are above 20, types      *)
(* none may declare are 8.                                                  *)
(***************************************************************************)
EXTENDS Adapters

a == 1
b == 2
c == 3

(* TypeScript: b is a barrel over c, and c may import from a; `ignored` is  *)
(* on disk but left out, and `@/c`, `@/bundle` and `@/ignored` are mapped to *)
(* those files by tsconfig.json.                                            *)
ignored == 4
bundle == 5
MCTsFiles == {a, b, c, ignored, bundle}
MCTsKnown == {a, b, c, bundle}
MCTsRelative == (21 :> <<a>>) @@ (22 :> <<b>>) @@ (23 :> <<ignored, c>>) @@ (24 :> <<ignored>>) @@ (25 :> <<bundle>>)
MCTsPatterns == <<"@/*">>
MCTsMatches == ("@/*" :> {33, 35, 36})
MCTsConfigs == ("tsconfig" :> [extends |-> "tsconfig.base", base |-> NONE, paths |-> << >>])
               @@ ("tsconfig.base" :> [extends |-> "tsconfig", base |-> NONE, paths |-> ("@/*" :> <<"src">>)])
MCBuiltinPaths == {<<8>>}
MCTsProbe ==
  (<<"root", "src", 33>> :> c) @@ (<<"root", "src", 35>> :> bundle) @@ (<<"root", "src", 36>> :> ignored)

TsWritable ==
  {<<a, Ts!ImportAs(spec, 1, 1)>> : spec \in {22, 23, 24, 33, 34, 36}}
    \union {<<a, Ts!ImportAs(22, 1, 2)>>, <<a, Ts!ImportAs(23, Ts!Default, 2)>>, <<a, Ts!ImportAs(22, Ts!Star, 3)>>,
            <<a, Ts!ImportAs(34, 2, 2)>>, <<a, Ts!Declare(2, "class")>>, <<a, Ts!Use("Calls", 2)>>, <<a, Ts!Use("Instantiates", 1)>>,
            <<a, Ts!Typed(4, 5, 1)>>, <<a, Ts!Typed(6, 5, 2)>>, <<a, Ts!Access(4, FALSE, 5)>>, <<a, Ts!Access(6, FALSE, 5)>>,
            <<a, Ts!Typed(Ts!Constructor, 5, 1)>>, <<a, Ts!Access(4, TRUE, 5)>>,
            <<b, Ts!ReexportAs(23, 1, 1)>>, <<b, Ts!ReexportAs(21, 1, 1)>>, <<b, Ts!ReexportAs(22, 1, 2)>>,
            <<b, Ts!ReexportAs(23, Ts!Star, Ts!Star)>>, <<b, Ts!ReexportAs(25, Ts!Star, Ts!Star)>>,
            <<b, Ts!ReexportAs(24, Ts!Star, Ts!Star)>>, <<b, Ts!ReexportAs(33, 1, 1)>>, <<b, Ts!ReexportAs(23, 2, 1)>>,
            <<b, Ts!ReexportAs(35, Ts!Star, Ts!Star)>>, <<b, Ts!ReexportAs(36, Ts!Star, Ts!Star)>>,
            <<c, Ts!ReexportAs(22, 1, 1)>>, <<c, Ts!Declare(1, "class")>>, <<bundle, Ts!Declare(1, "class")>>}
TsBeginning == (a :> <<Ts!Declare(7, "class"), Ts!Declare(4, "method")>>) @@ (b :> << >>) @@ (c :> <<Ts!Declare(2, "function")>>)
               @@ (bundle :> << >>)

(* Python: `outer/__init__.py`, `outer/b.py`, `c.py` and `loose/d.py`, whose *)
(* directory has no __init__.                                               *)
d == 4
MCPyFiles == {a, b, c, d}
MCPyDirectory == (a :> <<21>>) @@ (b :> <<21>>) @@ (c :> << >>) @@ (d :> <<24>>)
MCPyStem == (a :> 20) @@ (b :> 22) @@ (c :> 23) @@ (d :> 25)
PyWritable ==
  {<<c, ImportPy(0, <<21>>, 1, NONE)>>, <<c, ImportPy(0, <<21>>, 1, 2)>>, <<c, ImportPy(0, <<21, 22>>, 1, NONE)>>,
   <<c, ImportPy(0, <<24, 25>>, 1, NONE)>>, <<c, ImportPy(0, <<21, 22>>, All, NONE)>>,
   <<c, Use(<<1>>, "Calls")>>, <<c, Use(<<2>>, "Calls")>>, <<c, Use(<<22, 1>>, "Calls")>>, <<c, Def(1, NONE, "function")>>,
   <<c, Class(3, {<<1>>})>>, <<c, Class(3, {<<1>>, <<9>>})>>, <<c, Class(3, {<<8>>})>>,
   <<a, ImportPy(1, <<22>>, 1, NONE)>>, <<a, ImportPy(1, <<22>>, 2, 1)>>, <<b, ImportPy(1, << >>, 1, NONE)>>,
   <<b, ImportPy(1, <<22>>, 2, 1)>>,
   <<b, Def(1, NONE, "class")>>, <<d, ImportPy(1, << >>, 1, NONE)>>,
   <<c, Typed(NONE, <<4>>, 5, <<1>>, TRUE)>>, <<c, Typed(NONE, <<6>>, 5, <<7>>, FALSE)>>, <<c, Member(NONE, <<4>>, 5)>>,
   <<c, Member(7, <<6>>, Self)>>, <<c, Typed(NONE, <<4, 6>>, 5, <<7>>, TRUE)>>, <<c, Member(NONE, <<4, 6>>, 5)>>}
PyBeginning == (a :> << >>) @@ (b :> <<Def(2, NONE, "function")>>) @@ (c :> <<Def(7, NONE, "class"), ImportPy(0, <<26>>, 9, NONE)>>) @@ (d :> << >>)

(* Rust: a workspace of the library `core` (21), at `crates/core`, and the  *)
(* one of the root, 20, whose lib.rs has no directory, with a test.         *)
MCRsFiles == 1 .. 6
MCRsPath == (1 :> <<LibRs>>) @@ (2 :> <<31>>) @@ (3 :> <<31, 32>>)
            @@ (4 :> <<41, 21, Src, LibRs>>) @@ (5 :> <<41, 21, Src, 31, ModRs>>) @@ (6 :> <<Tests, 33>>)
Manifest(dir, extern, lib, renames, members) ==
  [dir |-> dir, package |-> TRUE, extern |-> extern, lib |-> lib, targets |-> << >>, renames |-> renames,
   members |-> members]
MCRsManifests == <<Manifest(<< >>, 20, <<LibRs>>, (22 :> 21), {<<41, 21>>}), Manifest(<<41, 21>>, 21, NONE, << >>, {})>>
OneUse(path, alias) == UseTree(<< >>, <<Leaf(path, "name", alias)>>)
RsWritable ==
  {<<1, OneUse(<<Crate, 31, 1>>, NONE)>>, <<1, OneUse(<<22, 31, 1>>, NONE)>>, <<1, OneUse(<<21, 1>>, NONE)>>,
   <<2, OneUse(<<Self, 32, 1>>, NONE)>>, <<3, OneUse(<<Super, 2>>, NONE)>>, <<3, OneUse(<<Super, Super, 1>>, 3)>>,
   <<3, OneUse(<<34, 1>>, NONE)>>, <<2, UseTree(<<32>>, <<Leaf(<<1>>, "name", 2), Leaf(<< >>, "self", NONE)>>)>>,
   <<4, OneUse(<<Crate, 31, 1>>, NONE)>>, <<2, OneUse(<<Self, 2>>, 1)>>, <<4, UseTree(<<Crate>>, <<Leaf(<<31>>, "glob", NONE)>>)>>,
   <<6, OneUse(<<21, 31, 1>>, NONE)>>, <<6, OneUse(<<20, 31, 1>>, NONE)>>, <<6, OneUse(<<Crate, 35, 1>>, NONE)>>,
   <<6, OneUse(<<109, 1>>, NONE)>>,
   <<2, Def(1, NONE, "function")>>,
   <<3, Def(4, 1, "method")>>, <<2, Use(<<1, 4>>, "Calls")>>, <<2, Use(<<1>>, "Instantiates")>>, <<1, Use(<<1>>, "Calls")>>,
   <<2, Impl(7, 1)>>, <<2, Derive(7, "class", 9)>>,
   <<2, Typed(NONE, <<4>>, 5, <<1>>, TRUE)>>, <<2, Typed(NONE, <<4, 6>>, 5, <<7>>, FALSE)>>, <<2, Member(NONE, <<4>>, 5)>>}
RsBeginning ==
  (1 :> << >>) @@ (2 :> <<Def(7, NONE, "class"), Def(2, NONE, "function")>>) @@ (3 :> <<Def(1, NONE, "class")>>)
  @@ (4 :> << >>) @@ (5 :> <<Def(1, NONE, "class")>>) @@ (6 :> << >>)

(* Go: the packages `m`, of two files, and `m/p`, and one outside of a      *)
(* module.                                                                  *)
MCGoFiles == 1 .. 4
MCGoDirectory == (1 :> << >>) @@ (2 :> << >>) @@ (3 :> <<22>>) @@ (4 :> <<22>>)
MCGoMods == << >> :> <<21>>
GoWritable ==
  {<<1, ImportGo(<<21, 22>>, NONE)>>, <<1, ImportGo(<<21, 22>>, 4)>>, <<1, ImportGo(<<21, 23>>, NONE)>>, <<1, ImportGo(<<24>>, Blank)>>,
   <<1, Use(<<22, 1>>, "Calls")>>, <<1, Use(<<4, 1>>, "Instantiates")>>, <<1, Use(<<2>>, "Calls")>>,
   <<1, Refer(<<22, 1>>)>>, <<1, Refer(<<2>>)>>, <<1, Refer(<<8>>)>>,
   <<2, Def(2, NONE, "class")>>, <<4, Def(1, NONE, "interface")>>, <<4, Def(1, NONE, "function")>>,
   <<3, Def(5, 1, "method")>>, <<4, Def(5, 2, "method")>>, <<3, Def(6, 2, "method")>>,
   <<1, Typed(2, <<5>>, 3, <<2>>, TRUE)>>, <<1, Typed(2, <<5>>, 3, <<22, 1>>, TRUE)>>, <<1, Member(2, <<5>>, 3)>>}
GoBeginning == (1 :> << >>) @@ (2 :> << >>) @@ (3 :> <<Def(2, NONE, "class"), Def(1, NONE, "class")>>)
               @@ (4 :> <<Def(3, NONE, "interface"), Def(5, 3, "method")>>)

(* C: a header that declares what either of two sources may define, another *)
(* header of the same name elsewhere, and a source that includes neither.   *)
MCCFiles == 1 .. 5
MCCPath == (1 :> <<21, 31>>) @@ (2 :> <<22, 31>>) @@ (3 :> <<21, 32>>) @@ (4 :> <<22, 33>>) @@ (5 :> <<34>>)
CWritable ==
  {<<4, Include(TRUE, <<ParentDir, 21, 31>>)>>, <<4, Include(TRUE, <<31>>)>>,
   <<5, Include(FALSE, <<31>>)>>, <<5, Include(TRUE, <<21, 31>>)>>, <<5, Include(TRUE, <<35>>)>>, <<1, Include(TRUE, <<ParentDir, 22, 31>>)>>,
   <<2, Include(TRUE, <<ParentDir, 21, 31>>)>>,
   <<2, Prototype(1)>>, <<3, Def(1, NONE, "function")>>, <<4, Def(1, NONE, "function")>>,
   <<3, Use(<<2>>, "Instantiates")>>, <<2, Def(2, NONE, "class")>>, <<1, Def(2, NONE, "class")>>,
   <<5, Forward(2)>>, <<5, TypeAlias(3, 2)>>, <<5, Inherits(7, 3)>>, <<5, Inherits(7, 2)>>,
   <<5, Typed(NONE, <<4>>, 5, <<2>>, TRUE)>>, <<5, Member(NONE, <<4>>, 5)>>}
CBeginning ==
  (1 :> <<Prototype(1)>>) @@ (2 :> << >>) @@ (3 :> <<Include(TRUE, <<31>>)>>) @@ (4 :> << >>)
  @@ (5 :> <<Def(7, NONE, "class"), Use(<<1>>, "Calls")>>)

MCBeginnings ==
  [typescript |-> {TsBeginning}, python |-> {PyBeginning}, rust |-> {RsBeginning}, go |-> {GoBeginning}, c |-> {CBeginning}]
MCWritable ==
  [typescript |-> TsWritable, python |-> PyWritable, rust |-> RsWritable, go |-> GoWritable, c |-> CWritable]
=============================================================================
