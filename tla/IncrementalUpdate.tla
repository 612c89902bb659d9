-------------------------- MODULE IncrementalUpdate --------------------------
(***************************************************************************)
(* incremental.rs, replace_file_ir: a graph that was built from a           *)
(* repository and then follows it one changed file at a time, without being *)
(* built again. The commands of this version build from the start on every  *)
(* change; the operation is the library's, and docs/architecture.md         *)
(* (Incremental updates) says what it promises.                             *)
(***************************************************************************)
EXTENDS CodeGraph

CONSTANTS
  MaxEdits,             \* model bound: replacements in one behaviour
  FollowedDeclarations,  \* model bound: declarations per file beside its module
  FollowedLabels        \* model bound: their labels

ASSUME FollowedAssumption == FollowedDeclarations \in Nat /\ FollowedLabels \subseteq Labels

VARIABLES
  source,  \* the FileIR the graph was last told of, for every file
  kept,    \* the graph
  edits    \* replacements so far

followed == <<source, kept, edits>>

(* What a file may be and become. Aliases and unresolved targets are left   *)
(* to GraphBuild.                                                           *)
Followed == Files \X (FollowedLabels \union {ModuleLabel})

Plain(ir) ==
  /\ Len(ir.symbols) <= FollowedDeclarations + 1
  /\ Range(ir.symbols) \subseteq Followed
  /\ \A r \in Range(ir.relationships) : r.alias = NONE /\ r.to \in Followed \union External

Sizes == (0 .. FollowedDeclarations) \X (0 .. MaxRelationships)

PlainIRs == [at \in Files \X Sizes |-> {ir \in FileIRs(at[1], at[2]) : Plain(ir)}]

Rewrites(R, f) ==
  LET share == [h \in Files |-> <<Len(R[h].symbols) - 1, Len(R[h].relationships)>>]
  IN  UNION {PlainIRs[<<f, size>>] : size \in {x \in Sizes :
                                              [share EXCEPT ![f] = x] \in Shares}}

(* build_graph, in path order.                                              *)
Build(R) ==
  LET inOrder == Ascending(Files)
      files == [i \in DOMAIN inOrder |-> <<inOrder[i], R[inOrder[i]]>>]
      declared == FoldLeft(LAMBDA g, x : AddFileSymbols(g, x[2]), EmptyGraph, files)
  IN  FoldLeft(LAMBDA g, x : AddFileRelationships(g, x[1], x[2]), declared, files)

FollowInit ==
  /\ \E share \in Shares : source \in {R \in ReposOf(share) : \A f \in Files : Plain(R[f])}
  /\ kept = Build(source)
  /\ edits = 0

ReplaceFile(f, ir) ==
  /\ source' = [source EXCEPT ![f] = ir]
  /\ kept' = ReplaceFileIr(kept, f, ir)
  /\ edits' = edits + 1

FollowNext ==
  /\ edits < MaxEdits
  /\ \E f \in Files : \E ir \in Rewrites(source, f) : ReplaceFile(f, ir)

FollowSpec == FollowInit /\ [][FollowNext]_followed

-----------------------------------------------------------------------------
NodesOf(g, f) == {id \in Range(g.nodes) \intersect Declared : FileOf(id) = f}

(* The edges that neither belong to file f nor touch a symbol of it.        *)
EdgesApartFrom(g, f) ==
  {e \in EdgeView(g) : e.file # f /\ {e.from, e.to} \intersect NodesOf(g, f) = {}}

(* However the positions went stale during the removals, afterwards each    *)
(* position leads to its own node, no edge hangs in the air and no index    *)
(* names a symbol that is gone: what a query walks is never garbage.        *)
Addressable ==
  /\ NodeIndexExact(kept)
  /\ EdgesInArena(kept)
  /\ IndexesSound(kept)

(* Every declared symbol has a symbol and a node, so that it can be asked   *)
(* for by its id, a removal that left its node behind notwithstanding.      *)
DeclaredIsPresent ==
  \A f \in Files : Range(source[f].symbols) \subseteq kept.symbols \intersect Range(kept.nodes)

(* Removing by a stale position never removes a neighbour: the symbols of   *)
(* other files and the edges among them survive a replacement.              *)
NeighboursKept ==
  [][\A f \in Files : source'[f] # source[f] =>
       /\ \A h \in Files \ {f} : NodesOf(kept, h) \subseteq NodesOf(kept', h)
       /\ {id \in kept.symbols : FileOf(id) # f} \subseteq kept'.symbols
       /\ EdgesApartFrom(kept, f) \subseteq EdgeView(kept')]_followed

(* docs/architecture.md: "Remove all nodes and edges from the changed       *)
(* file". No edge is left that its file no longer declares.                 *)
EdgesAreDeclared ==
  \A e \in EdgeView(kept) : e \in Range(source[e.file].relationships)
=============================================================================
