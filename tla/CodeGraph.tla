------------------------------ MODULE CodeGraph ------------------------------
(***************************************************************************)
(* The in-memory graph of graphyn-core (graph.rs, incremental.rs, index.rs  *)
(* and the ingesting half of resolver.rs) as operators on a graph value.    *)
(*                                                                          *)
(* The arena is petgraph's: nodes and edges are vectors addressed by        *)
(* position, and removing an element moves the last one into its place      *)
(* (swap_remove). Positions held across a removal go stale, which is what   *)
(* the code has to be careful about, so positions are modelled. The maps    *)
(* beside the arena are functions whose DOMAIN is the set of present keys.  *)
(***************************************************************************)
EXTENDS Naturals, FiniteSets, SequencesExt, Functions

CONSTANTS
  Files,         \* source files, numbered in path order
  Labels,        \* the <name>::<kind> of symbols, numbered in byte order
  ModuleLabel,   \* module::module, the synthetic symbol of every file
  Naming,         \* the name in a label, and that of a package
  External,      \* ids of the form ext::<package>::package
  Placeholders,  \* unresolved_import|... ids a resolver left in place
  NONE,          \* no alias, no answer
  Kinds,         \* kinds of relationship in use
  Aliases,       \* the names one may be written with, NONE for the own one
  MaxDeclarations,  \* model bound: declarations beside the modules
  MaxRelationships  \* model bound: relationships in the repository

ASSUME FilesAssumption == Files \subseteq Nat \ {0} /\ IsFiniteSet(Files)
ASSUME LabelsAssumption == Labels \subseteq Nat /\ ModuleLabel \in Labels
ASSUME BoundsAssumption == MaxDeclarations \in Nat /\ MaxRelationships \in Nat

(* file::name::kind, as <<file, label>>: an id determines its symbol's file *)
(* and name, and ids of one file compare by label. A file may declare one   *)
(* name under several kinds. The Symbol of an external id has file "".      *)
Declared == Files \X Labels
Ids == Declared \union External \union Placeholders
Names == {Naming[x] : x \in Labels \union External}
ASSUME IdsAssumption == External \intersect Declared = {} /\ NONE \notin Files

NoFile == 0
FileOf(id) == IF id \in External THEN NoFile ELSE id[1]
NameOf(id) == Naming[IF id \in External THEN id ELSE id[2]]

Relationships(F) ==
  [from : F \X Labels, to : Ids, kind : Kinds,
   alias : Aliases, file : F]

(* graph.rs, GraphynGraph::new.                                             *)
EmptyGraph ==
  [nodes |-> << >>, edges |-> << >>, nodeIndex |-> << >>,
   nameIndex |-> << >>, fileIndex |-> << >>, symbols |-> {},
   aliasChains |-> << >>, reexports |-> {}]

-----------------------------------------------------------------------------
(* Maps.                                                                    *)

Put(map, key, value) == [k \in DOMAIN map \union {key} |->
                           IF k = key THEN value ELSE map[k]]
Delete(map, key) == Restrict(map, DOMAIN map \ {key})
Lookup(map, key, default) == IF key \in DOMAIN map THEN map[key] ELSE default

(* A plausible slip: the entry is overwritten.                              *)
InsertLatest(map, key, id) == Put(map, key, {id})

(* entry(key).and_modify(push, sort, dedup).or_insert(vec![id])             *)
Insert(map, key, id) == Put(map, key, Lookup(map, key, {}) \union {id})

(* A finite set of numbers in order. (The library's sort is no definition a *)
(* proof can unfold.)                                                       *)
Ascending(S) ==
  CHOOSE s \in [1 .. Cardinality(S) -> S] : \A i, j \in DOMAIN s : i < j => s[i] < s[j]

-----------------------------------------------------------------------------
(* petgraph's Graph. An edge remembers its age, its rank in insertion       *)
(* order: petgraph walks a node's edges from the youngest to the oldest.    *)

AddNode(g, id) == [g EXCEPT !.nodes = Append(@, id)]

AddEdge(g, e) ==
  [g EXCEPT !.edges =
     Append(@, [from |-> e.from, to |-> e.to, kind |-> e.kind, alias |-> e.alias,
                file |-> e.file, age |-> Len(g.edges) + 1])]

(* swap_remove; a position past the end removes nothing.                    *)
SwapRemove(s, i) ==
  IF i > Len(s) THEN s
  ELSE [j \in 1 .. Len(s) - 1 |-> IF j = i THEN s[Len(s)] ELSE s[j]]

RemoveEdge(g, i) ==
  IF i > Len(g.edges) THEN g
  ELSE LET gone == g.edges[i].age
           rest == SwapRemove(g.edges, i)
           left == [j \in DOMAIN rest |->
                      IF rest[j].age > gone THEN [rest[j] EXCEPT !.age = @ - 1] ELSE rest[j]]
       IN  [g EXCEPT !.edges = left]

(* The edges of node n in the order remove_node takes them: first those     *)
(* that leave it, then those that enter it, youngest first.                 *)
NextEdgeOf(g, n) ==
  LET out == {i \in DOMAIN g.edges : g.edges[i].from = n}
      in  == {i \in DOMAIN g.edges : g.edges[i].to = n}
      youngest(S) == CHOOSE i \in S : \A j \in S : g.edges[i].age >= g.edges[j].age
  IN  IF out # {} THEN youngest(out) ELSE youngest(in)

IncidentTo(g, n) == {i \in DOMAIN g.edges : n \in {g.edges[i].from, g.edges[i].to}}

RemoveEdgesOf(g, n) ==
  FoldSet(LAMBDA i, h : RemoveEdge(h, NextEdgeOf(h, n)), g, IncidentTo(g, n))

RemoveNode(g, n) ==
  IF n > Len(g.nodes) THEN g
  ELSE LET bare == RemoveEdgesOf(g, n)
           last == Len(g.nodes)
           moved(i) == IF i = last THEN n ELSE i
           edges == [j \in DOMAIN bare.edges |->
                       [bare.edges[j] EXCEPT !.from = moved(@), !.to = moved(@)]]
       IN  [bare EXCEPT !.nodes = SwapRemove(@, n), !.edges = edges]

-----------------------------------------------------------------------------
(* graph.rs                                                                 *)

(* replace_symbol: the id fixes name and file, so neither index moves; the  *)
(* symbol is stored whether or not there was one.                           *)
ReplaceSymbol(g, id) == [g EXCEPT !.symbols = @ \union {id}]

EnrolAt(g, id, n) ==
  [AddNode(g, id) EXCEPT
     !.nodeIndex = Put(@, id, n),
     !.symbols = @ \union {id},
     !.nameIndex = Insert(@, NameOf(id), id),
     !.fileIndex = Insert(@, FileOf(id), id)]

(* Plausible slips: the file index is forgotten; a known id is taken to     *)
(* need nothing.                                                            *)
AddSymbolUnfiled(g, id) ==
  IF id \in DOMAIN g.nodeIndex THEN ReplaceSymbol(g, id)
  ELSE [EnrolAt(g, id, Len(g.nodes) + 1) EXCEPT !.fileIndex = g.fileIndex]

AddSymbolOnce(g, id) ==
  IF id \in DOMAIN g.nodeIndex THEN g ELSE EnrolAt(g, id, Len(g.nodes) + 1)

AddSymbol(g, id) ==
  IF id \in DOMAIN g.nodeIndex THEN ReplaceSymbol(g, id)
  ELSE EnrolAt(g, id, Len(g.nodes) + 1)

(* An edge from or to an id that is not a node is dropped without a word;   *)
(* a package becomes a node when it is first referred to.                   *)
AddRelationship(g, r) ==
  LET h == IF r.to \in External THEN AddSymbol(g, r.to) ELSE g
  IN  IF r.from \notin DOMAIN g.nodeIndex THEN g
      ELSE IF r.to \notin DOMAIN h.nodeIndex THEN h
      ELSE AddEdge(h, [from |-> h.nodeIndex[r.from], to |-> h.nodeIndex[r.to],
                       kind |-> r.kind, alias |-> r.alias, file |-> r.file])

(* A plausible slip: positions counted from one, edges from zero.           *)
RemoveRelationshipsOffByOne(g, f) ==
  LET ids == Ascending({i \in DOMAIN g.edges : g.edges[i].file = f})
  IN  FoldLeft(LAMBDA h, i : RemoveEdge(h, i + 1), g, ids)

(* The positions are collected first and removed in ascending order, as     *)
(* collected.                                                               *)
RemoveRelationshipsInFile(g, f) ==
  LET ids == Ascending({i \in DOMAIN g.edges : g.edges[i].file = f})
  IN  FoldLeft(RemoveEdge, g, ids)

RebuildNodeIndex(g) ==
  [g EXCEPT !.nodeIndex =
     [id \in Range(g.nodes) |->
        CHOOSE i \in DOMAIN g.nodes :
          /\ g.nodes[i] = id
          /\ \A j \in DOMAIN g.nodes : g.nodes[j] = id => j <= i]]

(* A plausible slip: the name index keeps the symbols that go.              *)
RemoveSymbolButNotName(g, id) ==
  LET h == [g EXCEPT
              !.symbols = @ \ {id},
              !.nodeIndex = Delete(@, id),
              !.aliasChains = Delete(@, id)]
  IN  IF id \in DOMAIN g.nodeIndex THEN RemoveNode(h, g.nodeIndex[id]) ELSE h

(* One turn of the loop in remove_file: node_index still holds the          *)
(* positions from before the loop.                                          *)
RemoveSymbol(g, id) ==
  LET h == [g EXCEPT
              !.symbols = @ \ {id},
              !.nameIndex =
                 IF id \in g.symbols /\ NameOf(id) \in DOMAIN @
                   THEN Put(@, NameOf(id), @[NameOf(id)] \ {id}) ELSE @,
              !.nodeIndex = Delete(@, id),
              !.aliasChains = Delete(@, id)]
  IN  IF id \in DOMAIN g.nodeIndex THEN RemoveNode(h, g.nodeIndex[id]) ELSE h

RemoveFile(g, f) ==
  LET labels == Ascending({id[2] : id \in Lookup(g.fileIndex, f, {})})
      h == FoldLeft(RemoveSymbol, g, [i \in DOMAIN labels |-> <<f, labels[i]>>])
  IN  RebuildNodeIndex([h EXCEPT !.fileIndex = Delete(@, f),
                                 !.reexports = @ \ {f}])

-----------------------------------------------------------------------------
(* resolver.rs, ingest_relationships: an import or re-export under a name   *)
(* is chained to its target whether or not the target is in the graph. (A   *)
(* relationship of any kind may carry the name it was written with.)        *)
IngestRelationship(g, r) ==
  IF r.kind \in {"Imports", "ReExports"} /\ r.alias # NONE
    THEN [g EXCEPT !.aliasChains = Insert(@, r.to, [alias |-> r.alias, file |-> r.file])]
    ELSE g

(* index.rs, find_symbol_id, asked with a file or with NONE. The answer is  *)
(* an id, "not found", or the candidates of an ambiguity: files, and only   *)
(* one where a file declares the name under two kinds.                      *)
FindSymbolId(g, name, f) ==
  LET ids == Lookup(g.nameIndex, name, {})
      inFile == {id \in ids : id \in g.symbols /\ FileOf(id) = f}
  IN  IF name \notin DOMAIN g.nameIndex THEN [answer |-> "not found"]
      ELSE IF f # NONE THEN
        IF inFile = {} THEN [answer |-> "not found"]
        ELSE [answer |-> "found",
              id |-> CHOOSE id \in inFile : \A x \in inFile : id[2] <= x[2]]
      ELSE IF Cardinality(ids) = 1
        THEN [answer |-> "found", id |-> CHOOSE id \in ids : TRUE]
      ELSE [answer |-> "ambiguous",
            candidates |-> {FileOf(id) : id \in ids \intersect g.symbols}]

-----------------------------------------------------------------------------
(* A FileIR: the symbols and the relationships of one file, in source       *)
(* order, as an adapter hands them over.                                    *)

(* Every file begins with its synthetic module symbol; the relationships an *)
(* adapter emits leave from symbols of the same file. An id may be declared *)
(* twice (overloads share one).                                             *)
FileIRs(f, size) ==
  LET symbols == {<<<<f, ModuleLabel>>>> \o t :
                    t \in [1 .. size[1] -> {f} \X (Labels \ {ModuleLabel})]}
      leaving(s) == {r \in Relationships({f}) : r.from \in Range(s)}
  IN  UNION {[symbols : {s}, relationships : [1 .. size[2] -> leaving(s)]] : s \in symbols}

(* The sizes of the files: declarations beside the module, relationships.   *)
Shares == {share \in [Files -> (0 .. MaxDeclarations) \X (0 .. MaxRelationships)] :
             /\ FoldSet(LAMBDA f, n : n + share[f][1], 0, Files) <= MaxDeclarations
             /\ FoldSet(LAMBDA f, n : n + share[f][2], 0, Files) <= MaxRelationships}

(* One FileIR per file, of the given sizes.                                 *)
ReposOf(share) ==
  FoldSet(LAMBDA f, rest : {Put(R, f, ir) : R \in rest, ir \in FileIRs(f, share[f])},
          {<< >>}, Files)

(* build_graph, the two passes over the files.                              *)
AddFileSymbols(g, ir) == FoldLeft(AddSymbol, g, ir.symbols)

AddFileRelationships(g, f, ir) ==
  FoldLeft(IngestRelationship,
           [FoldLeft(AddRelationship, g, ir.relationships) EXCEPT
              !.reexports = @ \union {f}],
           ir.relationships)

(* incremental.rs, replace_file_ir.                                         *)
ReplaceFileIr(g, f, ir) ==
  LET cleared == RemoveFile(RemoveRelationshipsInFile(g, f), f)
  IN  FoldLeft(AddRelationship,
               AddFileSymbols([cleared EXCEPT !.reexports = @ \union {f}], ir),
               ir.relationships)

-----------------------------------------------------------------------------
(* Views of a graph that do not mention positions.                          *)

EdgeView(g) == {[from |-> g.nodes[e.from], to |-> g.nodes[e.to],
                 kind |-> e.kind, alias |-> e.alias, file |-> e.file] : e \in Range(g.edges)}

(* node_index and the arena are inverse to each other.                      *)
NodeIndexExact(g) ==
  /\ DOMAIN g.nodeIndex = Range(g.nodes)
  /\ \A i \in DOMAIN g.nodes : g.nodeIndex[g.nodes[i]] = i

(* Every edge runs between nodes of the arena.                              *)
EdgesInArena(g) ==
  \A e \in Range(g.edges) : {e.from, e.to} \subseteq DOMAIN g.nodes

(* The secondary indexes name only symbols, under their own key.            *)
IndexesSound(g) ==
  /\ \A n \in DOMAIN g.nameIndex : g.nameIndex[n] \subseteq {id \in g.symbols : NameOf(id) = n}
  /\ \A f \in DOMAIN g.fileIndex : g.fileIndex[f] \subseteq {id \in g.symbols : FileOf(id) = f}

(* And they name all of them.                                               *)
IndexesComplete(g) ==
  \A id \in g.symbols :
    /\ id \in Lookup(g.nameIndex, NameOf(id), {})
    /\ id \in Lookup(g.fileIndex, FileOf(id), {})
=============================================================================
