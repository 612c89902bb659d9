----------------------------- MODULE GraphBuild -----------------------------
(***************************************************************************)
(* build_graph, the way every graph the tools answer from comes about       *)
(* (cli commands/analyze.rs, mcp tools/refresh_graph.rs): the symbols of    *)
(* all files first, the relationships of all files after, then saved and    *)
(* read back (store rocksdb.rs, GraphSnapshot). The code walks the files in *)
(* path order; here any order will do, and the outcome may not depend on it.*)
(***************************************************************************)
EXTENDS CodeGraph

VARIABLES
  repo,     \* the FileIR of every file
  phase,    \* "symbols", "relationships", "built" or "loaded"
  pending,  \* files the current pass has not come to
  graph

vars == <<repo, phase, pending, graph>>

Init ==
  /\ \E share \in Shares : repo \in ReposOf(share)
  /\ phase = "symbols"
  /\ pending = Files
  /\ graph = EmptyGraph

(* A plausible slip: each file's relationships are added with its symbols.  *)
AddSymbolsInOnePass(f) ==
  /\ phase = "symbols"
  /\ f \in pending
  /\ graph' = AddFileRelationships(AddFileSymbols(graph, repo[f]), f, repo[f])
  /\ pending' = pending \ {f}
  /\ phase' = IF pending = {f} THEN "built" ELSE "symbols"
  /\ UNCHANGED repo

(* One turn of the first loop.                                              *)
AddSymbols(f) ==
  /\ phase = "symbols"
  /\ f \in pending
  /\ graph' = AddFileSymbols(graph, repo[f])
  /\ pending' = IF pending = {f} THEN Files ELSE pending \ {f}
  /\ phase' = IF pending = {f} THEN "relationships" ELSE "symbols"
  /\ UNCHANGED repo

(* One turn of the second loop.                                             *)
AddRelationships(f) ==
  /\ phase = "relationships"
  /\ f \in pending
  /\ graph' = AddFileRelationships(graph, f, repo[f])
  /\ pending' = pending \ {f}
  /\ phase' = IF pending = {f} THEN "built" ELSE "relationships"
  /\ UNCHANGED repo

(* GraphSnapshot::into_graph of GraphSnapshot::from_graph. The snapshot     *)
(* sorts its relationships by file and line; lines are not modelled, so     *)
(* they may come back in any order.                                         *)
Reload(g, order) ==
  LET symbols == SetToSeq(g.symbols)
      rels == [i \in DOMAIN g.edges |->
                 LET e == g.edges[order[i]]
                 IN  [from |-> g.nodes[e.from], to |-> g.nodes[e.to],
                      kind |-> e.kind, alias |-> e.alias, file |-> e.file]]
  IN  [FoldLeft(AddRelationship, FoldLeft(AddSymbol, EmptyGraph, symbols), rels)
         EXCEPT !.aliasChains = g.aliasChains, !.reexports = g.reexports]

SaveAndLoad ==
  /\ phase = "built"
  /\ \E order \in Bijection(DOMAIN graph.edges, DOMAIN graph.edges) :
       graph' = Reload(graph, order)
  /\ phase' = "loaded"
  /\ UNCHANGED <<repo, pending>>

Next ==
  \/ \E f \in Files : AddSymbols(f) \/ AddRelationships(f)
  \/ SaveAndLoad

Spec == Init /\ [][Next]_vars

-----------------------------------------------------------------------------
(* What the files declare, read off the repository without building.        *)

DeclaredSymbols == UNION {Range(repo[f].symbols) : f \in Files}

DeclaredEdges ==
  {r \in UNION {Range(repo[f].relationships) : f \in Files} :
     r.to \in DeclaredSymbols \union External}

UsedPackages == {r.to : r \in DeclaredEdges} \intersect External

(* Where in the files a relationship is to become an edge.                  *)
EdgeSites ==
  {site \in UNION {{f} \X DOMAIN repo[f].relationships : f \in Files} :
     repo[site[1]].relationships[site[2]] \in DeclaredEdges}

(* The names under which each target is imported elsewhere.                 *)
DeclaredAliases(id) ==
  {[alias |-> r.alias, file |-> r.file] :
     r \in {x \in UNION {Range(repo[f].relationships) : f \in Files} :
              x.to = id /\ x.kind \in {"Imports", "ReExports"} /\ x.alias # NONE}}

(* At every step the arena, the node index and the two lookup indexes agree *)
(* with the symbols: nothing the graph holds is out of reach of a query and *)
(* no index leads to something it does not hold.                            *)
Coherent ==
  /\ NodeIndexExact(graph)
  /\ EdgesInArena(graph)
  /\ IndexesSound(graph)
  /\ IndexesComplete(graph)
  /\ Range(graph.nodes) = graph.symbols

(* Whatever the order of the files, the built graph holds exactly what they *)
(* declare: no forward reference is lost, a target that is neither a symbol *)
(* nor a package leaves no edge, and saving and loading changes nothing.    *)
BuiltGraphIsDeclared ==
  phase \in {"built", "loaded"} =>
    /\ graph.symbols = DeclaredSymbols \union UsedPackages
    /\ EdgeView(graph) = DeclaredEdges
    /\ Len(graph.edges) = Cardinality(EdgeSites)
    /\ graph.reexports = Files
    /\ \A id \in DOMAIN graph.aliasChains : graph.aliasChains[id] = DeclaredAliases(id)
    /\ \A id \in Ids : DeclaredAliases(id) # {} => id \in DOMAIN graph.aliasChains

(* What the questions for a name must come to that these ids bear: by name  *)
(* and file the first that the file declares; by name alone the one bearer, *)
(* or else the file of every bearer.                                        *)
ExactAnswers(g, name, bearers) ==
  LET alone == FindSymbolId(g, name, NONE)
  IN  /\ \A f \in Files :
           LET own == {id \in bearers : FileOf(id) = f}
               asked == FindSymbolId(g, name, f)
           IN  IF own = {} THEN asked.answer = "not found"
               ELSE /\ asked.answer = "found"
                    /\ asked.id \in own /\ \A id \in own : asked.id[2] <= id[2]
      /\ bearers = {} => alone = [answer |-> "not found"]
      /\ Cardinality(bearers) = 1 =>
           alone = [answer |-> "found", id |-> CHOOSE id \in bearers : TRUE]
      /\ bearers # {} /\ Cardinality(bearers) # 1 =>
           alone = [answer |-> "ambiguous", candidates |-> {FileOf(id) : id \in bearers}]

(* A question by name alone is answered only when the whole repository has  *)
(* one symbol or package of that name, and otherwise names the file of each *)
(* one; a question by name and file gets the first that the file declares,  *)
(* whatever the order in which the graph was filled or read back.           *)
LookupIsExact ==
  phase \in {"built", "loaded"} =>
    \A n \in Names :
      ExactAnswers(graph, n, {id \in DeclaredSymbols \union UsedPackages : NameOf(id) = n})
=============================================================================
