---------------------------- MODULE GraphProofs ----------------------------
(***************************************************************************)
(* The built graph, for any files, symbols and relationships: coherent at  *)
(* every step, exactly what the files declare once it is built, the same   *)
(* after it was saved and loaded, and answering by name as it should.      *)
(*                                                                         *)
(* A loop of the code is a fold of the model. The library defines a fold   *)
(* as the value, at all positions, of a function that is chosen by its     *)
(* recursion equation; LoopStages turns it into the graphs the loop goes   *)
(* through, turn by turn, and what one turn keeps or adds is then carried  *)
(* along them (FiniteOrders has the recursions and UpTo). One turn is      *)
(* AddSymbolKeeps, AddRelationshipKeeps or IngestKeeps; a file, a list of  *)
(* turns; BuildInv, how far the files have come in each phase. The second  *)
(* half follows the graph through replacements of files.                   *)
(***************************************************************************)
EXTENDS GraphLife, FiniteOrders, SequenceTheorems, TLAPS

(* The loops of the model: one turn of each, and the whole of it.           *)
Loops == {"symbols", "relationships", "aliases", "edges", "removals", "declare", "link"}

Turn(loop, g, x) ==
  CASE loop = "symbols" -> AddSymbol(g, x)
    [] loop = "relationships" -> AddRelationship(g, x)
    [] loop = "aliases" -> IngestRelationship(g, x)
    [] loop = "edges" -> RemoveEdge(g, x)
    [] loop = "removals" -> RemoveSymbol(g, x)
    [] loop = "declare" -> AddFileSymbols(g, x[2])
    [] loop = "link" -> AddFileRelationships(g, x[1], x[2])

Loop(loop, g, s) ==
  CASE loop = "symbols" -> FoldLeft(AddSymbol, g, s)
    [] loop = "relationships" -> FoldLeft(AddRelationship, g, s)
    [] loop = "aliases" -> FoldLeft(IngestRelationship, g, s)
    [] loop = "edges" -> FoldLeft(RemoveEdge, g, s)
    [] loop = "removals" -> FoldLeft(RemoveSymbol, g, s)
    [] loop = "declare" -> FoldLeft(LAMBDA h, x : AddFileSymbols(h, x[2]), g, s)
    [] loop = "link" -> FoldLeft(LAMBDA h, x : AddFileRelationships(h, x[1], x[2]), g, s)

(* The equation of a loop, the last turn first, as the library has it.      *)
Unrolled(f, loop, g, s) ==
  f = [a \in SUBSET DOMAIN s |->
         IF a = {} THEN g ELSE Turn(loop, f[a \ {Max(a)}], s[Max(a)])]

(* A fold is the value at all positions of a function that solves its       *)
(* equation, if any function does.                                          *)
LEMMA LoopIsUnrolled ==
  ASSUME NEW loop \in Loops, NEW g, NEW s, \E f : Unrolled(f, loop, g, s)
  PROVE  \E f : Unrolled(f, loop, g, s) /\ f[DOMAIN s] = Loop(loop, g, s)
<1>1. CASE loop = "symbols"
  <2> DEFINE Solves(f) == f = [a \in SUBSET DOMAIN s |->
                                 IF a = {} THEN g ELSE AddSymbol(f[a \ {Max(a)}], s[Max(a)])]
  <2>1. \A f : Unrolled(f, loop, g, s) <=> Solves(f)
    BY <1>1 DEF Unrolled, Turn
  <2>2. FoldLeft(AddSymbol, g, s) = (CHOOSE f : Solves(f))[DOMAIN s]
    BY DEF FoldLeft, MapThenFoldSet
  <2>3. Loop(loop, g, s) = FoldLeft(AddSymbol, g, s)
    BY <1>1 DEF Loop
  <2> HIDE DEF Solves
  <2> QED
    BY <2>1, <2>2, <2>3
<1>2. CASE loop = "relationships"
  <2> DEFINE Solves(f) == f = [a \in SUBSET DOMAIN s |->
                                 IF a = {} THEN g ELSE AddRelationship(f[a \ {Max(a)}], s[Max(a)])]
  <2>1. \A f : Unrolled(f, loop, g, s) <=> Solves(f)
    BY <1>2 DEF Unrolled, Turn
  <2>2. FoldLeft(AddRelationship, g, s) = (CHOOSE f : Solves(f))[DOMAIN s]
    BY DEF FoldLeft, MapThenFoldSet
  <2>3. Loop(loop, g, s) = FoldLeft(AddRelationship, g, s)
    BY <1>2 DEF Loop
  <2> HIDE DEF Solves
  <2> QED
    BY <2>1, <2>2, <2>3
<1>3. CASE loop = "aliases"
  <2> DEFINE Solves(f) == f = [a \in SUBSET DOMAIN s |->
                                 IF a = {} THEN g ELSE IngestRelationship(f[a \ {Max(a)}], s[Max(a)])]
  <2>1. \A f : Unrolled(f, loop, g, s) <=> Solves(f)
    BY <1>3 DEF Unrolled, Turn
  <2>2. FoldLeft(IngestRelationship, g, s) = (CHOOSE f : Solves(f))[DOMAIN s]
    BY DEF FoldLeft, MapThenFoldSet
  <2>3. Loop(loop, g, s) = FoldLeft(IngestRelationship, g, s)
    BY <1>3 DEF Loop
  <2> HIDE DEF Solves
  <2> QED
    BY <2>1, <2>2, <2>3
<1>4. CASE loop = "edges"
  <2> DEFINE Solves(f) == f = [a \in SUBSET DOMAIN s |->
                                 IF a = {} THEN g ELSE RemoveEdge(f[a \ {Max(a)}], s[Max(a)])]
  <2>1. \A f : Unrolled(f, loop, g, s) <=> Solves(f)
    BY <1>4 DEF Unrolled, Turn
  <2>2. FoldLeft(RemoveEdge, g, s) = (CHOOSE f : Solves(f))[DOMAIN s]
    BY DEF FoldLeft, MapThenFoldSet
  <2>3. Loop(loop, g, s) = FoldLeft(RemoveEdge, g, s)
    BY <1>4 DEF Loop
  <2> HIDE DEF Solves
  <2> QED
    BY <2>1, <2>2, <2>3
<1>5. CASE loop = "removals"
  <2> DEFINE Solves(f) == f = [a \in SUBSET DOMAIN s |->
                                 IF a = {} THEN g ELSE RemoveSymbol(f[a \ {Max(a)}], s[Max(a)])]
  <2>1. \A f : Unrolled(f, loop, g, s) <=> Solves(f)
    BY <1>5 DEF Unrolled, Turn
  <2>2. FoldLeft(RemoveSymbol, g, s) = (CHOOSE f : Solves(f))[DOMAIN s]
    BY DEF FoldLeft, MapThenFoldSet
  <2>3. Loop(loop, g, s) = FoldLeft(RemoveSymbol, g, s)
    BY <1>5 DEF Loop
  <2> HIDE DEF Solves
  <2> QED
    BY <2>1, <2>2, <2>3
<1>6. CASE loop = "declare"
  <2> DEFINE Solves(f) == f = [a \in SUBSET DOMAIN s |->
                                 IF a = {} THEN g ELSE AddFileSymbols(f[a \ {Max(a)}], s[Max(a)][2])]
  <2>1. \A f : Unrolled(f, loop, g, s) <=> Solves(f)
    BY <1>6 DEF Unrolled, Turn
  <2>2. FoldLeft(LAMBDA h, x : AddFileSymbols(h, x[2]), g, s) = (CHOOSE f : Solves(f))[DOMAIN s]
    BY DEF FoldLeft, MapThenFoldSet
  <2>3. Loop(loop, g, s) = FoldLeft(LAMBDA h, x : AddFileSymbols(h, x[2]), g, s)
    BY <1>6 DEF Loop
  <2> HIDE DEF Solves
  <2> QED
    BY <2>1, <2>2, <2>3
<1>7. CASE loop = "link"
  <2> DEFINE Solves(f) == f = [a \in SUBSET DOMAIN s |->
                                 IF a = {} THEN g ELSE AddFileRelationships(f[a \ {Max(a)}], s[Max(a)][1], s[Max(a)][2])]
  <2>1. \A f : Unrolled(f, loop, g, s) <=> Solves(f)
    BY <1>7 DEF Unrolled, Turn
  <2>2. FoldLeft(LAMBDA h, x : AddFileRelationships(h, x[1], x[2]), g, s) = (CHOOSE f : Solves(f))[DOMAIN s]
    BY DEF FoldLeft, MapThenFoldSet
  <2>3. Loop(loop, g, s) = FoldLeft(LAMBDA h, x : AddFileRelationships(h, x[1], x[2]), g, s)
    BY <1>7 DEF Loop
  <2> HIDE DEF Solves
  <2> QED
    BY <2>1, <2>2, <2>3
<1> QED
  BY <1>1, <1>2, <1>3, <1>4, <1>5, <1>6, <1>7 DEF Loops

(* The graphs a loop goes through, turn by turn; what each turn keeps in a  *)
(* set stays in it all along.                                               *)
Stages(h, loop, g, s, T) ==
  /\ h[0] = g
  /\ h[Len(s)] = Loop(loop, g, s)
  /\ \A i \in 0 .. Len(s) : h[i] \in T
  /\ \A i \in 1 .. Len(s) : h[i] = Turn(loop, h[i - 1], s[i])

(* A loop whose turns keep a set goes through graphs of that set.          *)
LEMMA LoopStages ==
  ASSUME NEW loop \in Loops, NEW T, NEW g \in T, NEW X, NEW s \in Seq(X),
         \A i \in DOMAIN s, t \in T : Turn(loop, t, s[i]) \in T
  PROVE  \E h : Stages(h, loop, g, s, T)
<1> DEFINE n == Len(s)
           step(W) == [p \in (1 .. n) \X W |-> Turn(loop, p[2], s[p[1]])]
           Solves(f) == Unrolled(f, loop, g, s)
<1>1. n \in Nat /\ DOMAIN s = 1 .. n
  OBVIOUS
<1>2. ASSUME NEW W, NEW i \in 1 .. n, NEW t \in W
      PROVE  step(W)[<<i, t>>] = Turn(loop, t, s[i])
  BY <1>1
<1>3. ASSUME NEW W, NEW f, \A a \in SUBSET (1 .. n) : f[a] \in W
      PROVE  Solves(f) <=> Recursion(f, 1 .. n, g, LatestOf(n), step(W))
  <2>1. ASSUME NEW a \in SUBSET (1 .. n), a # {}
        PROVE  step(W)[<<LatestOf(n)[a], f[a \ {LatestOf(n)[a]}]>>]
                 = Turn(loop, f[a \ {Max(a)}], s[Max(a)])
    <3>1. Max(a) \in 1 .. n /\ f[a \ {Max(a)}] \in W
      BY <1>1, <1>3, <2>1, MaxIsGreatest
    <3> QED
      BY <1>2, <3>1 DEF LatestOf
  <2> HIDE DEF step
  <2>2. Recursion(f, 1 .. n, g, LatestOf(n), step(W)) => Solves(f)
    BY <1>1, <2>1 DEF Recursion, Unrolled
  <2>3. Solves(f) => Recursion(f, 1 .. n, g, LatestOf(n), step(W))
    BY <1>1, <2>1 DEF Recursion, Unrolled
  <2> QED
    BY <2>2, <2>3
<1> HIDE DEF step
<1>4. Closed(step(T), 1 .. n, T)
  <2> SUFFICES ASSUME NEW i \in 1 .. n, NEW t \in T PROVE step(T)[<<i, t>>] \in T
    BY DEF Closed
  <2>1. Turn(loop, t, s[i]) \in T
    BY <1>1
  <2> QED
    BY <1>2, <2>1
<1>5. \E f : Solves(f)
  <2>1. PICK f : Recursion(f, 1 .. n, g, LatestOf(n), step(T)) /\ \A a \in SUBSET (1 .. n) : f[a] \in T
    <3> HIDE DEF n
    <3>1. IsFiniteSet(1 .. n)
      BY <1>1, FS_Interval
    <3> QED
      BY <1>1, <1>4, <3>1, LatestOfChooses, RecursionExists
  <2> HIDE DEF Solves
  <2> QED
    BY <1>3, <2>1
<1>6. PICK f : Solves(f) /\ f[1 .. n] = Loop(loop, g, s)
  BY <1>1, <1>5, LoopIsUnrolled
<1> DEFINE W == T \union {f[a] : a \in SUBSET (1 .. n)}
<1>7. Recursion(f, 1 .. n, g, LatestOf(n), step(W))
  <2>1. \A a \in SUBSET (1 .. n) : f[a] \in W
    OBVIOUS
  <2> HIDE DEF W, Solves
  <2> QED
    BY <1>3, <1>6, <2>1
<1>8. Closed(step(W), 1 .. n, T)
  <2> SUFFICES ASSUME NEW i \in 1 .. n, NEW t \in T PROVE step(W)[<<i, t>>] \in T
    BY DEF Closed
  <2>1. Turn(loop, t, s[i]) \in T /\ t \in W
    BY <1>1
  <2> QED
    BY <1>2, <2>1
<1>9. PICK h : /\ h[0] = g /\ h[n] = f[1 .. n]
               /\ \A i \in 0 .. n : h[i] \in T
               /\ \A i \in 1 .. n : h[i] = step(W)[<<i, h[i - 1]>>]
  <2> HIDE DEF n, W, Solves
  <2> QED
    BY <1>1, <1>7, <1>8, RecursionAlong
<1>10. ASSUME NEW i \in 1 .. n PROVE h[i] = Turn(loop, h[i - 1], s[i])
  <2>1. i - 1 \in 0 .. n
    BY <1>1
  <2>2. h[i - 1] \in W
    BY <1>9, <2>1
  <2> HIDE DEF W
  <2>3. step(W)[<<i, h[i - 1]>>] = Turn(loop, h[i - 1], s[i])
    BY <1>2, <2>2
  <2> QED
    BY <1>9, <2>3
<1> HIDE DEF W, Solves
<1> QED
  BY <1>6, <1>9, <1>10 DEF Stages

-----------------------------------------------------------------------------
(* What a graph is, as far as a proof must know: records, sequences of      *)
(* nodes and edges, and maps of which only the present keys count.          *)
Maps(K, V) == UNION {[D -> V] : D \in SUBSET K}
Nodes == Declared \union External
NameKeys == Names
FileKeys == Files \union {NoFile}
Edges == [from : Nat, to : Nat, kind : Kinds, alias : Aliases, file : Files, age : Nat]
ChainEntries == [alias : Aliases, file : Files]
Graphs == [nodes : Seq(Nodes), edges : Seq(Edges), nodeIndex : Maps(Nodes, Nat),
           nameIndex : Maps(NameKeys, SUBSET Nodes),
           fileIndex : Maps(FileKeys, SUBSET Nodes),
           symbols : SUBSET Nodes, aliasChains : Maps(Ids, SUBSET ChainEntries),
           reexports : SUBSET Files]

(* No entry of the name index is empty, while nothing is removed.           *)
NamesInUse(g) == \A n \in DOMAIN g.nameIndex : g.nameIndex[n] # {}

CoherentGraph(g) ==
  /\ NodeIndexExact(g)
  /\ EdgesInArena(g)
  /\ IndexesSound(g)
  /\ IndexesComplete(g)
  /\ Range(g.nodes) = g.symbols
  /\ NamesInUse(g)

Whole == {g \in Graphs : CoherentGraph(g)}

(* A map with one key more, or another value at one.                        *)
IsPut(h, m, k, v) ==
  /\ DOMAIN h = DOMAIN m \union {k}
  /\ h[k] = v
  /\ \A x \in DOMAIN m \ {k} : h[x] = m[x]

(* Putting an entry keeps a map of its kind.                               *)
LEMMA PutMaps ==
  ASSUME NEW K, NEW V, NEW m \in Maps(K, V), NEW k \in K, NEW v \in V
  PROVE  Put(m, k, v) \in Maps(K, V) /\ IsPut(Put(m, k, v), m, k, v)
<1>1. PICK D0 \in SUBSET K : m \in [D0 -> V]
  BY DEF Maps
<1>2. Put(m, k, v) \in [D0 \union {k} -> V]
  BY <1>1 DEF Put
<1>3. D0 \union {k} \in SUBSET K
  OBVIOUS
<1> QED
  BY <1>1, <1>2, <1>3 DEF Put, Maps, IsPut

(* An empty map.                                                            *)
LEMMA EmptyMaps ==
  ASSUME NEW K, NEW V
  PROVE  << >> \in Maps(K, V) /\ DOMAIN << >> = {}
<1>1. DOMAIN << >> = {}
  OBVIOUS
<1>2. << >> \in [{} -> V]
  BY <1>1
<1> QED
  BY <1>1, <1>2 DEF Maps

(* A graph without anything is coherent.                                    *)
LEMMA EmptyIsWhole == EmptyGraph \in Whole
<1>1. EmptyGraph \in Graphs
  <2>1. << >> \in Seq(Nodes) /\ << >> \in Seq(Edges)
    OBVIOUS
  <2> QED
    BY <2>1, EmptyMaps DEF EmptyGraph, Graphs
<1>2. CoherentGraph(EmptyGraph)
  <2>1. DOMAIN << >> = {}
    OBVIOUS
  <2> QED
    BY <2>1 DEF CoherentGraph, EmptyGraph, NodeIndexExact, EdgesInArena, IndexesSound,
                IndexesComplete, NamesInUse, Range
<1> QED
  BY <1>1, <1>2 DEF Whole

(* A graph is a record of these parts.                                      *)
Fields == {"nodes", "edges", "nodeIndex", "nameIndex", "fileIndex", "symbols",
           "aliasChains", "reexports"}
IsRecord(g) == g = [x \in Fields |-> g[x]]

Typed(g) ==
  /\ g.nodes \in Seq(Nodes)
  /\ g.edges \in Seq(Edges)
  /\ g.nodeIndex \in Maps(Nodes, Nat)
  /\ g.nameIndex \in Maps(NameKeys, SUBSET Nodes)
  /\ g.fileIndex \in Maps(FileKeys, SUBSET Nodes)
  /\ g.symbols \in SUBSET Nodes
  /\ g.aliasChains \in Maps(Ids, SUBSET ChainEntries)
  /\ g.reexports \in SUBSET Files

(* A graph has its parts, each of its kind.                                *)
LEMMA GraphParts ==
  ASSUME NEW g \in Graphs
  PROVE  IsRecord(g) /\ Typed(g)
BY DEF Graphs, IsRecord, Fields, Typed

(* And whatever has these parts is a graph.                                *)
LEMMA GraphOfParts ==
  ASSUME NEW g, IsRecord(g), Typed(g)
  PROVE  g \in Graphs
BY DEF Graphs, IsRecord, Fields, Typed

(* An entry with one member more.                                           *)
Joined(m, k, v) == Lookup(m, k, {}) \union {v}

(* Inserting joins a member to one entry and leaves the others.            *)
LEMMA InsertMaps ==
  ASSUME NEW K, NEW V, NEW m \in Maps(K, SUBSET V), NEW k \in K, NEW v \in V
  PROVE  /\ Insert(m, k, v) \in Maps(K, SUBSET V)
         /\ IsPut(Insert(m, k, v), m, k, Joined(m, k, v))
<1> DEFINE all == Joined(m, k, v)
           W == SUBSET V
<1>1. all \in W
  BY DEF Joined, Lookup, Maps
<1>2. m \in Maps(K, W)
  OBVIOUS
<1> HIDE DEF all, W
<1>3. Put(m, k, all) \in Maps(K, W) /\ IsPut(Put(m, k, all), m, k, all)
  BY <1>1, <1>2, PutMaps
<1> QED
  BY <1>3 DEF Insert, Joined, all, W

(* The file and the name of a node are keys of the indexes.                 *)
LEMMA NodeKeys ==
  ASSUME NEW id \in Nodes
  PROVE  FileOf(id) \in FileKeys /\ NameOf(id) \in NameKeys
BY IdsAssumption DEF Nodes, Declared, FileOf, NameOf, NameKeys, Names, FileKeys

(* What enrolling a symbol makes of a graph.                                *)
LEMMA EnrolledGraph ==
  ASSUME NEW g \in Graphs, NEW id \in Nodes, NEW n \in Nat
  PROVE  LET h == EnrolAt(g, id, n)
         IN  /\ h \in Graphs
             /\ h.nodes = Append(g.nodes, id) /\ h.edges = g.edges
             /\ h.symbols = g.symbols \union {id}
             /\ IsPut(h.nodeIndex, g.nodeIndex, id, n)
             /\ IsPut(h.nameIndex, g.nameIndex, NameOf(id),
                      Joined(g.nameIndex, NameOf(id), id))
             /\ IsPut(h.fileIndex, g.fileIndex, FileOf(id),
                      Joined(g.fileIndex, FileOf(id), id))
             /\ h.aliasChains = g.aliasChains /\ h.reexports = g.reexports
<1> DEFINE h == EnrolAt(g, id, n)
<1>1. IsRecord(g) /\ Typed(g)
  BY GraphParts
<1>2. IsRecord(h)
  BY <1>1 DEF IsRecord, Fields, EnrolAt, AddNode
<1>3. /\ h.nodes = Append(g.nodes, id) /\ h.edges = g.edges
      /\ h.symbols = g.symbols \union {id}
      /\ h.nodeIndex = Put(g.nodeIndex, id, n)
      /\ h.nameIndex = Insert(g.nameIndex, NameOf(id), id)
      /\ h.fileIndex = Insert(g.fileIndex, FileOf(id), id)
      /\ h.aliasChains = g.aliasChains /\ h.reexports = g.reexports
  BY <1>1 DEF IsRecord, Fields, EnrolAt, AddNode
<1> HIDE DEF h
<1>4. h.nodes \in Seq(Nodes) /\ h.symbols \in SUBSET Nodes
  BY <1>1, <1>3 DEF Typed
<1>5. h.nodeIndex \in Maps(Nodes, Nat) /\ IsPut(h.nodeIndex, g.nodeIndex, id, n)
  BY <1>1, <1>3, PutMaps DEF Typed
<1>6. /\ h.nameIndex \in Maps(NameKeys, SUBSET Nodes)
      /\ IsPut(h.nameIndex, g.nameIndex, NameOf(id),
               Joined(g.nameIndex, NameOf(id), id))
  <2>1. NameOf(id) \in NameKeys
    BY NodeKeys
  <2>2. g.nameIndex \in Maps(NameKeys, SUBSET Nodes)
    BY <1>1 DEF Typed
  <2>3. /\ Insert(g.nameIndex, NameOf(id), id) \in Maps(NameKeys, SUBSET Nodes)
        /\ IsPut(Insert(g.nameIndex, NameOf(id), id), g.nameIndex, NameOf(id), Joined(g.nameIndex, NameOf(id), id))
    BY <2>1, <2>2, InsertMaps
  <2> QED
    BY <1>3, <2>3
<1>7. /\ h.fileIndex \in Maps(FileKeys, SUBSET Nodes)
      /\ IsPut(h.fileIndex, g.fileIndex, FileOf(id),
               Joined(g.fileIndex, FileOf(id), id))
  <2>1. FileOf(id) \in FileKeys
    BY NodeKeys
  <2>2. g.fileIndex \in Maps(FileKeys, SUBSET Nodes)
    BY <1>1 DEF Typed
  <2>3. /\ Insert(g.fileIndex, FileOf(id), id) \in Maps(FileKeys, SUBSET Nodes)
        /\ IsPut(Insert(g.fileIndex, FileOf(id), id), g.fileIndex, FileOf(id), Joined(g.fileIndex, FileOf(id), id))
    BY <2>1, <2>2, InsertMaps
  <2> QED
    BY <1>3, <2>3
<1>8. h \in Graphs
  BY <1>1, <1>2, <1>3, <1>4, <1>5, <1>6, <1>7, GraphOfParts DEF Typed
<1> QED
  BY <1>3, <1>5, <1>6, <1>7, <1>8 DEF h

(* What is left of coherence when the removals of an update are done: every *)
(* position leads to its own node, no edge hangs in the air, the indexes    *)
(* name only symbols, and each symbol has a node.                           *)
SoundGraph(g) ==
  /\ NodeIndexExact(g)
  /\ EdgesInArena(g)
  /\ IndexesSound(g)
  /\ g.symbols \subseteq Range(g.nodes)

Sound == {g \in Graphs : SoundGraph(g)}

(* A coherent graph is sound.                                               *)
LEMMA WholeIsSound == Whole \subseteq Sound
BY DEF Whole, Sound, CoherentGraph, SoundGraph

(* A graph with all the nodes of another, where they were.                  *)
Extends(h, g) ==
  /\ Len(g.nodes) <= Len(h.nodes)
  /\ \A i \in DOMAIN g.nodes : h.nodes[i] = g.nodes[i]

(* Enrolled: the indexes have one member more, if the node is new.          *)
Filed(h, g, id) ==
  IF id \in Range(g.nodes)
    THEN h.nodes = g.nodes /\ h.nameIndex = g.nameIndex /\ h.fileIndex = g.fileIndex
    ELSE /\ IsPut(h.nameIndex, g.nameIndex, NameOf(id), Joined(g.nameIndex, NameOf(id), id))
         /\ IsPut(h.fileIndex, g.fileIndex, FileOf(id), Joined(g.fileIndex, FileOf(id), id))

(* add_symbol keeps a graph sound and moves no edge.                       *)
LEMMA AddSymbolSound ==
  ASSUME NEW g \in Sound, NEW id \in Nodes
  PROVE  LET h == AddSymbol(g, id)
         IN  /\ h \in Sound
             /\ h.symbols = g.symbols \union {id}
             /\ Range(h.nodes) = Range(g.nodes) \union {id}
             /\ Filed(h, g, id)
             /\ h.edges = g.edges
             /\ h.aliasChains = g.aliasChains
             /\ h.reexports = g.reexports
             /\ Extends(h, g)
<1> DEFINE n == Len(g.nodes) + 1
           h == EnrolAt(g, id, n)
<1>1. g \in Graphs /\ SoundGraph(g) /\ IsRecord(g) /\ Typed(g)
  BY GraphParts DEF Sound
<1>2. g.nodes \in Seq(Nodes) /\ n \in Nat /\ DOMAIN g.nodes = 1 .. Len(g.nodes)
  BY <1>1 DEF Graphs
<1>3. CASE id \in DOMAIN g.nodeIndex
  <2> DEFINE k == ReplaceSymbol(g, id)
  <2>1. AddSymbol(g, id) = k
    BY <1>3 DEF AddSymbol
  <2>2. IsRecord(k)
    BY <1>1 DEF IsRecord, Fields, ReplaceSymbol
  <2>3. /\ k.nodes = g.nodes /\ k.edges = g.edges /\ k.nodeIndex = g.nodeIndex
        /\ k.nameIndex = g.nameIndex /\ k.fileIndex = g.fileIndex
        /\ k.symbols = g.symbols \union {id}
        /\ k.aliasChains = g.aliasChains /\ k.reexports = g.reexports
    BY <1>1 DEF IsRecord, Fields, ReplaceSymbol
  <2>4. id \in Range(g.nodes)
    BY <1>1, <1>3 DEF SoundGraph, NodeIndexExact
  <2> HIDE DEF k
  <2>5. k \in Graphs
    BY <1>1, <2>2, <2>3, GraphOfParts DEF Typed
  <2>6. SoundGraph(k)
    <3>1. NodeIndexExact(k) /\ EdgesInArena(k) /\ k.symbols \subseteq Range(k.nodes)
      BY <1>1, <2>3, <2>4 DEF SoundGraph, NodeIndexExact, EdgesInArena
    <3>2. IndexesSound(k)
      BY <1>1, <2>3 DEF SoundGraph, IndexesSound
    <3> QED
      BY <3>1, <3>2 DEF SoundGraph
  <2> QED
    BY <1>2, <2>1, <2>3, <2>4, <2>5, <2>6 DEF Sound, Extends, Filed
<1>4. CASE id \notin DOMAIN g.nodeIndex
  <2>1. AddSymbol(g, id) = h
    BY <1>4 DEF AddSymbol
  <2>2. h \in Graphs
    BY <1>1, <1>2, EnrolledGraph
  <2>3. /\ h.nodes = Append(g.nodes, id) /\ h.edges = g.edges
        /\ h.symbols = g.symbols \union {id}
        /\ IsPut(h.nodeIndex, g.nodeIndex, id, n)
        /\ IsPut(h.nameIndex, g.nameIndex, NameOf(id),
                 Joined(g.nameIndex, NameOf(id), id))
        /\ IsPut(h.fileIndex, g.fileIndex, FileOf(id),
                 Joined(g.fileIndex, FileOf(id), id))
        /\ h.aliasChains = g.aliasChains /\ h.reexports = g.reexports
    BY <1>1, <1>2, EnrolledGraph
  <2> HIDE DEF h
  <2>4. /\ Len(h.nodes) = n /\ h.nodes[n] = id
        /\ \A i \in DOMAIN g.nodes : h.nodes[i] = g.nodes[i]
        /\ DOMAIN h.nodes = 1 .. n
    BY <1>2, <2>3
  <2>5. id \notin Range(g.nodes)
    BY <1>1, <1>4 DEF SoundGraph, NodeIndexExact
  <2>6. Range(h.nodes) = Range(g.nodes) \union {id}
    BY <1>2, <2>3, <2>4 DEF Range
  <2>7. NodeIndexExact(h)
    <3>1. /\ DOMAIN h.nodeIndex = DOMAIN g.nodeIndex \union {id}
          /\ h.nodeIndex[id] = n
          /\ \A x \in DOMAIN g.nodeIndex \ {id} : h.nodeIndex[x] = g.nodeIndex[x]
      BY <2>3 DEF IsPut
    <3>2. DOMAIN h.nodeIndex = Range(h.nodes)
      BY <1>1, <2>6, <3>1 DEF SoundGraph, NodeIndexExact
    <3>3. ASSUME NEW i \in DOMAIN h.nodes PROVE h.nodeIndex[h.nodes[i]] = i
      <4>1. CASE i = n
        BY <2>4, <3>1, <4>1
      <4>2. CASE i \in DOMAIN g.nodes
        <5>1. h.nodes[i] = g.nodes[i] /\ g.nodes[i] \in Range(g.nodes)
          BY <2>4, <4>2 DEF Range
        <5>2. g.nodes[i] \in DOMAIN g.nodeIndex /\ g.nodeIndex[g.nodes[i]] = i
          BY <1>1, <4>2, <5>1 DEF SoundGraph, NodeIndexExact
        <5> QED
          BY <1>4, <3>1, <5>1, <5>2
      <4> QED
        BY <1>2, <2>4, <4>1, <4>2
    <3> QED
      BY <3>2, <3>3 DEF NodeIndexExact
  <2>8. EdgesInArena(h)
    BY <1>1, <1>2, <2>3, <2>4 DEF SoundGraph, EdgesInArena
  <2>9. IndexesSound(h)
    <3>1. /\ DOMAIN h.nameIndex = DOMAIN g.nameIndex \union {NameOf(id)}
          /\ h.nameIndex[NameOf(id)] = Joined(g.nameIndex, NameOf(id), id)
          /\ \A x \in DOMAIN g.nameIndex \ {NameOf(id)} : h.nameIndex[x] = g.nameIndex[x]
      BY <2>3 DEF IsPut
    <3>2. /\ DOMAIN h.fileIndex = DOMAIN g.fileIndex \union {FileOf(id)}
          /\ h.fileIndex[FileOf(id)] = Joined(g.fileIndex, FileOf(id), id)
          /\ \A x \in DOMAIN g.fileIndex \ {FileOf(id)} : h.fileIndex[x] = g.fileIndex[x]
      BY <2>3 DEF IsPut
    <3>3. IndexesSound(g)
      BY <1>1 DEF SoundGraph
    <3> QED
      BY <2>3, <3>1, <3>2, <3>3 DEF IndexesSound, Joined, Lookup
  <2>10. h \in Sound
    BY <1>1, <2>2, <2>3, <2>6, <2>7, <2>8, <2>9 DEF Sound, SoundGraph
  <2> QED
    BY <1>2, <2>1, <2>3, <2>4, <2>5, <2>6, <2>10 DEF Extends, Filed
<1> QED
  BY <1>3, <1>4

(* add_symbol keeps a graph coherent.                                      *)
LEMMA AddSymbolKeeps ==
  ASSUME NEW g \in Whole, NEW id \in Nodes
  PROVE  LET h == AddSymbol(g, id)
         IN  /\ h \in Whole
             /\ h.symbols = g.symbols \union {id}
             /\ h.edges = g.edges
             /\ h.aliasChains = g.aliasChains
             /\ h.reexports = g.reexports
             /\ Extends(h, g)
<1> DEFINE h == AddSymbol(g, id)
<1>1. g \in Graphs /\ CoherentGraph(g) /\ g \in Sound
  BY WholeIsSound DEF Whole
<1>2. /\ h \in Sound
      /\ h.symbols = g.symbols \union {id}
      /\ Range(h.nodes) = Range(g.nodes) \union {id}
      /\ Filed(h, g, id)
      /\ h.edges = g.edges
      /\ h.aliasChains = g.aliasChains
      /\ h.reexports = g.reexports
      /\ Extends(h, g)
  BY <1>1, AddSymbolSound
<1> HIDE DEF h
<1>3. h \in Graphs /\ SoundGraph(h)
  BY <1>2 DEF Sound
<1>4. Range(h.nodes) = h.symbols
  BY <1>1, <1>2 DEF CoherentGraph
<1>5. IndexesComplete(g) /\ NamesInUse(g) /\ Range(g.nodes) = g.symbols
  BY <1>1 DEF CoherentGraph
<1>6. CASE id \in Range(g.nodes)
  <2>1. h.symbols = g.symbols /\ h.nameIndex = g.nameIndex /\ h.fileIndex = g.fileIndex
    BY <1>2, <1>5, <1>6 DEF Filed
  <2>2. CoherentGraph(h)
    BY <1>3, <1>4, <1>5, <2>1
    DEF CoherentGraph, SoundGraph, IndexesComplete, NamesInUse
  <2> QED
    BY <1>2, <1>3, <2>2 DEF Whole, h
<1>7. CASE id \notin Range(g.nodes)
  <2>1. /\ DOMAIN h.nameIndex = DOMAIN g.nameIndex \union {NameOf(id)}
        /\ h.nameIndex[NameOf(id)] = Joined(g.nameIndex, NameOf(id), id)
        /\ \A x \in DOMAIN g.nameIndex \ {NameOf(id)} : h.nameIndex[x] = g.nameIndex[x]
    BY <1>2, <1>7 DEF Filed, IsPut
  <2>2. /\ DOMAIN h.fileIndex = DOMAIN g.fileIndex \union {FileOf(id)}
        /\ h.fileIndex[FileOf(id)] = Joined(g.fileIndex, FileOf(id), id)
        /\ \A x \in DOMAIN g.fileIndex \ {FileOf(id)} : h.fileIndex[x] = g.fileIndex[x]
    BY <1>2, <1>7 DEF Filed, IsPut
  <2>3. IndexesComplete(h)
    BY <1>2, <1>5, <2>1, <2>2 DEF IndexesComplete, Joined, Lookup
  <2>4. NamesInUse(h)
    BY <1>5, <2>1 DEF NamesInUse, Joined
  <2>5. CoherentGraph(h)
    BY <1>3, <1>4, <2>3, <2>4 DEF CoherentGraph, SoundGraph
  <2> QED
    BY <1>2, <1>3, <2>5 DEF Whole, h
<1> QED
  BY <1>6, <1>7

(* An edge, told by its ends.                                               *)
View(g, e) == [from |-> g.nodes[e.from], to |-> g.nodes[e.to],
               kind |-> e.kind, alias |-> e.alias, file |-> e.file]

(* The edges of a graph are the views of its elements.                     *)
LEMMA ViewOfEdges ==
  ASSUME NEW g
  PROVE  EdgeView(g) = {View(g, e) : e \in Range(g.edges)}
BY DEF EdgeView, View

(* Nodes behind the present ones change no edge.                            *)
LEMMA ViewExtends ==
  ASSUME NEW g \in Sound, NEW h, h.edges = g.edges, Extends(h, g)
  PROVE  EdgeView(h) = EdgeView(g)
<1>1. \A e \in Range(g.edges) : View(h, e) = View(g, e)
  BY DEF Sound, SoundGraph, EdgesInArena, Extends, View
<1> QED
  BY <1>1, ViewOfEdges

(* The edge a relationship becomes, between two nodes of the arena.         *)
Link(g, r) == AddEdge(g, [from |-> g.nodeIndex[r.from], to |-> g.nodeIndex[r.to],
                          kind |-> r.kind, alias |-> r.alias, file |-> r.file])

(* Graphs that differ in their edges only.                                  *)
SameButEdges(h, g) ==
  /\ h.nodes = g.nodes /\ h.nodeIndex = g.nodeIndex /\ h.nameIndex = g.nameIndex
  /\ h.fileIndex = g.fileIndex /\ h.symbols = g.symbols
  /\ h.aliasChains = g.aliasChains /\ h.reexports = g.reexports

(* An edge is added between two nodes of the arena.                         *)
LEMMA LinkSound ==
  ASSUME NEW g \in Sound, NEW r \in Relationships(Files),
         r.from \in Range(g.nodes), r.to \in Range(g.nodes)
  PROVE  /\ Link(g, r) \in Sound
         /\ SameButEdges(Link(g, r), g)
         /\ EdgeView(Link(g, r)) = EdgeView(g) \union {r}
         /\ Len(Link(g, r).edges) = Len(g.edges) + 1
<1> DEFINE e == [from |-> g.nodeIndex[r.from], to |-> g.nodeIndex[r.to],
                 kind |-> r.kind, alias |-> r.alias, file |-> r.file, age |-> Len(g.edges) + 1]
           h == Link(g, r)
<1>1. g \in Graphs /\ SoundGraph(g) /\ IsRecord(g) /\ Typed(g)
  BY GraphParts DEF Sound
<1>2. IsRecord(h)
  BY <1>1 DEF IsRecord, Fields, AddEdge, Link
<1>3. h.edges = Append(g.edges, e) /\ SameButEdges(h, g)
  BY <1>1 DEF IsRecord, Fields, AddEdge, Link, SameButEdges
<1>4. /\ r = [from |-> r.from, to |-> r.to, kind |-> r.kind, alias |-> r.alias, file |-> r.file]
      /\ r.kind \in Kinds /\ r.alias \in Aliases /\ r.file \in Files
  BY DEF Relationships
<1>5. ASSUME NEW id \in Range(g.nodes)
      PROVE  /\ g.nodeIndex[id] \in DOMAIN g.nodes /\ g.nodeIndex[id] \in Nat
             /\ g.nodes[g.nodeIndex[id]] = id
  <2>1. PICK i \in DOMAIN g.nodes : g.nodes[i] = id
    BY DEF Range
  <2>2. g.nodeIndex[id] = i
    BY <1>1, <2>1 DEF SoundGraph, NodeIndexExact
  <2>3. i \in Nat
    BY <1>1, <2>1 DEF Typed
  <2> QED
    BY <2>1, <2>2, <2>3
<1>6. g.edges \in Seq(Edges) /\ Len(g.edges) \in Nat
  BY <1>1 DEF Typed
<1>7. e \in Edges
  BY <1>4, <1>5, <1>6 DEF Edges
<1>8. View(g, e) = r /\ {e.from, e.to} \subseteq DOMAIN g.nodes
  BY <1>4, <1>5 DEF View
<1> HIDE DEF e, h
<1>9. h.edges \in Seq(Edges) /\ Len(h.edges) = Len(g.edges) + 1
  BY <1>3, <1>6, <1>7
<1>10. Range(h.edges) = Range(g.edges) \union {e}
  BY <1>3, <1>6, <1>7 DEF Range
<1>11. h \in Graphs
  BY <1>1, <1>2, <1>3, <1>9, GraphOfParts DEF Typed, SameButEdges
<1>12. SoundGraph(h)
  <2>1. NodeIndexExact(h) /\ IndexesSound(h) /\ h.symbols \subseteq Range(h.nodes)
    BY <1>1, <1>3 DEF SoundGraph, NodeIndexExact, IndexesSound, SameButEdges
  <2>2. EdgesInArena(h)
    BY <1>1, <1>3, <1>8, <1>10 DEF SoundGraph, EdgesInArena, SameButEdges
  <2> QED
    BY <2>1, <2>2 DEF SoundGraph
<1>13. EdgeView(h) = EdgeView(g) \union {r}
  <2>1. \A x \in Range(h.edges) : View(h, x) = View(g, x)
    BY <1>3 DEF View, SameButEdges
  <2> QED
    BY <1>8, <1>10, <2>1, ViewOfEdges
<1> QED
  BY <1>3, <1>9, <1>11, <1>12, <1>13 DEF Sound, h

(* And a coherent graph stays one.                                          *)
LEMMA LinkKeeps ==
  ASSUME NEW g \in Whole, NEW r \in Relationships(Files),
         r.from \in g.symbols, r.to \in g.symbols
  PROVE  /\ Link(g, r) \in Whole
         /\ SameButEdges(Link(g, r), g)
         /\ EdgeView(Link(g, r)) = EdgeView(g) \union {r}
         /\ Len(Link(g, r).edges) = Len(g.edges) + 1
<1>1. g \in Sound /\ CoherentGraph(g)
  BY WholeIsSound DEF Whole
<1>2. /\ Link(g, r) \in Sound
      /\ SameButEdges(Link(g, r), g)
      /\ EdgeView(Link(g, r)) = EdgeView(g) \union {r}
      /\ Len(Link(g, r).edges) = Len(g.edges) + 1
  BY <1>1, LinkSound DEF CoherentGraph
<1>3. CoherentGraph(Link(g, r))
  BY <1>1, <1>2 DEF Sound, CoherentGraph, SoundGraph, IndexesComplete, NamesInUse, SameButEdges
<1> QED
  BY <1>2, <1>3 DEF Whole, Sound

(* A relationship from a known symbol is added: its package becomes a node, *)
(* and it becomes an edge if its target then is one.                        *)
Reached(g, r) == r.to \in g.symbols \union External

(* add_relationship adds one edge, or none for an unknown target.          *)
LEMMA AddRelationshipKeeps ==
  ASSUME NEW g \in Whole, NEW r \in Relationships(Files), r.from \in g.symbols
  PROVE  LET h == AddRelationship(g, r)
         IN  /\ h \in Whole
             /\ h.symbols = g.symbols \union ({r.to} \intersect External)
             /\ EdgeView(h) = EdgeView(g) \union (IF Reached(g, r) THEN {r} ELSE {})
             /\ Len(h.edges) = Len(g.edges) + (IF Reached(g, r) THEN 1 ELSE 0)
             /\ h.aliasChains = g.aliasChains
             /\ h.reexports = g.reexports
<1> DEFINE a == IF r.to \in External THEN AddSymbol(g, r.to) ELSE g
           h == AddRelationship(g, r)
<1>1. /\ a \in Whole
      /\ a.symbols = g.symbols \union ({r.to} \intersect External)
      /\ a.edges = g.edges
      /\ a.aliasChains = g.aliasChains
      /\ a.reexports = g.reexports
      /\ EdgeView(a) = EdgeView(g)
  <2>1. CASE r.to \in External
    <3>1. r.to \in Nodes
      BY <2>1 DEF Nodes
    <3>2. /\ AddSymbol(g, r.to) \in Whole
          /\ AddSymbol(g, r.to).symbols = g.symbols \union {r.to}
          /\ AddSymbol(g, r.to).edges = g.edges
          /\ AddSymbol(g, r.to).aliasChains = g.aliasChains
          /\ AddSymbol(g, r.to).reexports = g.reexports
          /\ Extends(AddSymbol(g, r.to), g)
      BY <3>1, AddSymbolKeeps
    <3>3. EdgeView(AddSymbol(g, r.to)) = EdgeView(g)
      BY <3>2, ViewExtends, WholeIsSound
    <3> QED
      BY <2>1, <3>2, <3>3
  <2>2. CASE r.to \notin External
    BY <2>2
  <2> QED
    BY <2>1, <2>2
<1>2. DOMAIN g.nodeIndex = g.symbols /\ DOMAIN a.nodeIndex = a.symbols
  BY <1>1 DEF Whole, CoherentGraph, NodeIndexExact
<1>3. Len(g.edges) \in Nat
  BY GraphParts DEF Whole, Typed
<1>4. CASE r.to \in a.symbols
  <2>1. h = Link(a, r)
    BY <1>2, <1>4 DEF AddRelationship, Link
  <2>2. Reached(g, r)
    BY <1>1, <1>4 DEF Reached
  <2>3. r.from \in a.symbols
    BY <1>1
  <2> HIDE DEF a, h
  <2>4. /\ h \in Whole
        /\ SameButEdges(h, a)
        /\ EdgeView(h) = EdgeView(a) \union {r}
        /\ Len(h.edges) = Len(a.edges) + 1
    BY <1>1, <1>4, <2>1, <2>3, LinkKeeps
  <2> QED
    BY <1>1, <2>2, <2>4 DEF h, SameButEdges
<1>5. CASE r.to \notin a.symbols
  <2>1. h = a
    BY <1>2, <1>5 DEF AddRelationship
  <2>2. ~Reached(g, r)
    BY <1>1, <1>5 DEF Reached
  <2> HIDE DEF a
  <2> QED
    BY <1>1, <1>3, <2>1, <2>2
<1> QED
  BY <1>4, <1>5

(* The alias under which a relationship names its target, if it is one.     *)
Named(r, id) ==
  IF r.to = id /\ r.kind \in {"Imports", "ReExports"} /\ r.alias # NONE
    THEN {[alias |-> r.alias, file |-> r.file]} ELSE {}

(* A relationship is chained, and nothing else of the graph changes.        *)
LEMMA IngestKeeps ==
  ASSUME NEW g \in Whole, NEW r \in Relationships(Files)
  PROVE  LET h == IngestRelationship(g, r)
         IN  /\ h \in Whole
             /\ h.symbols = g.symbols
             /\ EdgeView(h) = EdgeView(g)
             /\ Len(h.edges) = Len(g.edges)
             /\ h.reexports = g.reexports
             /\ \A id : Lookup(h.aliasChains, id, {}) = Lookup(g.aliasChains, id, {}) \union Named(r, id)
<1> DEFINE h == IngestRelationship(g, r)
           entry == [alias |-> r.alias, file |-> r.file]
<1>1. g \in Graphs /\ CoherentGraph(g) /\ IsRecord(g) /\ Typed(g)
  BY GraphParts DEF Whole
<1>2. CASE r.kind \in {"Imports", "ReExports"} /\ r.alias # NONE
  <2>1. IsRecord(h)
    BY <1>1, <1>2 DEF IsRecord, Fields, IngestRelationship
  <2>2. /\ h.aliasChains = Insert(g.aliasChains, r.to, entry)
        /\ h.nodes = g.nodes /\ h.nodeIndex = g.nodeIndex /\ h.nameIndex = g.nameIndex
        /\ h.fileIndex = g.fileIndex /\ h.symbols = g.symbols
        /\ h.edges = g.edges /\ h.reexports = g.reexports
    BY <1>1, <1>2 DEF IsRecord, Fields, IngestRelationship
  <2>3. entry \in ChainEntries /\ r.to \in Ids
    BY DEF Relationships, ChainEntries
  <2> HIDE DEF entry, h
  <2>4. /\ Insert(g.aliasChains, r.to, entry) \in Maps(Ids, SUBSET ChainEntries)
        /\ IsPut(Insert(g.aliasChains, r.to, entry), g.aliasChains, r.to,
                 Joined(g.aliasChains, r.to, entry))
    <3>1. g.aliasChains \in Maps(Ids, SUBSET ChainEntries)
      BY <1>1 DEF Typed
    <3> QED
      BY <2>3, <3>1, InsertMaps
  <2>5. h \in Graphs
    BY <1>1, <2>1, <2>2, <2>4, GraphOfParts DEF Typed
  <2>6. CoherentGraph(h)
    BY <1>1, <2>2 DEF CoherentGraph, NodeIndexExact, EdgesInArena, IndexesSound,
                      IndexesComplete, NamesInUse
  <2>7. EdgeView(h) = EdgeView(g)
    BY <2>2 DEF EdgeView
  <2>8. ASSUME NEW id
        PROVE  Lookup(h.aliasChains, id, {}) = Lookup(g.aliasChains, id, {}) \union Named(r, id)
    <3>1. CASE id = r.to
      <4>1. Named(r, id) = {entry}
        BY <1>2, <3>1 DEF Named, entry
      <4>2. Lookup(h.aliasChains, id, {}) = Joined(g.aliasChains, r.to, entry)
        BY <2>2, <2>4, <3>1 DEF IsPut, Lookup
      <4> QED
        BY <3>1, <4>1, <4>2 DEF Joined
    <3>2. CASE id # r.to
      <4>1. Named(r, id) = {}
        BY <3>2 DEF Named
      <4>2. Lookup(h.aliasChains, id, {}) = Lookup(g.aliasChains, id, {})
        BY <2>2, <2>4, <3>2 DEF IsPut, Lookup
      <4> QED
        BY <4>1, <4>2
    <3> QED
      BY <3>1, <3>2
  <2> QED
    BY <2>2, <2>5, <2>6, <2>7, <2>8 DEF Whole, h
<1>3. CASE ~(r.kind \in {"Imports", "ReExports"} /\ r.alias # NONE)
  <2>1. h = g
    BY <1>3 DEF IngestRelationship
  <2>2. \A id : Named(r, id) = {}
    BY <1>3 DEF Named
  <2> QED
    BY <2>1, <2>2
<1> QED
  BY <1>2, <1>3

(* Chains and re-exports are beside the arena and its indexes.              *)
LEMMA BesideTheArena ==
  ASSUME NEW g \in Whole, NEW h, IsRecord(h),
         h.nodes = g.nodes, h.edges = g.edges, h.nodeIndex = g.nodeIndex,
         h.nameIndex = g.nameIndex, h.fileIndex = g.fileIndex, h.symbols = g.symbols,
         h.aliasChains \in Maps(Ids, SUBSET ChainEntries), h.reexports \in SUBSET Files
  PROVE  h \in Whole /\ EdgeView(h) = EdgeView(g)
<1>1. g \in Graphs /\ CoherentGraph(g) /\ Typed(g)
  BY GraphParts DEF Whole
<1>2. h \in Graphs
  BY <1>1, GraphOfParts DEF Typed
<1>3. CoherentGraph(h)
  BY <1>1 DEF CoherentGraph, NodeIndexExact, EdgesInArena, IndexesSound, IndexesComplete,
              NamesInUse
<1>4. EdgeView(h) = EdgeView(g)
  BY DEF EdgeView
<1> QED
  BY <1>2, <1>3, <1>4 DEF Whole

-----------------------------------------------------------------------------
(* One file is added.                                                       *)

IsFileIR(ir, f) ==
  /\ ir.symbols \in Seq({f} \X Labels)
  /\ ir.relationships \in Seq(Relationships({f}))
  /\ \A r \in Range(ir.relationships) : r.from \in Range(ir.symbols)

(* The symbols and relationships of a FileIR, by position.                 *)
LEMMA FileIRParts ==
  ASSUME NEW f \in Files, NEW ir, IsFileIR(ir, f)
  PROVE  /\ \A i \in DOMAIN ir.symbols : ir.symbols[i] \in Nodes
         /\ \A i \in DOMAIN ir.relationships :
              /\ ir.relationships[i] \in Relationships(Files)
              /\ ir.relationships[i].from \in Range(ir.symbols)
         /\ Len(ir.symbols) \in Nat /\ DOMAIN ir.symbols = 1 .. Len(ir.symbols)
         /\ Len(ir.relationships) \in Nat
         /\ DOMAIN ir.relationships = 1 .. Len(ir.relationships)
<1>1. \A i \in DOMAIN ir.symbols : ir.symbols[i] \in Nodes
  BY DEF IsFileIR, Nodes, Declared
<1>2. ASSUME NEW i \in DOMAIN ir.relationships
      PROVE  /\ ir.relationships[i] \in Relationships(Files)
             /\ ir.relationships[i].from \in Range(ir.symbols)
  <2>1. ir.relationships[i] \in Relationships({f}) /\ ir.relationships[i] \in Range(ir.relationships)
    BY DEF IsFileIR, Range
  <2> QED
    BY <2>1 DEF IsFileIR, Relationships
<1> QED
  BY <1>1, <1>2 DEF IsFileIR

(* Symbols are added, and no edge.                                          *)
LEMMA SymbolsAdded ==
  ASSUME NEW g \in Whole, NEW s \in Seq(Nodes)
  PROVE  LET h == FoldLeft(AddSymbol, g, s)
         IN  /\ h \in Whole
             /\ h.symbols = g.symbols \union Range(s)
             /\ h.edges = g.edges
             /\ h.aliasChains = g.aliasChains
             /\ h.reexports = g.reexports
<1> DEFINE n == Len(s)
           T == {t \in Whole : /\ t.edges = g.edges /\ t.aliasChains = g.aliasChains
                               /\ t.reexports = g.reexports}
<1>1. /\ n \in Nat /\ DOMAIN s = 1 .. n
      /\ \A i \in 1 .. n : s[i] \in Nodes
  OBVIOUS
<1>2. ASSUME NEW i \in 1 .. n, NEW t \in T
      PROVE  /\ Turn("symbols", t, s[i]) \in T
             /\ Turn("symbols", t, s[i]).symbols = t.symbols \union {s[i]}
  BY <1>1, AddSymbolKeeps DEF Turn
<1>3. PICK h : Stages(h, "symbols", g, s, T)
  <2>1. g \in T /\ "symbols" \in Loops
    BY DEF Loops
  <2>2. \A i \in DOMAIN s, t \in T : Turn("symbols", t, s[i]) \in T
    BY <1>1, <1>2
  <2> HIDE DEF n, T
  <2> QED
    BY <1>1, <2>1, <2>2, LoopStages
<1>4. \A i \in 0 .. n : h[i].symbols = g.symbols \union {s[j] : j \in 1 .. i}
  <2> DEFINE P == {i \in 0 .. n : h[i].symbols = g.symbols \union {s[j] : j \in 1 .. i}}
  <2>1. 0 \in P
    BY <1>1, <1>3 DEF Stages
  <2>2. ASSUME NEW i \in 1 .. n, i - 1 \in P PROVE i \in P
    <3>1. i \in 0 .. n /\ i - 1 \in 0 .. n /\ 1 .. i = (1 .. (i - 1)) \union {i}
      BY <1>1
    <3>2. h[i - 1] \in T /\ h[i] = Turn("symbols", h[i - 1], s[i])
      BY <1>3, <3>1 DEF Stages
    <3>3. h[i].symbols = h[i - 1].symbols \union {s[i]}
      BY <1>2, <3>2
    <3> QED
      BY <2>2, <3>1, <3>3
  <2> HIDE DEF P
  <2>3. \A i \in 0 .. n : i \in P
    BY <1>1, <2>1, <2>2, UpTo
  <2> QED
    BY <2>3 DEF P
<1>5. h[n] = FoldLeft(AddSymbol, g, s) /\ h[n] \in T
  BY <1>1, <1>3 DEF Stages, Loop
<1>6. Range(s) = {s[j] : j \in 1 .. n}
  BY <1>1 DEF Range
<1> QED
  BY <1>1, <1>4, <1>5, <1>6

(* The first loop adds the symbols of the file.                             *)
LEMMA FileSymbolsAdded ==
  ASSUME NEW g \in Whole, NEW f \in Files, NEW ir, IsFileIR(ir, f)
  PROVE  LET h == AddFileSymbols(g, ir)
         IN  /\ h \in Whole
             /\ h.symbols = g.symbols \union Range(ir.symbols)
             /\ h.edges = g.edges
             /\ h.aliasChains = g.aliasChains
             /\ h.reexports = g.reexports
<1>1. ir.symbols \in Seq(Nodes)
  BY FileIRParts DEF IsFileIR, Nodes, Declared
<1> QED
  BY <1>1, SymbolsAdded DEF AddFileSymbols

(* The relationships among the first i that become edges.                   *)
Sites(g, s, i) == {j \in 1 .. i : Reached(g, s[j])}

(* With one relationship more, one edge more if it is reached.             *)
LEMMA SitesCount ==
  ASSUME NEW g, NEW s, NEW i \in Nat \ {0}
  PROVE  /\ Sites(g, s, i) = Sites(g, s, i - 1) \union (IF Reached(g, s[i]) THEN {i} ELSE {})
         /\ Cardinality(Sites(g, s, i))
              = Cardinality(Sites(g, s, i - 1)) + (IF Reached(g, s[i]) THEN 1 ELSE 0)
         /\ Cardinality(Sites(g, s, i - 1)) \in Nat
<1>1. Sites(g, s, i) = Sites(g, s, i - 1) \union (IF Reached(g, s[i]) THEN {i} ELSE {})
  BY DEF Sites
<1>2. IsFiniteSet(Sites(g, s, i - 1))
  <2>1. IsFiniteSet(1 .. (i - 1))
    BY FS_Interval
  <2>2. Sites(g, s, i - 1) \subseteq 1 .. (i - 1)
    BY DEF Sites
  <2> QED
    BY <2>1, <2>2, FS_Subset
<1>3. i \notin Sites(g, s, i - 1)
  BY DEF Sites
<1>4. /\ Cardinality(Sites(g, s, i - 1) \union {i}) = Cardinality(Sites(g, s, i - 1)) + 1
      /\ Cardinality(Sites(g, s, i - 1)) \in Nat
  BY <1>2, <1>3, FS_AddElement, FS_CardinalityType
<1>5. CASE Reached(g, s[i])
  BY <1>1, <1>4, <1>5
<1>6. CASE ~Reached(g, s[i])
  <2>1. Sites(g, s, i) = Sites(g, s, i - 1)
    BY <1>1, <1>6
  <2> QED
    BY <1>1, <1>4, <1>6, <2>1
<1> QED
  BY <1>5, <1>6

(* What the relationships s make of a graph that has the symbols they leave *)
(* from: the packages among their targets become symbols, and every one     *)
(* whose target is known becomes an edge.                                   *)
Linked(h, g, s, i) ==
  /\ h.symbols = g.symbols \union ({s[j].to : j \in 1 .. i} \intersect External)
  /\ EdgeView(h) = EdgeView(g) \union {s[j] : j \in Sites(g, s, i)}
  /\ Len(h.edges) = Len(g.edges) + Cardinality(Sites(g, s, i))

(* The loop over the relationships of a file links each of them.           *)
LEMMA LinksAdded ==
  ASSUME NEW g \in Whole, NEW s \in Seq(Relationships(Files)),
         \A i \in DOMAIN s : s[i].from \in g.symbols
  PROVE  LET h == FoldLeft(AddRelationship, g, s)
         IN  /\ h \in Whole
             /\ Linked(h, g, s, Len(s))
             /\ h.aliasChains = g.aliasChains
             /\ h.reexports = g.reexports
<1> DEFINE n == Len(s)
           T == {t \in Whole : /\ g.symbols \subseteq t.symbols
                               /\ t.symbols \subseteq g.symbols \union External
                               /\ t.aliasChains = g.aliasChains
                               /\ t.reexports = g.reexports}
<1>1. /\ n \in Nat /\ DOMAIN s = 1 .. n
      /\ \A i \in 1 .. n : s[i] \in Relationships(Files)
  OBVIOUS
<1>2. ASSUME NEW i \in 1 .. n, NEW t \in T
      PROVE  LET u == Turn("relationships", t, s[i])
             IN  /\ u \in T
                 /\ u.symbols = t.symbols \union ({s[i].to} \intersect External)
                 /\ EdgeView(u) = EdgeView(t) \union (IF Reached(g, s[i]) THEN {s[i]} ELSE {})
                 /\ Len(u.edges) = Len(t.edges) + (IF Reached(g, s[i]) THEN 1 ELSE 0)
  <2> DEFINE u == AddRelationship(t, s[i])
  <2>1. t \in Whole /\ s[i] \in Relationships(Files) /\ s[i].from \in t.symbols
    BY <1>1
  <2>2. /\ u \in Whole
        /\ u.symbols = t.symbols \union ({s[i].to} \intersect External)
        /\ EdgeView(u) = EdgeView(t) \union (IF Reached(t, s[i]) THEN {s[i]} ELSE {})
        /\ Len(u.edges) = Len(t.edges) + (IF Reached(t, s[i]) THEN 1 ELSE 0)
        /\ u.aliasChains = t.aliasChains
        /\ u.reexports = t.reexports
    BY <2>1, AddRelationshipKeeps
  <2>3. Reached(t, s[i]) <=> Reached(g, s[i])
    BY DEF Reached
  <2>4. Turn("relationships", t, s[i]) = u
    BY DEF Turn
  <2> HIDE DEF u
  <2>5. u \in T
    BY <2>2
  <2> QED
    BY <2>2, <2>3, <2>4, <2>5
<1>3. PICK h : Stages(h, "relationships", g, s, T)
  <2>1. g \in T /\ "relationships" \in Loops
    BY DEF Loops
  <2>2. \A i \in DOMAIN s, t \in T : Turn("relationships", t, s[i]) \in T
    BY <1>1, <1>2
  <2> HIDE DEF n, T
  <2> QED
    BY <1>1, <2>1, <2>2, LoopStages
<1>4. \A i \in 0 .. n : Linked(h[i], g, s, i)
  <2> DEFINE P == {i \in 0 .. n : Linked(h[i], g, s, i)}
  <2>1. 0 \in P
    <3>1. Sites(g, s, 0) = {} /\ h[0] = g /\ 0 \in 0 .. n
      BY <1>1, <1>3 DEF Sites, Stages
    <3>2. Cardinality(Sites(g, s, 0)) = 0 /\ Len(g.edges) \in Nat
      <4>1. g.edges \in Seq(Edges)
        BY GraphParts DEF Whole, Typed
      <4>2. Cardinality({}) = 0
        BY FS_EmptySet
      <4>3. Len(g.edges) \in Nat
        BY <4>1
      <4> QED
        BY <3>1, <4>2, <4>3
    <3>3. {s[j].to : j \in 1 .. 0} = {} /\ {s[j] : j \in Sites(g, s, 0)} = {}
      BY <3>1
    <3> QED
      BY <3>1, <3>2, <3>3 DEF Linked
  <2>2. ASSUME NEW i \in 1 .. n, i - 1 \in P PROVE i \in P
    <3>1. /\ i \in 0 .. n /\ i - 1 \in 0 .. n /\ i \in Nat \ {0}
          /\ 1 .. i = (1 .. (i - 1)) \union {i}
      BY <1>1
    <3>2. h[i - 1] \in T /\ h[i] = Turn("relationships", h[i - 1], s[i])
      BY <1>3, <3>1 DEF Stages
    <3>3. /\ h[i].symbols = h[i - 1].symbols \union ({s[i].to} \intersect External)
          /\ EdgeView(h[i]) = EdgeView(h[i - 1]) \union (IF Reached(g, s[i]) THEN {s[i]} ELSE {})
          /\ Len(h[i].edges) = Len(h[i - 1].edges) + (IF Reached(g, s[i]) THEN 1 ELSE 0)
      <4> DEFINE t == h[i - 1]
      <4>1. t \in T
        BY <3>2
      <4>2. h[i] = Turn("relationships", t, s[i])
        BY <3>2
      <4> HIDE DEF t, T
      <4>3. /\ h[i].symbols = t.symbols \union ({s[i].to} \intersect External)
            /\ EdgeView(h[i]) = EdgeView(t) \union (IF Reached(g, s[i]) THEN {s[i]} ELSE {})
            /\ Len(h[i].edges) = Len(t.edges) + (IF Reached(g, s[i]) THEN 1 ELSE 0)
        BY <1>2, <4>1, <4>2
      <4> QED
        BY <4>3 DEF t
    <3>4. Linked(h[i - 1], g, s, i - 1)
      BY <2>2
    <3>5. h[i].symbols = g.symbols \union ({s[j].to : j \in 1 .. i} \intersect External)
      BY <3>1, <3>3, <3>4 DEF Linked
    <3>6. EdgeView(h[i]) = EdgeView(g) \union {s[j] : j \in Sites(g, s, i)}
      <4>1. Sites(g, s, i) = Sites(g, s, i - 1) \union (IF Reached(g, s[i]) THEN {i} ELSE {})
        BY <3>1, SitesCount
      <4> QED
        BY <3>3, <3>4, <4>1 DEF Linked
    <3>7. Len(h[i].edges) = Len(g.edges) + Cardinality(Sites(g, s, i))
      <4>1. /\ Cardinality(Sites(g, s, i))
                 = Cardinality(Sites(g, s, i - 1)) + (IF Reached(g, s[i]) THEN 1 ELSE 0)
            /\ Cardinality(Sites(g, s, i - 1)) \in Nat
        BY <3>1, SitesCount
      <4>2. Len(g.edges) \in Nat
        BY GraphParts DEF Whole, Typed
      <4> QED
        BY <3>3, <3>4, <4>1, <4>2 DEF Linked
    <3> QED
      BY <3>1, <3>5, <3>6, <3>7 DEF Linked
  <2> HIDE DEF P
  <2>3. \A i \in 0 .. n : i \in P
    BY <1>1, <2>1, <2>2, UpTo
  <2> QED
    BY <2>3 DEF P
<1>5. h[n] = FoldLeft(AddRelationship, g, s) /\ h[n] \in T
  BY <1>1, <1>3 DEF Stages, Loop
<1> QED
  BY <1>1, <1>4, <1>5

(* The aliases of a target among the first i relationships.                 *)
NamedBy(s, i, id) == UNION {Named(s[j], id) : j \in 1 .. i}

(* An alias is named by one of the relationships.                          *)
LEMMA NamedByIs ==
  ASSUME NEW s, NEW i, NEW id, NEW x
  PROVE  x \in NamedBy(s, i, id) <=> \E j \in 1 .. i : x \in Named(s[j], id)
<1>1. ASSUME x \in NamedBy(s, i, id) PROVE \E j \in 1 .. i : x \in Named(s[j], id)
  BY <1>1 DEF NamedBy
<1>2. ASSUME NEW j \in 1 .. i, x \in Named(s[j], id) PROVE x \in NamedBy(s, i, id)
  <2>1. Named(s[j], id) \in {Named(s[k], id) : k \in 1 .. i}
    OBVIOUS
  <2> QED
    BY <1>2, <2>1 DEF NamedBy
<1> QED
  BY <1>1, <1>2

(* Every relationship is chained under the name it gives its target.        *)
LEMMA AliasesAdded ==
  ASSUME NEW g \in Whole, NEW s \in Seq(Relationships(Files))
  PROVE  LET h == FoldLeft(IngestRelationship, g, s)
         IN  /\ h \in Whole
             /\ h.symbols = g.symbols
             /\ EdgeView(h) = EdgeView(g)
             /\ Len(h.edges) = Len(g.edges)
             /\ h.reexports = g.reexports
             /\ \A id : Lookup(h.aliasChains, id, {})
                          = Lookup(g.aliasChains, id, {}) \union NamedBy(s, Len(s), id)
<1> DEFINE n == Len(s)
           T == {t \in Whole : /\ t.symbols = g.symbols
                               /\ EdgeView(t) = EdgeView(g)
                               /\ Len(t.edges) = Len(g.edges)
                               /\ t.reexports = g.reexports}
<1>1. /\ n \in Nat /\ DOMAIN s = 1 .. n
      /\ \A i \in 1 .. n : s[i] \in Relationships(Files)
  OBVIOUS
<1>2. ASSUME NEW i \in 1 .. n, NEW t \in T
      PROVE  LET u == Turn("aliases", t, s[i])
             IN  /\ u \in T
                 /\ \A id : Lookup(u.aliasChains, id, {})
                              = Lookup(t.aliasChains, id, {}) \union Named(s[i], id)
  <2> DEFINE u == IngestRelationship(t, s[i])
  <2>1. t \in Whole /\ s[i] \in Relationships(Files)
    BY <1>1
  <2>2. /\ u \in Whole
        /\ u.symbols = t.symbols
        /\ EdgeView(u) = EdgeView(t)
        /\ Len(u.edges) = Len(t.edges)
        /\ u.reexports = t.reexports
        /\ \A id : Lookup(u.aliasChains, id, {}) = Lookup(t.aliasChains, id, {}) \union Named(s[i], id)
    BY <2>1, IngestKeeps
  <2>3. Turn("aliases", t, s[i]) = u
    BY DEF Turn
  <2> HIDE DEF u
  <2> QED
    BY <2>2, <2>3
<1>3. PICK h : Stages(h, "aliases", g, s, T)
  <2>1. g \in T /\ "aliases" \in Loops
    BY DEF Loops
  <2>2. \A i \in DOMAIN s, t \in T : Turn("aliases", t, s[i]) \in T
    BY <1>1, <1>2
  <2> HIDE DEF n, T
  <2> QED
    BY <1>1, <2>1, <2>2, LoopStages
<1>4. ASSUME NEW id
      PROVE  Lookup(h[n].aliasChains, id, {})
               = Lookup(g.aliasChains, id, {}) \union NamedBy(s, n, id)
  <2> DEFINE chain(t) == Lookup(t.aliasChains, id, {})
             P == {i \in 0 .. n : chain(h[i]) = chain(g) \union NamedBy(s, i, id)}
  <2>1. 0 \in P
    <3>1. h[0] = g /\ 0 \in 0 .. n
      BY <1>1, <1>3 DEF Stages
    <3>2. NamedBy(s, 0, id) = {}
      BY NamedByIs
    <3> HIDE DEF chain
    <3> QED
      BY <3>1, <3>2
  <2>2. ASSUME NEW i \in 1 .. n, i - 1 \in P PROVE i \in P
    <3>1. /\ i \in 0 .. n /\ i - 1 \in 0 .. n
          /\ \A j : j \in 1 .. i <=> (j \in 1 .. (i - 1) \/ j = i)
      BY <1>1
    <3>2. h[i - 1] \in T /\ h[i] = Turn("aliases", h[i - 1], s[i])
      BY <1>3, <3>1 DEF Stages
    <3>3. chain(h[i]) = chain(h[i - 1]) \union Named(s[i], id)
      BY <1>2, <3>2
    <3>4. NamedBy(s, i, id) = NamedBy(s, i - 1, id) \union Named(s[i], id)
      BY <3>1, NamedByIs
    <3>5. chain(h[i - 1]) = chain(g) \union NamedBy(s, i - 1, id)
      BY <2>2
    <3> HIDE DEF chain
    <3> QED
      BY <3>1, <3>3, <3>4, <3>5
  <2> HIDE DEF P
  <2>3. \A i \in 0 .. n : i \in P
    BY <1>1, <2>1, <2>2, UpTo
  <2>4. n \in P
    BY <1>1, <2>3
  <2> QED
    BY <2>4 DEF P
<1>5. h[n] = FoldLeft(IngestRelationship, g, s) /\ h[n] \in T
  BY <1>1, <1>3 DEF Stages, Loop
<1> QED
  BY <1>4, <1>5

(* The second loop adds the edges and the aliases of the file.              *)
LEMMA FileRelationshipsAdded ==
  ASSUME NEW g \in Whole, NEW f \in Files, NEW ir, IsFileIR(ir, f),
         Range(ir.symbols) \subseteq g.symbols
  PROVE  LET h == AddFileRelationships(g, f, ir)
             s == ir.relationships
         IN  /\ h \in Whole
             /\ Linked(h, g, s, Len(s))
             /\ h.reexports = g.reexports \union {f}
             /\ \A id : Lookup(h.aliasChains, id, {})
                          = Lookup(g.aliasChains, id, {}) \union NamedBy(s, Len(s), id)
<1> DEFINE s == ir.relationships
           l == FoldLeft(AddRelationship, g, s)
           m == [l EXCEPT !.reexports = @ \union {f}]
           h == FoldLeft(IngestRelationship, m, s)
<1>1. s \in Seq(Relationships(Files)) /\ \A i \in DOMAIN s : s[i].from \in g.symbols
  <2>1. /\ \A i \in DOMAIN s : s[i] \in Relationships(Files) /\ s[i].from \in Range(ir.symbols)
        /\ s \in Seq(Relationships({f}))
    BY FileIRParts DEF IsFileIR
  <2> QED
    BY <2>1
<1>2. l \in Whole /\ Linked(l, g, s, Len(s)) /\ l.aliasChains = g.aliasChains
      /\ l.reexports = g.reexports
  <2> HIDE DEF s
  <2> QED
    BY <1>1, LinksAdded
<1>3. IsRecord(l) /\ Typed(l)
  BY <1>2, GraphParts DEF Whole
<1> HIDE DEF s, l
<1>4. IsRecord(m)
  BY <1>3 DEF IsRecord, Fields
<1>5. /\ m.nodes = l.nodes /\ m.edges = l.edges /\ m.nodeIndex = l.nodeIndex
      /\ m.nameIndex = l.nameIndex /\ m.fileIndex = l.fileIndex /\ m.symbols = l.symbols
      /\ m.aliasChains = l.aliasChains /\ m.reexports = l.reexports \union {f}
  BY <1>3 DEF IsRecord, Fields
<1>6. m.aliasChains \in Maps(Ids, SUBSET ChainEntries) /\ m.reexports \in SUBSET Files
  BY <1>3, <1>5 DEF Typed
<1> HIDE DEF m
<1>7. m \in Whole /\ EdgeView(m) = EdgeView(l)
  BY <1>2, <1>4, <1>5, <1>6, BesideTheArena
<1>8. /\ h \in Whole
      /\ h.symbols = m.symbols
      /\ EdgeView(h) = EdgeView(m)
      /\ Len(h.edges) = Len(m.edges)
      /\ h.reexports = m.reexports
      /\ \A id : Lookup(h.aliasChains, id, {})
                   = Lookup(m.aliasChains, id, {}) \union NamedBy(s, Len(s), id)
  BY <1>1, <1>7, AliasesAdded
<1>9. AddFileRelationships(g, f, ir) = h
  BY DEF AddFileRelationships, s, l, m
<1> HIDE DEF h
<1>10. Linked(h, g, s, Len(s))
  BY <1>2, <1>5, <1>7, <1>8 DEF Linked
<1>11. \A id : Lookup(h.aliasChains, id, {}) = Lookup(g.aliasChains, id, {}) \union NamedBy(s, Len(s), id)
  BY <1>2, <1>5, <1>8
<1> QED
  BY <1>2, <1>5, <1>8, <1>9, <1>10, <1>11 DEF s

-----------------------------------------------------------------------------
(* The repository: a FileIR for every file.                                 *)
IsRepo(R, F) == DOMAIN R = F /\ \A f \in F : IsFileIR(R[f], f)

(* What an adapter hands over is a FileIR.                                  *)
LEMMA FileIRsAreFileIRs ==
  ASSUME NEW f \in Files, NEW size \in Nat \X Nat, NEW ir \in FileIRs(f, size)
  PROVE  IsFileIR(ir, f)
<1> DEFINE leaving(s) == {r \in Relationships({f}) : r.from \in Range(s)}
           d == size[1]
           n == size[2]
           module == <<<<f, ModuleLabel>>>>
<1>1. PICK t \in [1 .. d -> {f} \X (Labels \ {ModuleLabel})] :
        ir \in [symbols : {module \o t}, relationships : [1 .. n -> leaving(module \o t)]]
  BY DEF FileIRs
<1>2. /\ ir.symbols = module \o t /\ ir.relationships \in [1 .. n -> leaving(ir.symbols)]
      /\ d \in Nat /\ n \in Nat
  BY <1>1
<1> HIDE DEF d, n
<1>3. ir.relationships \in Seq(Relationships({f}))
  <2> DEFINE S == Relationships({f})
  <2>1. ir.relationships \in [1 .. n -> S]
    BY <1>2
  <2> HIDE DEF S, leaving
  <2>2. ir.relationships \in Seq(S)
    BY <1>2, <2>1
  <2> QED
    BY <2>2 DEF S
<1>4. ir.symbols \in Seq({f} \X Labels)
  <2> DEFINE S == {f} \X Labels
  <2>1. <<f, ModuleLabel>> \in S
    BY LabelsAssumption
  <2>2. t \in [1 .. d -> S]
    BY <1>1
  <2> HIDE DEF S
  <2>3. t \in Seq(S)
    BY <1>2, <2>2
  <2>4. module \in Seq(S)
    BY <2>1
  <2> QED
    BY <1>2, <2>3, <2>4 DEF S
<1>5. \A r \in Range(ir.relationships) : r.from \in Range(ir.symbols)
  <2> SUFFICES ASSUME NEW r \in Range(ir.relationships) PROVE r.from \in Range(ir.symbols)
    OBVIOUS
  <2>1. PICK i \in 1 .. n : r = ir.relationships[i]
    BY <1>2 DEF Range
  <2> QED
    BY <1>2, <2>1
<1> QED
  BY <1>3, <1>4, <1>5 DEF IsFileIR

(* Every repository there can be has a FileIR for every file.              *)
LEMMA ReposAreRepos ==
  ASSUME NEW share \in Shares, NEW R \in ReposOf(share)
  PROVE  IsRepo(R, Files)
<1>2. share \in [Files -> (0 .. MaxDeclarations) \X (0 .. MaxRelationships)]
  BY DEF Shares
<1> DEFINE V == UNION {FileIRs(f, share[f]) : f \in Files}
           T == SUBSET Maps(Files, V)
           put(f, rest) == {Put(P, f, ir) : P \in rest, ir \in FileIRs(f, share[f])}
           step == [p \in Files \X T |-> put(p[1], p[2])]
           pick == [a \in SUBSET Files |-> CHOOSE x \in a : TRUE]
           Solves(iter) == iter = [a \in SUBSET Files |->
                                     IF a = {} THEN {<< >>}
                                     ELSE put(CHOOSE x \in a : TRUE, iter[a \ {CHOOSE x \in a : TRUE}])]
<1>3. Chooses(pick, Files)
  BY DEF Chooses
<1>4. ASSUME NEW f \in Files, NEW rest \in T PROVE put(f, rest) \in T
  <2> SUFFICES ASSUME NEW P \in rest, NEW ir \in FileIRs(f, share[f])
               PROVE  Put(P, f, ir) \in Maps(Files, V)
    OBVIOUS
  <2>1. P \in Maps(Files, V) /\ ir \in V
    OBVIOUS
  <2> HIDE DEF V
  <2> QED
    BY <2>1, PutMaps
<1>5. ASSUME NEW f \in Files, NEW rest \in T PROVE step[<<f, rest>>] = put(f, rest)
  <2> HIDE DEF put, T
  <2> QED
    OBVIOUS
<1>6. PICK iter : Recursion(iter, Files, {<< >>}, pick, step) /\ \A a \in SUBSET Files : iter[a] \in T
  <2>1. {<< >>} \in T
    BY EmptyMaps
  <2> HIDE DEF step, pick, T, put
  <2>2. Closed(step, Files, T)
    BY <1>4, <1>5 DEF Closed
  <2>3. IsFiniteSet(Files)
    BY FilesAssumption
  <2> QED
    BY <1>3, <2>1, <2>2, <2>3, RecursionExists
<1>7. ASSUME NEW a \in SUBSET Files, a # {}
      PROVE  /\ pick[a] = CHOOSE x \in a : TRUE
             /\ pick[a] \in a
             /\ step[<<pick[a], iter[a \ {pick[a]}]>>] = put(pick[a], iter[a \ {pick[a]}])
  <2>1. pick[a] = CHOOSE x \in a : TRUE
    OBVIOUS
  <2>2. pick[a] \in a
    BY <1>3, <1>7 DEF Chooses
  <2> HIDE DEF step, pick, T, put
  <2>3. pick[a] \in Files /\ iter[a \ {pick[a]}] \in T
    BY <1>6, <2>2
  <2> QED
    BY <1>5, <2>1, <2>2, <2>3
<1>8. Solves(iter)
  <2> HIDE DEF step, pick, T, put
  <2> QED
    BY <1>6, <1>7 DEF Recursion
<1>9. ReposOf(share) = (CHOOSE i : Solves(i))[Files]
  BY DEF ReposOf, FoldSet, MapThenFoldSet
<1>10. PICK last : Solves(last) /\ ReposOf(share) = last[Files]
  <2> HIDE DEF Solves
  <2> QED
    BY <1>8, <1>9
<1> DEFINE Bad == {a \in SUBSET Files : \E P \in last[a] : ~IsRepo(P, a)}
<1>11. Bad = {}
  <2> SUFFICES ASSUME Bad # {} PROVE FALSE
    OBVIOUS
  <2>1. PICK a \in Bad : \A b \in Bad : b \subseteq a => b = a
    <3>1. Bad \in SUBSET (SUBSET Files) /\ IsFiniteSet(Files)
      BY FilesAssumption
    <3> HIDE DEF Bad
    <3> QED
      BY <3>1, SmallestSet
  <2>2. PICK P \in last[a] : ~IsRepo(P, a)
    OBVIOUS
  <2>3. CASE a = {}
    <3>1. P = << >>
      BY <1>10, <2>3
    <3> QED
      BY <2>2, <2>3, <3>1, EmptyMaps DEF IsRepo
  <2>4. CASE a # {}
    <3> DEFINE f == CHOOSE x \in a : TRUE
               less == a \ {f}
    <3>1. f \in a /\ f \in Files
      BY <2>4
    <3>2. last[a] = put(f, last[less])
      <4> HIDE DEF put
      <4> QED
        BY <1>10, <2>4
    <3>3. PICK Q \in last[less], ir \in FileIRs(f, share[f]) : P = Put(Q, f, ir)
      <4>1. P \in put(f, last[less])
        <5> HIDE DEF put, f, Bad
        <5> QED
          BY <2>2, <3>2
      <4> HIDE DEF less, f, Bad
      <4> QED
        BY <4>1
    <3>4. IsRepo(Q, less)
      <4>1. less \subseteq a /\ less # a /\ less \in SUBSET Files
        BY <3>1
      <4>2. less \notin Bad
        <5> HIDE DEF Bad, less
        <5> QED
          BY <2>1, <4>1
      <4> HIDE DEF less
      <4> QED
        BY <3>3, <4>1, <4>2
    <3>5. IsFileIR(ir, f)
      <4>1. share[f] \in Nat \X Nat
        BY <1>2, <3>1, BoundsAssumption
      <4> HIDE DEF f
      <4> QED
        BY <3>1, <3>3, <4>1, FileIRsAreFileIRs
    <3> HIDE DEF f
    <3>6. IsRepo(P, a)
      BY <3>1, <3>3, <3>4, <3>5 DEF IsRepo, Put
    <3> QED
      BY <2>2, <3>6
  <2> QED
    BY <2>3, <2>4
<1> QED
  BY <1>10, <1>11

-----------------------------------------------------------------------------
(* What the files F of a repository R declare, and what the graph is when   *)
(* the relationships of F have been added to the symbols of all.            *)
SymbolsIn(R, F) == UNION {Range(R[f].symbols) : f \in F}
LinksIn(R, F) == UNION {Range(R[f].relationships) : f \in F}
Known(R, r) == r.to \in SymbolsIn(R, Files) \union External
PlacesIn(R, F) == UNION {{f} \X DOMAIN R[f].relationships : f \in F}
SitesIn(R, F) == {site \in PlacesIn(R, F) : Known(R, R[site[1]].relationships[site[2]])}
AliasesIn(R, F, id) ==
  UNION {NamedBy(R[f].relationships, Len(R[f].relationships), id) : f \in F}

(* What some files declare is declared by one of them: symbols,            *)
LEMMA SymbolsInAre ==
  ASSUME NEW R, NEW F, NEW id
  PROVE  id \in SymbolsIn(R, F) <=> \E f \in F : id \in Range(R[f].symbols)
<1>1. ASSUME NEW f \in F, id \in Range(R[f].symbols) PROVE id \in SymbolsIn(R, F)
  <2>1. Range(R[f].symbols) \in {Range(R[h].symbols) : h \in F}
    OBVIOUS
  <2> QED
    BY <1>1, <2>1 DEF SymbolsIn
<1>2. id \in SymbolsIn(R, F) => \E f \in F : id \in Range(R[f].symbols)
  BY DEF SymbolsIn
<1> QED
  BY <1>1, <1>2

(* relationships,                                                          *)
LEMMA LinksInAre ==
  ASSUME NEW R, NEW F, NEW r
  PROVE  r \in LinksIn(R, F) <=> \E f \in F : r \in Range(R[f].relationships)
<1>1. ASSUME NEW f \in F, r \in Range(R[f].relationships) PROVE r \in LinksIn(R, F)
  <2>1. Range(R[f].relationships) \in {Range(R[h].relationships) : h \in F}
    OBVIOUS
  <2> QED
    BY <1>1, <2>1 DEF LinksIn
<1>2. r \in LinksIn(R, F) => \E f \in F : r \in Range(R[f].relationships)
  BY DEF LinksIn
<1> QED
  BY <1>1, <1>2

(* places of relationships,                                                *)
LEMMA PlacesInAre ==
  ASSUME NEW R, NEW F, NEW p
  PROVE  p \in PlacesIn(R, F) <=> \E f \in F : p \in {f} \X DOMAIN R[f].relationships
<1>1. ASSUME NEW f \in F, p \in {f} \X DOMAIN R[f].relationships PROVE p \in PlacesIn(R, F)
  <2>1. {f} \X DOMAIN R[f].relationships \in {{h} \X DOMAIN R[h].relationships : h \in F}
    OBVIOUS
  <2> QED
    BY <1>1, <2>1 DEF PlacesIn
<1>2. p \in PlacesIn(R, F) => \E f \in F : p \in {f} \X DOMAIN R[f].relationships
  BY DEF PlacesIn
<1> QED
  BY <1>1, <1>2

(* and aliases.                                                            *)
LEMMA AliasesInAre ==
  ASSUME NEW R, NEW F, NEW id, NEW x
  PROVE  x \in AliasesIn(R, F, id)
           <=> \E f \in F : x \in NamedBy(R[f].relationships, Len(R[f].relationships), id)
<1> DEFINE named(f) == NamedBy(R[f].relationships, Len(R[f].relationships), id)
<1>1. ASSUME NEW f \in F, x \in named(f) PROVE x \in UNION {named(h) : h \in F}
  <2>1. named(f) \in {named(h) : h \in F}
    OBVIOUS
  <2> HIDE DEF named
  <2> QED
    BY <1>1, <2>1
<1>2. x \in UNION {named(h) : h \in F} => \E f \in F : x \in named(f)
  <2> HIDE DEF named
  <2> QED
    OBVIOUS
<1> QED
  BY <1>1, <1>2 DEF AliasesIn

LinkedUpTo(g, R, F) ==
  /\ g.symbols = SymbolsIn(R, Files) \union ({r.to : r \in LinksIn(R, F)} \intersect External)
  /\ EdgeView(g) = {r \in LinksIn(R, F) : Known(R, r)}
  /\ IsFiniteSet(SitesIn(R, F))
  /\ Len(g.edges) = Cardinality(SitesIn(R, F))
  /\ g.reexports = F
  /\ \A id : Lookup(g.aliasChains, id, {}) = AliasesIn(R, F, id)

(* Every symbol is there and no relationship yet.                           *)
LEMMA NothingLinked ==
  ASSUME NEW g, g.symbols = SymbolsIn(repo, Files), g.edges = << >>,
         g.aliasChains = << >>, g.reexports = {}
  PROVE  LinkedUpTo(g, repo, {})
<1>1. LinksIn(repo, {}) = {} /\ SitesIn(repo, {}) = {}
  BY LinksInAre, PlacesInAre DEF SitesIn
<1>2. EdgeView(g) = {} /\ Len(g.edges) = 0
  <2>1. Range(g.edges) = {}
    BY DEF Range
  <2> QED
    BY <2>1, ViewOfEdges
<1>3. IsFiniteSet({}) /\ Cardinality({}) = 0
  BY FS_EmptySet
<1>4. ASSUME NEW id PROVE Lookup(g.aliasChains, id, {}) = AliasesIn(repo, {}, id)
  <2>1. AliasesIn(repo, {}, id) = {}
    BY AliasesInAre
  <2> QED
    BY <2>1, EmptyMaps DEF Lookup
<1> QED
  BY <1>1, <1>2, <1>3, <1>4 DEF LinkedUpTo

(* One file more is linked.                                                 *)
LEMMA FileLinked ==
  ASSUME NEW R, IsRepo(R, Files), NEW F \in SUBSET Files, NEW f \in Files \ F,
         NEW g \in Whole, LinkedUpTo(g, R, F)
  PROVE  LET h == AddFileRelationships(g, f, R[f])
         IN  h \in Whole /\ LinkedUpTo(h, R, F \union {f})
<1> DEFINE h == AddFileRelationships(g, f, R[f])
           s == R[f].relationships
           n == Len(s)
           G == F \union {f}
<1>1. IsFileIR(R[f], f) /\ f \in Files
  BY DEF IsRepo
<1>2. n \in Nat /\ DOMAIN s = 1 .. n
  BY <1>1, FileIRParts
<1>3. Range(R[f].symbols) \subseteq g.symbols
  BY <1>1, SymbolsInAre DEF LinkedUpTo
<1>4. /\ h \in Whole
      /\ Linked(h, g, s, n)
      /\ h.reexports = g.reexports \union {f}
      /\ \A id : Lookup(h.aliasChains, id, {}) = Lookup(g.aliasChains, id, {}) \union NamedBy(s, n, id)
  BY <1>1, <1>3, FileRelationshipsAdded
<1> HIDE DEF h
<1>5. \A r : r \in LinksIn(R, G) <=> (r \in LinksIn(R, F) \/ r \in Range(s))
  BY LinksInAre
<1>6. \A r : Reached(g, r) <=> Known(R, r)
  BY DEF Reached, Known, LinkedUpTo
<1>7. Range(s) = {s[j] : j \in 1 .. n}
  BY <1>2 DEF Range
<1>8. h.symbols = SymbolsIn(R, Files) \union ({r.to : r \in LinksIn(R, G)} \intersect External)
  <2>1. {r.to : r \in LinksIn(R, G)} = {r.to : r \in LinksIn(R, F)} \union {s[j].to : j \in 1 .. n}
    BY <1>5, <1>7
  <2> QED
    BY <1>4, <2>1 DEF Linked, LinkedUpTo
<1>9. EdgeView(h) = {r \in LinksIn(R, G) : Known(R, r)}
  <2>1. {s[j] : j \in Sites(g, s, n)} = {r \in Range(s) : Known(R, r)}
    BY <1>6, <1>7 DEF Sites
  <2>2. EdgeView(h) = EdgeView(g) \union {r \in Range(s) : Known(R, r)}
    BY <1>4, <2>1 DEF Linked
  <2> HIDE DEF s, G
  <2> QED
    BY <1>5, <2>2 DEF LinkedUpTo
<1>10. IsFiniteSet(SitesIn(R, G)) /\ Len(h.edges) = Cardinality(SitesIn(R, G))
  <2> DEFINE new == {<<f, j>> : j \in Sites(g, s, n)}
             at == [j \in Sites(g, s, n) |-> <<f, j>>]
  <2>1. IsFiniteSet(Sites(g, s, n))
    <3>1. IsFiniteSet(1 .. n)
      BY <1>2, FS_Interval
    <3>2. Sites(g, s, n) \subseteq 1 .. n
      BY DEF Sites
    <3> QED
      BY <3>1, <3>2, FS_Subset
  <2>2. IsFiniteSet(new) /\ Cardinality(new) = Cardinality(Sites(g, s, n))
    <3> DEFINE S == Sites(g, s, n)
    <3>1. DOMAIN at = S /\ \A x, y \in S : at[x] = at[y] => x = y
      OBVIOUS
    <3>2. new = {at[j] : j \in S}
      OBVIOUS
    <3>3. IsFiniteSet(S)
      BY <2>1
    <3> HIDE DEF at, S
    <3>4. IsFiniteSet({at[j] : j \in S}) /\ Cardinality({at[j] : j \in S}) = Cardinality(S)
      BY <3>1, <3>3, ImageOfInjection
    <3> QED
      BY <3>2, <3>4 DEF S
  <2>3. SitesIn(R, G) = SitesIn(R, F) \union new
    <3>1. ASSUME NEW p \in SitesIn(R, G) PROVE p \in SitesIn(R, F) \union new
      <4>1. PICK k \in G : p \in {k} \X DOMAIN R[k].relationships
        BY PlacesInAre DEF SitesIn
      <4>2. Known(R, R[p[1]].relationships[p[2]])
        BY DEF SitesIn
      <4>3. CASE k = f
        <5>1. p = <<f, p[2]>> /\ p[2] \in 1 .. n /\ Known(R, s[p[2]])
          BY <1>2, <4>1, <4>2, <4>3
        <5>2. p[2] \in Sites(g, s, n)
          BY <1>6, <5>1 DEF Sites
        <5> QED
          BY <5>1, <5>2
      <4>4. CASE k \in F
        BY <4>1, <4>2, <4>4, PlacesInAre DEF SitesIn
      <4> QED
        BY <4>3, <4>4
    <3>2. ASSUME NEW p \in SitesIn(R, F) PROVE p \in SitesIn(R, G)
      BY PlacesInAre DEF SitesIn
    <3>3. ASSUME NEW j \in Sites(g, s, n) PROVE <<f, j>> \in SitesIn(R, G)
      <4>1. j \in DOMAIN s /\ Known(R, s[j])
        BY <1>2, <1>6 DEF Sites
      <4>2. <<f, j>> \in PlacesIn(R, G)
        BY <4>1, PlacesInAre
      <4> QED
        BY <4>1, <4>2 DEF SitesIn
    <3> QED
      BY <3>1, <3>2, <3>3
  <2>4. SitesIn(R, F) \intersect new = {}
    <3> SUFFICES ASSUME NEW p \in SitesIn(R, F), p \in new PROVE FALSE
      OBVIOUS
    <3>1. PICK k \in F : p \in {k} \X DOMAIN R[k].relationships
      BY PlacesInAre DEF SitesIn
    <3>2. p[1] = f
      OBVIOUS
    <3> QED
      BY <3>1, <3>2
  <2> HIDE DEF new
  <2>5. /\ IsFiniteSet(SitesIn(R, F) \union new)
        /\ Cardinality(SitesIn(R, F) \union new)
             = Cardinality(SitesIn(R, F)) + Cardinality(new) - Cardinality(SitesIn(R, F) \intersect new)
    BY <2>2, FS_Union DEF LinkedUpTo
  <2>6. Cardinality(SitesIn(R, F) \intersect new) = 0
    BY <2>4, FS_EmptySet
  <2>7. Cardinality(SitesIn(R, F)) \in Nat /\ Cardinality(new) \in Nat
    BY <2>2, FS_CardinalityType DEF LinkedUpTo
  <2>8. /\ Len(h.edges) = Len(g.edges) + Cardinality(Sites(g, s, n))
        /\ Len(g.edges) = Cardinality(SitesIn(R, F))
    BY <1>4 DEF LinkedUpTo, Linked
  <2> HIDE DEF s, n, G
  <2> QED
    BY <2>2, <2>3, <2>5, <2>6, <2>7, <2>8
<1>11. h.reexports = G
  BY <1>4 DEF LinkedUpTo
<1>12. ASSUME NEW id PROVE Lookup(h.aliasChains, id, {}) = AliasesIn(R, G, id)
  <2>1. Lookup(h.aliasChains, id, {}) = AliasesIn(R, F, id) \union NamedBy(s, n, id)
    BY <1>4 DEF LinkedUpTo
  <2> QED
    BY <2>1, AliasesInAre
<1> QED
  BY <1>4, <1>8, <1>9, <1>10, <1>11, <1>12 DEF LinkedUpTo, h

(* A finite set as a sequence.                                              *)
LEMMA SetToSeqIs ==
  ASSUME NEW S, IsFiniteSet(S)
  PROVE  SetToSeq(S) \in Seq(S) /\ Range(SetToSeq(S)) = S
<1> DEFINE n == Cardinality(S)
           q == SetToSeq(S)
<1>1. n \in Nat /\ ExistsBijection(1 .. n, S)
  BY FS_CardinalityType
<1>2. PICK b : b \in Bijection(1 .. n, S)
  BY <1>1 DEF ExistsBijection
<1>3. b \in [1 .. n -> S] /\ IsInjective(b)
  BY <1>2 DEF Bijection, Injection
<1>4. q \in [1 .. n -> S] /\ IsInjective(q)
  BY <1>3 DEF SetToSeq
<1> HIDE DEF q
<1>5. q \in Injection(1 .. n, S)
  BY <1>4 DEF Injection
<1>6. Cardinality(1 .. n) = n
  BY <1>1, FS_Interval
<1>7. q \in Surjection(1 .. n, S)
  BY <1>5, <1>6, FS_Injection
<1>8. q \in Seq(S) /\ Range(q) = S
  BY <1>1, <1>4, <1>7 DEF Surjection, Range
<1> QED
  BY <1>8 DEF q

(* A graph has finitely many symbols.                                       *)
LEMMA SymbolsAreFinite ==
  ASSUME NEW g \in Whole
  PROVE  IsFiniteSet(g.symbols) /\ g.symbols \in SUBSET Nodes
<1> DEFINE S == DOMAIN g.nodes
<1>1. g.nodes \in Seq(Nodes) /\ Range(g.nodes) = g.symbols /\ g.symbols \in SUBSET Nodes
  BY GraphParts DEF Whole, Typed, CoherentGraph
<1>2. IsFiniteSet(S)
  BY <1>1, FS_Interval
<1> HIDE DEF S
<1>3. IsFiniteSet({g.nodes[i] : i \in S})
  <2> DEFINE f == g.nodes
  <2>1. DOMAIN f = S
    BY DEF S
  <2> HIDE DEF f
  <2>2. IsFiniteSet({f[i] : i \in S})
    BY <1>2, <2>1, ImageIsFinite
  <2> QED
    BY <2>2 DEF f
<1> QED
  BY <1>1, <1>3 DEF Range, S

(* Saving and loading changes nothing that positions do not.                *)
LEMMA ReloadKeeps ==
  ASSUME NEW R, IsRepo(R, Files), NEW g \in Whole, LinkedUpTo(g, R, Files),
         NEW order \in Bijection(DOMAIN g.edges, DOMAIN g.edges)
  PROVE  LET h == Reload(g, order)
         IN  h \in Whole /\ LinkedUpTo(h, R, Files)
<1> DEFINE symbols == SetToSeq(g.symbols)
           bare == FoldLeft(AddSymbol, EmptyGraph, symbols)
           rels == [i \in DOMAIN g.edges |-> View(g, g.edges[order[i]])]
           l == FoldLeft(AddRelationship, bare, rels)
           h == [l EXCEPT !.aliasChains = g.aliasChains, !.reexports = g.reexports]
           n == Len(g.edges)
<1>1. Reload(g, order) = h
  BY DEF Reload, View
<1>2. /\ g.edges \in Seq(Edges) /\ n \in Nat /\ DOMAIN g.edges = 1 .. n
      /\ Range(g.nodes) = g.symbols /\ EdgesInArena(g)
      /\ g.aliasChains \in Maps(Ids, SUBSET ChainEntries) /\ g.reexports \in SUBSET Files
  <2>1. Typed(g) /\ CoherentGraph(g)
    BY GraphParts DEF Whole
  <2>2. g.edges \in Seq(Edges)
    BY <2>1 DEF Typed
  <2>3. n \in Nat /\ DOMAIN g.edges = 1 .. n
    BY <2>2
  <2> HIDE DEF n
  <2> QED
    BY <2>1, <2>2, <2>3 DEF Typed, CoherentGraph
<1>3. order \in [1 .. n -> 1 .. n] /\ \A j \in 1 .. n : \E i \in 1 .. n : order[i] = j
  BY <1>2 DEF Bijection, Injection, Surjection
<1>4. symbols \in Seq(Nodes) /\ Range(symbols) = g.symbols
  <2>1. IsFiniteSet(g.symbols) /\ g.symbols \in SUBSET Nodes
    BY SymbolsAreFinite
  <2>2. symbols \in Seq(g.symbols) /\ Range(symbols) = g.symbols
    BY <2>1, SetToSeqIs
  <2> HIDE DEF symbols
  <2> QED
    BY <2>1, <2>2
<1>5. /\ bare \in Whole /\ bare.symbols = g.symbols /\ bare.edges = << >>
  <2> HIDE DEF symbols
  <2>1. /\ bare \in Whole
        /\ bare.symbols = EmptyGraph.symbols \union Range(symbols)
        /\ bare.edges = EmptyGraph.edges
    BY <1>4, EmptyIsWhole, SymbolsAdded
  <2> HIDE DEF bare
  <2> QED
    BY <1>4, <2>1 DEF EmptyGraph
<1> HIDE DEF symbols, bare
<1>6. ASSUME NEW i \in 1 .. n
      PROVE  /\ rels[i] = View(g, g.edges[order[i]])
             /\ rels[i] \in EdgeView(g)
             /\ rels[i].from \in g.symbols /\ rels[i].to \in g.symbols
  <2>1. order[i] \in 1 .. n
    BY <1>3
  <2>2. rels[i] = View(g, g.edges[order[i]]) /\ g.edges[order[i]] \in Range(g.edges)
    BY <1>2, <2>1 DEF Range
  <2>3. rels[i] \in EdgeView(g)
    BY <2>2, ViewOfEdges
  <2>4. {g.edges[order[i]].from, g.edges[order[i]].to} \subseteq DOMAIN g.nodes
    BY <1>2, <2>2 DEF EdgesInArena
  <2>5. rels[i].from \in Range(g.nodes) /\ rels[i].to \in Range(g.nodes)
    <3> DEFINE e == g.edges[order[i]]
    <3>1. e.from \in DOMAIN g.nodes /\ e.to \in DOMAIN g.nodes /\ rels[i] = View(g, e)
      BY <2>2, <2>4
    <3> HIDE DEF rels, e
    <3>2. rels[i].from = g.nodes[e.from] /\ rels[i].to = g.nodes[e.to]
      BY <3>1 DEF View
    <3> QED
      BY <3>1, <3>2 DEF Range
  <2> QED
    BY <1>2, <2>2, <2>3, <2>5
<1>7. EdgeView(g) \subseteq Relationships(Files)
  <2> SUFFICES ASSUME NEW r \in EdgeView(g) PROVE r \in Relationships(Files)
    OBVIOUS
  <2>1. PICK f \in Files : r \in Range(R[f].relationships)
    BY LinksInAre DEF LinkedUpTo
  <2>2. PICK j \in DOMAIN R[f].relationships : r = R[f].relationships[j]
    BY <2>1 DEF Range
  <2> QED
    BY <2>2, FileIRParts DEF IsRepo
<1>8. rels \in Seq(Relationships(Files)) /\ DOMAIN rels = 1 .. n /\ Len(rels) = n
  <2>1. rels \in [1 .. n -> Relationships(Files)]
    BY <1>2, <1>6, <1>7
  <2> QED
    BY <1>2, <2>1
<1>9. {rels[i] : i \in 1 .. n} = EdgeView(g)
  <2>1. ASSUME NEW r \in EdgeView(g) PROVE \E i \in 1 .. n : rels[i] = r
    <3>1. PICK e \in Range(g.edges) : r = View(g, e)
      BY ViewOfEdges
    <3>2. PICK j \in 1 .. n : e = g.edges[j]
      BY <1>2, <3>1 DEF Range
    <3>3. PICK i \in 1 .. n : order[i] = j
      BY <1>3
    <3>4. rels[i] = View(g, g.edges[order[i]])
      BY <1>6
    <3> QED
      BY <3>1, <3>2, <3>3, <3>4
  <2> HIDE DEF rels
  <2> QED
    BY <1>6, <2>1
<1> HIDE DEF rels
<1>10. l \in Whole /\ Linked(l, bare, rels, n)
  BY <1>5, <1>6, <1>8, LinksAdded
<1>11. Sites(bare, rels, n) = 1 .. n
  BY <1>5, <1>6 DEF Sites, Reached
<1> HIDE DEF l
<1>12. /\ l.symbols = g.symbols
       /\ EdgeView(l) = EdgeView(g)
       /\ Len(l.edges) = Len(g.edges)
  <2>1. EdgeView(bare) = {} /\ Len(bare.edges) = 0
    <3>1. Range(bare.edges) = {}
      BY <1>5 DEF Range
    <3> QED
      BY <1>5, <3>1, ViewOfEdges
  <2>2. Cardinality(1 .. n) = n
    <3>1. n \in Nat
      BY <1>2
    <3> HIDE DEF n
    <3> QED
      BY <3>1, FS_Interval
  <2>3. {rels[j].to : j \in 1 .. n} \subseteq g.symbols
    BY <1>6
  <2>4. l.symbols = g.symbols
    BY <1>5, <1>10, <2>3 DEF Linked
  <2>5. EdgeView(l) = EdgeView(g)
    BY <1>9, <1>10, <1>11, <2>1 DEF Linked
  <2>6. Len(l.edges) = 0 + n
    BY <1>10, <1>11, <2>1, <2>2 DEF Linked
  <2> QED
    BY <1>2, <2>4, <2>5, <2>6
<1>13. IsRecord(l)
  BY <1>10, GraphParts DEF Whole
<1>14. IsRecord(h)
  BY <1>13 DEF IsRecord, Fields
<1>15. /\ h.nodes = l.nodes /\ h.edges = l.edges /\ h.nodeIndex = l.nodeIndex
       /\ h.nameIndex = l.nameIndex /\ h.fileIndex = l.fileIndex /\ h.symbols = l.symbols
       /\ h.aliasChains = g.aliasChains /\ h.reexports = g.reexports
  BY <1>13 DEF IsRecord, Fields
<1> HIDE DEF h
<1>16. h \in Whole /\ EdgeView(h) = EdgeView(l)
  BY <1>2, <1>10, <1>14, <1>15, BesideTheArena
<1>17. LinkedUpTo(h, R, Files)
  BY <1>12, <1>15, <1>16 DEF LinkedUpTo
<1> QED
  BY <1>1, <1>16, <1>17

-----------------------------------------------------------------------------
(* Of some declared symbols one has the least label.                        *)
LEMMA LeastLabel ==
  ASSUME NEW S \in SUBSET Declared, S # {}
  PROVE  \E x \in S : \A y \in S : x[2] <= y[2]
<1> DEFINE R == {p \in Labels \X Labels : p[1] > p[2]}
<1>1. PICK s : s \in S
  OBVIOUS
<1>2. \A y \in S : y[2] \in Labels /\ y[2] \in Nat
  BY LabelsAssumption DEF Declared
<1> DEFINE n == s[2]
           low == {m \in {y[2] : y \in S} : m <= n}
<1>3. IsFiniteSet(low)
  <2>1. IsFiniteSet(0 .. n)
    BY <1>1, <1>2, FS_Interval
  <2>2. low \subseteq 0 .. n
    BY <1>1, <1>2
  <2> HIDE DEF low
  <2> QED
    BY <2>1, <2>2, FS_Subset
<1>4. n \in low
  BY <1>1, <1>2
<1>5. IsStrictOrder(low, R)
  <2>1. low \subseteq Labels /\ Labels \subseteq Nat
    BY <1>2, LabelsAssumption
  <2> HIDE DEF low
  <2> QED
    BY <2>1 DEF IsStrictOrder
<1>6. PICK x \in low : \A m \in low : <<x, m>> \notin R
  <2> HIDE DEF low, R
  <2> QED
    BY <1>3, <1>4, <1>5, LastExists
<1>7. PICK z \in S : z[2] = x
  OBVIOUS
<1>8. ASSUME NEW y \in S PROVE z[2] <= y[2]
  <2>1. y[2] \in Labels /\ y[2] \in Nat /\ x \in Labels /\ x \in Nat /\ x <= n /\ n \in Nat
    BY <1>1, <1>2, <1>6, <1>7
  <2>2. CASE y[2] <= n
    <3>1. <<x, y[2]>> \notin R
      BY <1>6, <2>2
    <3>2. <<x, y[2]>> \in Labels \X Labels
      BY <2>1
    <3>3. ~(x > y[2])
      BY <3>1, <3>2
    <3> QED
      BY <1>7, <2>1, <3>3
  <2>3. CASE ~(y[2] <= n)
    BY <1>7, <2>1, <2>3
  <2> QED
    BY <2>2, <2>3
<1> QED
  BY <1>7, <1>8

(* A question by name, of a graph that is as it should be.                  *)
LEMMA FoundByName ==
  ASSUME NEW g \in Whole, NEW n \in Names, NEW bearers,
         bearers = {id \in g.symbols : NameOf(id) = n}
  PROVE  ExactAnswers(g, n, bearers)
<1> DEFINE ids == Lookup(g.nameIndex, n, {})
<1>1. IndexesSound(g) /\ IndexesComplete(g) /\ NamesInUse(g)
  BY DEF Whole, CoherentGraph
<1>2. g.symbols \subseteq Nodes
  BY GraphParts DEF Whole, Typed
<1>3. ids = bearers /\ bearers \subseteq g.symbols
  BY <1>1 DEF IndexesSound, IndexesComplete, Lookup
<1>4. n \in DOMAIN g.nameIndex <=> bearers # {}
  BY <1>1, <1>3 DEF NamesInUse, Lookup
<1> HIDE DEF ids
<1>5. ASSUME NEW f \in Files
      PROVE  LET own == {id \in bearers : FileOf(id) = f}
                 asked == FindSymbolId(g, n, f)
             IN  IF own = {} THEN asked.answer = "not found"
                 ELSE /\ asked.answer = "found"
                      /\ asked.id \in own /\ \A id \in own : asked.id[2] <= id[2]
  <2> DEFINE own == {id \in bearers : FileOf(id) = f}
             inFile == {id \in ids : id \in g.symbols /\ FileOf(id) = f}
             asked == FindSymbolId(g, n, f)
             first == CHOOSE id \in own : \A x \in own : id[2] <= x[2]
  <2>1. f # NONE /\ inFile = own
    BY <1>3, IdsAssumption
  <2>2. asked = IF own = {} THEN [answer |-> "not found"] ELSE [answer |-> "found", id |-> first]
    <3>1. asked = IF n \notin DOMAIN g.nameIndex THEN [answer |-> "not found"]
                  ELSE IF inFile = {} THEN [answer |-> "not found"]
                  ELSE [answer |-> "found",
                        id |-> CHOOSE id \in inFile : \A x \in inFile : id[2] <= x[2]]
      BY <2>1 DEF FindSymbolId, ids
    <3>2. n \notin DOMAIN g.nameIndex => own = {}
      BY <1>4
    <3> HIDE DEF own, inFile, asked
    <3> QED
      BY <2>1, <3>1, <3>2
  <2>3. own \in SUBSET Declared
    <3> SUFFICES ASSUME NEW id \in own PROVE id \in Declared
      OBVIOUS
    <3>1. id \in Nodes /\ FileOf(id) = f
      BY <1>2, <1>3
    <3> QED
      BY <3>1, FilesAssumption DEF Nodes, FileOf, NoFile
  <2>4. own # {} => first \in own /\ \A x \in own : first[2] <= x[2]
    <3> HIDE DEF own
    <3> QED
      BY <2>3, LeastLabel
  <2> HIDE DEF own, first, asked
  <2>5. IF own = {} THEN asked.answer = "not found"
        ELSE /\ asked.answer = "found"
             /\ asked.id \in own /\ \A id \in own : asked.id[2] <= id[2]
    BY <2>2, <2>4
  <2> QED
    BY <2>5 DEF own, asked
<1>6. FindSymbolId(g, n, NONE) =
        IF bearers = {} THEN [answer |-> "not found"]
        ELSE IF Cardinality(bearers) = 1
          THEN [answer |-> "found", id |-> CHOOSE id \in bearers : TRUE]
        ELSE [answer |-> "ambiguous", candidates |-> {FileOf(id) : id \in bearers}]
  <2>1. bearers \intersect g.symbols = bearers
    BY <1>3
  <2> QED
    BY <1>3, <1>4, <2>1 DEF FindSymbolId, ids
<1>7. Cardinality(bearers) = 1 => bearers # {}
  BY FS_EmptySet
<1> QED
  BY <1>5, <1>6, <1>7 DEF ExactAnswers

-----------------------------------------------------------------------------
(* How far the graph has come, by phase.                                    *)
StageInv ==
  \/ phase = "none"
  \/ /\ phase = "symbols"
     /\ IsRepo(repo, Files)
     /\ graph.symbols = SymbolsIn(repo, Files \ pending)
     /\ graph.edges = << >> /\ graph.aliasChains = << >> /\ graph.reexports = {}
  \/ /\ phase = "relationships"
     /\ IsRepo(repo, Files)
     /\ LinkedUpTo(graph, repo, Files \ pending)
  \/ /\ phase \in {"built", "loaded"}
     /\ IsRepo(repo, Files)
     /\ LinkedUpTo(graph, repo, Files)

BuildInv == graph \in Whole /\ pending \in SUBSET Files /\ StageInv

(* The first graph is as its phase says.                                   *)
LEMMA BuildStarts == LifeInit => BuildInv
<1>1. ASSUME Init PROVE BuildInv
  <2>1. IsRepo(repo, Files)
    BY <1>1, ReposAreRepos DEF Init
  <2>2. SymbolsIn(repo, Files \ pending) = {}
    BY <1>1, SymbolsInAre DEF Init
  <2> QED
    BY <1>1, <2>1, <2>2, EmptyIsWhole DEF Init, BuildInv, StageInv, EmptyGraph
<1>2. ASSUME NotBuilt PROVE BuildInv
  BY <1>2, EmptyIsWhole DEF NotBuilt, BuildInv, StageInv
<1> QED
  BY <1>1, <1>2 DEF LifeInit

(* Every turn of a loop, and a reload, leaves it as its phase says.        *)
LEMMA BuildGoesOn == BuildInv /\ [BuildIt \/ FollowIt]_life => BuildInv'
<1> SUFFICES ASSUME BuildInv, [BuildIt \/ FollowIt]_life PROVE BuildInv'
  OBVIOUS
<1>1. CASE UNCHANGED vars
  BY <1>1 DEF BuildInv, StageInv, vars
<1>2. ASSUME NEW f \in Files, AddSymbols(f) PROVE BuildInv'
  <2> DEFINE g == AddFileSymbols(graph, repo[f])
             F == Files \ pending
  <2>1. /\ f \in pending /\ phase = "symbols" /\ repo' = repo /\ graph' = g
        /\ graph \in Whole /\ pending \in SUBSET Files
        /\ IsRepo(repo, Files)
        /\ graph.symbols = SymbolsIn(repo, F)
        /\ graph.edges = << >> /\ graph.aliasChains = << >> /\ graph.reexports = {}
    BY <1>2 DEF AddSymbols, BuildInv, StageInv
  <2>2. IsFileIR(repo[f], f)
    BY <2>1 DEF IsRepo
  <2>3. /\ g \in Whole
        /\ g.symbols = graph.symbols \union Range(repo[f].symbols)
        /\ g.edges = << >> /\ g.aliasChains = << >> /\ g.reexports = {}
    BY <2>1, <2>2, FileSymbolsAdded
  <2> HIDE DEF g
  <2>4. g.symbols = SymbolsIn(repo, F \union {f})
    BY <2>1, <2>3, SymbolsInAre
  <2>5. CASE pending = {f}
    <3>1. pending' = Files /\ phase' = "relationships"
      BY <1>2, <2>5 DEF AddSymbols
    <3>2. F \union {f} = Files /\ Files \ Files = {}
      BY <2>5
    <3> HIDE DEF F
    <3>3. LinkedUpTo(g, repo, {})
      BY <2>3, <2>4, <3>2, NothingLinked
    <3> QED
      BY <2>1, <2>3, <3>1, <3>2, <3>3 DEF BuildInv, StageInv
  <2>6. CASE pending # {f}
    <3>1. pending' = pending \ {f} /\ phase' = "symbols"
      BY <1>2, <2>6 DEF AddSymbols
    <3>2. F \union {f} = Files \ pending'
      BY <2>1, <3>1
    <3> HIDE DEF F
    <3> QED
      BY <2>1, <2>3, <2>4, <3>1, <3>2 DEF BuildInv, StageInv
  <2> QED
    BY <2>5, <2>6
<1>3. ASSUME NEW f \in Files, AddRelationships(f) PROVE BuildInv'
  <2> DEFINE g == AddFileRelationships(graph, f, repo[f])
             F == Files \ pending
  <2>1. /\ f \in pending /\ phase = "relationships" /\ repo' = repo /\ graph' = g
        /\ pending' = pending \ {f}
        /\ graph \in Whole /\ pending \in SUBSET Files
        /\ IsRepo(repo, Files)
        /\ LinkedUpTo(graph, repo, F)
    BY <1>3 DEF AddRelationships, BuildInv, StageInv
  <2>2. f \in Files \ F /\ F \in SUBSET Files
    BY <2>1
  <2> HIDE DEF F
  <2>3. g \in Whole /\ LinkedUpTo(g, repo, F \union {f})
    BY <2>1, <2>2, FileLinked
  <2> HIDE DEF g
  <2>4. F \union {f} = Files \ pending'
    BY <2>1 DEF F
  <2>5. CASE pending = {f}
    <3>1. phase' = "built" /\ Files \ pending' = Files
      BY <1>3, <2>1, <2>5 DEF AddRelationships
    <3> QED
      BY <2>1, <2>3, <2>4, <3>1 DEF BuildInv, StageInv
  <2>6. CASE pending # {f}
    <3>1. phase' = "relationships"
      BY <1>3, <2>6 DEF AddRelationships
    <3> QED
      BY <2>1, <2>3, <2>4, <3>1 DEF BuildInv, StageInv
  <2> QED
    BY <2>5, <2>6
<1>4. ASSUME SaveAndLoad PROVE BuildInv'
  <2>1. PICK order \in Bijection(DOMAIN graph.edges, DOMAIN graph.edges) :
          graph' = Reload(graph, order)
    BY <1>4 DEF SaveAndLoad
  <2>2. /\ graph \in Whole /\ IsRepo(repo, Files) /\ LinkedUpTo(graph, repo, Files)
        /\ repo' = repo /\ pending' = pending /\ pending \in SUBSET Files /\ phase' = "loaded"
    BY <1>4 DEF SaveAndLoad, BuildInv, StageInv
  <2>3. graph' \in Whole /\ LinkedUpTo(graph', repo, Files)
    BY <2>1, <2>2, ReloadKeeps
  <2> QED
    BY <2>2, <2>3 DEF BuildInv, StageInv
<1> QED
  BY <1>1, <1>2, <1>3, <1>4 DEF BuildIt, FollowIt, Next, life, vars

(* So it is at every step of a build.                                      *)
LEMMA BuildKeepsInv == LifeSpec => []BuildInv
BY BuildStarts, BuildGoesOn, PTL DEF LifeSpec

(* At every step of a build, whatever the files declare and in whatever     *)
(* order they come, the arena, the node index and the lookup indexes agree  *)
(* with the symbols (graph.rs, add_symbol and add_relationship).            *)
THEOREM GraphIsCoherent == LifeSpec => []Coherent
<1>1. BuildInv => Coherent
  BY DEF BuildInv, Whole, CoherentGraph, Coherent
<1> QED
  BY <1>1, BuildKeepsInv, PTL

(* A built graph, loaded or not, holds exactly what the files declare: the  *)
(* order of the files does not matter, no forward reference is lost, every  *)
(* relationship whose target exists is one edge (analyze.rs, build_graph;   *)
(* rocksdb.rs, GraphSnapshot).                                              *)
THEOREM BuiltGraphHoldsTheFiles == LifeSpec => []BuiltGraphIsDeclared
<1>1. BuildInv => BuiltGraphIsDeclared
  <2> SUFFICES ASSUME BuildInv, phase \in {"built", "loaded"}
               PROVE  /\ graph.symbols = DeclaredSymbols \union UsedPackages
                      /\ EdgeView(graph) = DeclaredEdges
                      /\ Len(graph.edges) = Cardinality(EdgeSites)
                      /\ graph.reexports = Files
                      /\ \A id \in DOMAIN graph.aliasChains :
                           graph.aliasChains[id] = DeclaredAliases(id)
                      /\ \A id \in Ids :
                           DeclaredAliases(id) # {} => id \in DOMAIN graph.aliasChains
    BY DEF BuiltGraphIsDeclared
  <2>1. LinkedUpTo(graph, repo, Files) /\ IsRepo(repo, Files)
    BY DEF BuildInv, StageInv
  <2>2. /\ DeclaredSymbols = SymbolsIn(repo, Files)
        /\ DeclaredEdges = {r \in LinksIn(repo, Files) : Known(repo, r)}
    BY DEF DeclaredSymbols, DeclaredEdges, SymbolsIn, LinksIn, Known
  <2>3. graph.symbols = DeclaredSymbols \union UsedPackages
    <3>1. UsedPackages = {r.to : r \in LinksIn(repo, Files)} \intersect External
      BY <2>2 DEF UsedPackages, Known
    <3> QED
      BY <2>1, <2>2, <3>1 DEF LinkedUpTo
  <2>4. EdgeSites = SitesIn(repo, Files)
    <3> DEFINE at(p) == repo[p[1]].relationships[p[2]]
    <3>1. EdgeSites = {p \in PlacesIn(repo, Files) : at(p) \in DeclaredEdges}
      BY DEF EdgeSites, PlacesIn
    <3>2. ASSUME NEW p \in PlacesIn(repo, Files) PROVE at(p) \in LinksIn(repo, Files)
      <4>1. PICK f \in Files : p \in {f} \X DOMAIN repo[f].relationships
        BY PlacesInAre
      <4>2. at(p) \in Range(repo[f].relationships)
        BY <4>1 DEF Range
      <4> QED
        BY <4>2, LinksInAre
    <3> HIDE DEF at
    <3>3. EdgeSites = {p \in PlacesIn(repo, Files) : Known(repo, at(p))}
      BY <2>2, <3>1, <3>2
    <3> QED
      BY <3>3 DEF SitesIn, at
  <2>5. ASSUME NEW id PROVE Lookup(graph.aliasChains, id, {}) = DeclaredAliases(id)
    <3>1. DeclaredAliases(id) = {[alias |-> r.alias, file |-> r.file] :
             r \in {x \in LinksIn(repo, Files) :
                      x.to = id /\ x.kind \in {"Imports", "ReExports"} /\ x.alias # NONE}}
      BY DEF DeclaredAliases, LinksIn
    <3>2. ASSUME NEW x
          PROVE  x \in AliasesIn(repo, Files, id) <=> \E r \in LinksIn(repo, Files) : x \in Named(r, id)
      <4>1. ASSUME x \in AliasesIn(repo, Files, id)
            PROVE  \E r \in LinksIn(repo, Files) : x \in Named(r, id)
        <5>1. PICK f \in Files : x \in NamedBy(repo[f].relationships, Len(repo[f].relationships), id)
          BY <4>1, AliasesInAre
        <5> DEFINE s == repo[f].relationships
        <5>2. PICK j \in 1 .. Len(s) : x \in Named(s[j], id)
          BY <5>1, NamedByIs
        <5>3. s[j] \in Range(s)
          BY <2>1, FileIRParts DEF IsRepo, Range
        <5>4. s[j] \in LinksIn(repo, Files)
          BY <5>3, LinksInAre
        <5> QED
          BY <5>2, <5>4
      <4>2. ASSUME NEW r \in LinksIn(repo, Files), x \in Named(r, id)
            PROVE  x \in AliasesIn(repo, Files, id)
        <5>1. PICK f \in Files : r \in Range(repo[f].relationships)
          BY LinksInAre
        <5> DEFINE s == repo[f].relationships
        <5>2. DOMAIN s = 1 .. Len(s)
          BY <2>1, FileIRParts DEF IsRepo
        <5>3. PICK j \in 1 .. Len(s) : r = s[j]
          BY <5>1, <5>2 DEF Range
        <5>4. x \in NamedBy(s, Len(s), id)
          BY <4>2, <5>3, NamedByIs
        <5> QED
          BY <5>4, AliasesInAre
      <4> QED
        BY <4>1, <4>2
    <3>3. Lookup(graph.aliasChains, id, {}) = AliasesIn(repo, Files, id)
      BY <2>1 DEF LinkedUpTo
    <3>4. ASSUME NEW x
          PROVE  x \in DeclaredAliases(id) <=> \E r \in LinksIn(repo, Files) : x \in Named(r, id)
      BY <3>1 DEF Named
    <3> QED
      BY <3>2, <3>3, <3>4
  <2>6. /\ \A id \in DOMAIN graph.aliasChains : graph.aliasChains[id] = DeclaredAliases(id)
        /\ \A id \in Ids : DeclaredAliases(id) # {} => id \in DOMAIN graph.aliasChains
    BY <2>5 DEF Lookup
  <2> QED
    BY <2>1, <2>2, <2>3, <2>4, <2>6 DEF LinkedUpTo
<1> QED
  BY <1>1, BuildKeepsInv, PTL

(* A question by name alone is answered when one symbol or package bears    *)
(* the name, and otherwise names the file of each that does; a question by  *)
(* name and file gets the first the file declares (index.rs,                *)
(* find_symbol_id).                                                         *)
THEOREM NamesAreFound == LifeSpec => []LookupIsExact
<1>1. BuildInv /\ BuiltGraphIsDeclared => LookupIsExact
  <2> SUFFICES ASSUME BuildInv, BuiltGraphIsDeclared, phase \in {"built", "loaded"},
                      NEW n \in Names
               PROVE  ExactAnswers(graph, n, {id \in DeclaredSymbols \union UsedPackages :
                                                NameOf(id) = n})
    BY DEF LookupIsExact
  <2> DEFINE bearers == {id \in DeclaredSymbols \union UsedPackages : NameOf(id) = n}
  <2>1. bearers = {id \in graph.symbols : NameOf(id) = n}
    BY DEF BuiltGraphIsDeclared
  <2>2. graph \in Whole
    BY DEF BuildInv
  <2> HIDE DEF bearers
  <2>3. ExactAnswers(graph, n, bearers)
    BY <2>1, <2>2, FoundByName
  <2> QED
    BY <2>3 DEF bearers
<1> QED
  BY <1>1, BuildKeepsInv, BuiltGraphHoldsTheFiles, PTL

-----------------------------------------------------------------------------
(* A graph that follows its files, one replacement after the other: its     *)
(* positions stay addressable, every declared symbol is present, and a      *)
(* replacement leaves the neighbours alone. It need not be coherent, so the *)
(* turns of the loops are taken up again, for a graph that is sound.        *)

(* What a graph has is kept.                                                *)
Grows(h, g) ==
  /\ g.symbols \subseteq h.symbols
  /\ Range(g.nodes) \subseteq Range(h.nodes)
  /\ EdgeView(g) \subseteq EdgeView(h)

(* add_relationship keeps a graph sound and what it has.                    *)
LEMMA AddRelationshipSound ==
  ASSUME NEW g \in Sound, NEW r \in Relationships(Files)
  PROVE  AddRelationship(g, r) \in Sound /\ Grows(AddRelationship(g, r), g)
<1> DEFINE a == IF r.to \in External THEN AddSymbol(g, r.to) ELSE g
           h == AddRelationship(g, r)
<1>1. a \in Sound /\ Grows(a, g)
  <2>1. CASE r.to \in External
    <3>1. r.to \in Nodes
      BY <2>1 DEF Nodes
    <3>2. /\ AddSymbol(g, r.to) \in Sound
          /\ AddSymbol(g, r.to).symbols = g.symbols \union {r.to}
          /\ Range(AddSymbol(g, r.to).nodes) = Range(g.nodes) \union {r.to}
          /\ AddSymbol(g, r.to).edges = g.edges
          /\ Extends(AddSymbol(g, r.to), g)
      BY <3>1, AddSymbolSound
    <3>3. EdgeView(AddSymbol(g, r.to)) = EdgeView(g)
      BY <3>2, ViewExtends
    <3> QED
      BY <2>1, <3>2, <3>3 DEF Grows
  <2>2. CASE r.to \notin External
    BY <2>2 DEF Grows
  <2> QED
    BY <2>1, <2>2
<1>2. DOMAIN g.nodeIndex = Range(g.nodes) /\ DOMAIN a.nodeIndex = Range(a.nodes)
  BY <1>1 DEF Sound, SoundGraph, NodeIndexExact
<1>3. CASE r.from \notin DOMAIN g.nodeIndex
  <2>1. h = g
    BY <1>3 DEF AddRelationship
  <2> QED
    BY <2>1 DEF Grows
<1>4. CASE r.from \in DOMAIN g.nodeIndex /\ r.to \notin DOMAIN a.nodeIndex
  <2>1. h = a
    BY <1>4 DEF AddRelationship
  <2> QED
    BY <1>1, <2>1
<1>5. CASE r.from \in DOMAIN g.nodeIndex /\ r.to \in DOMAIN a.nodeIndex
  <2>1. h = Link(a, r)
    BY <1>5 DEF AddRelationship, Link
  <2>2. r.from \in Range(a.nodes) /\ r.to \in Range(a.nodes)
    BY <1>1, <1>2, <1>5 DEF Grows
  <2> HIDE DEF a, h
  <2>3. /\ Link(a, r) \in Sound
        /\ SameButEdges(Link(a, r), a)
        /\ EdgeView(Link(a, r)) = EdgeView(a) \union {r}
    BY <1>1, <2>2, LinkSound
  <2>4. h \in Sound /\ Grows(h, g)
    BY <1>1, <2>1, <2>3 DEF Grows, SameButEdges
  <2> QED
    BY <2>4 DEF h
<1> QED
  BY <1>3, <1>4, <1>5

(* Adding a list of symbols.                                                *)
LEMMA SymbolsSound ==
  ASSUME NEW g \in Sound, NEW s \in Seq(Nodes)
  PROVE  LET h == FoldLeft(AddSymbol, g, s)
         IN  h \in Sound /\ Grows(h, g) /\ Range(s) \subseteq h.symbols
<1> DEFINE n == Len(s)
           T == {t \in Sound : Grows(t, g)}
<1>1. /\ n \in Nat /\ DOMAIN s = 1 .. n
      /\ \A i \in 1 .. n : s[i] \in Nodes
  OBVIOUS
<1>2. ASSUME NEW i \in 1 .. n, NEW t \in T
      PROVE  /\ Turn("symbols", t, s[i]) \in T
             /\ Turn("symbols", t, s[i]).symbols = t.symbols \union {s[i]}
  <2> DEFINE u == AddSymbol(t, s[i])
  <2>1. t \in Sound /\ Grows(t, g) /\ s[i] \in Nodes
    BY <1>1
  <2>2. /\ u \in Sound
        /\ u.symbols = t.symbols \union {s[i]}
        /\ Range(u.nodes) = Range(t.nodes) \union {s[i]}
        /\ u.edges = t.edges
        /\ Extends(u, t)
    BY <2>1, AddSymbolSound
  <2>3. Turn("symbols", t, s[i]) = u
    BY DEF Turn
  <2> HIDE DEF u
  <2>4. EdgeView(u) = EdgeView(t)
    BY <2>1, <2>2, ViewExtends
  <2>5. Grows(u, g)
    BY <2>1, <2>2, <2>4 DEF Grows
  <2> QED
    BY <2>2, <2>3, <2>5
<1>3. PICK h : Stages(h, "symbols", g, s, T)
  <2>1. g \in T /\ "symbols" \in Loops
    BY DEF Loops, Grows
  <2>2. \A i \in DOMAIN s, t \in T : Turn("symbols", t, s[i]) \in T
    BY <1>1, <1>2
  <2> HIDE DEF n, T
  <2> QED
    BY <1>1, <2>1, <2>2, LoopStages
<1>4. \A i \in 0 .. n : {s[j] : j \in 1 .. i} \subseteq h[i].symbols
  <2> DEFINE P == {i \in 0 .. n : {s[j] : j \in 1 .. i} \subseteq h[i].symbols}
  <2>1. 0 \in P
    BY <1>1
  <2>2. ASSUME NEW i \in 1 .. n, i - 1 \in P PROVE i \in P
    <3>1. i \in 0 .. n /\ i - 1 \in 0 .. n /\ 1 .. i = (1 .. (i - 1)) \union {i}
      BY <1>1
    <3>2. h[i - 1] \in T /\ h[i] = Turn("symbols", h[i - 1], s[i])
      BY <1>3, <3>1 DEF Stages
    <3>3. h[i].symbols = h[i - 1].symbols \union {s[i]}
      <4> HIDE DEF T
      <4> QED
        BY <1>2, <3>2
    <3> QED
      BY <2>2, <3>1, <3>3
  <2> HIDE DEF P
  <2>3. \A i \in 0 .. n : i \in P
    BY <1>1, <2>1, <2>2, UpTo
  <2> QED
    BY <2>3 DEF P
<1>5. h[n] = FoldLeft(AddSymbol, g, s) /\ h[n] \in T
  BY <1>1, <1>3 DEF Stages, Loop
<1>6. Range(s) = {s[j] : j \in 1 .. n}
  BY <1>1 DEF Range
<1> QED
  BY <1>1, <1>4, <1>5, <1>6

(* Adding a list of relationships.                                          *)
LEMMA LinksSound ==
  ASSUME NEW g \in Sound, NEW s \in Seq(Relationships(Files))
  PROVE  LET h == FoldLeft(AddRelationship, g, s)
         IN  h \in Sound /\ Grows(h, g)
<1> DEFINE T == {t \in Sound : Grows(t, g)}
<1>1. ASSUME NEW i \in DOMAIN s, NEW t \in T PROVE Turn("relationships", t, s[i]) \in T
  <2>1. t \in Sound /\ Grows(t, g) /\ s[i] \in Relationships(Files)
    OBVIOUS
  <2>2. AddRelationship(t, s[i]) \in Sound /\ Grows(AddRelationship(t, s[i]), t)
    BY <2>1, AddRelationshipSound
  <2>3. Turn("relationships", t, s[i]) = AddRelationship(t, s[i])
    BY DEF Turn
  <2>4. Grows(Turn("relationships", t, s[i]), g)
    BY <2>1, <2>2, <2>3 DEF Grows
  <2> QED
    BY <2>2, <2>3, <2>4
<1>2. PICK h : Stages(h, "relationships", g, s, T)
  <2>1. g \in T /\ "relationships" \in Loops
    BY DEF Loops, Grows
  <2> HIDE DEF T
  <2> QED
    BY <1>1, <2>1, LoopStages
<1>3. h[Len(s)] = FoldLeft(AddRelationship, g, s) /\ h[Len(s)] \in T
  BY <1>2 DEF Stages, Loop
<1> QED
  BY <1>3

-----------------------------------------------------------------------------
(* The order in which a set of numbers is gone through.                     *)
AreNumbers(S) == S \subseteq Nat

InOrder(s, S) ==
  /\ s \in [1 .. Cardinality(S) -> S]
  /\ \A i, j \in DOMAIN s : i < j => s[i] < s[j]

(* Every finite set of numbers can be put in order.                         *)
LEMMA OrderExists ==
  ASSUME NEW S, AreNumbers(S), IsFiniteSet(S)
  PROVE  \E s : InOrder(s, S)
<1>0. IsFiniteSet(S)
  OBVIOUS
<1> DEFINE Bad == {A \in SUBSET S : ~\E s : InOrder(s, A)}
<1>1. SUFFICES ASSUME Bad # {} PROVE FALSE
  OBVIOUS
<1>2. PICK A \in Bad : \A B \in Bad : B \subseteq A => B = A
  <2>1. Bad \in SUBSET (SUBSET S)
    OBVIOUS
  <2>2. Bad # {}
    BY <1>1
  <2> HIDE DEF Bad
  <2> QED
    BY <1>0, <2>1, <2>2, SmallestSet
<1>3. A \in SUBSET S /\ A \in SUBSET Nat /\ IsFiniteSet(A)
  BY FS_Subset DEF AreNumbers
<1>4. A # {}
  <2>1. Cardinality({}) = 0
    BY FS_EmptySet
  <2>2. << >> \in [1 .. 0 -> {}] /\ DOMAIN << >> = {}
    OBVIOUS
  <2>3. InOrder(<< >>, {})
    BY <2>1, <2>2 DEF InOrder
  <2> QED
    BY <2>3
<1>5. PICK x \in A : \A y \in A : y <= x
  <2> DEFINE R == {p \in A \X A : p[1] < p[2]}
  <2>1. IsStrictOrder(A, R)
    BY <1>3 DEF IsStrictOrder
  <2>2. PICK x \in A : \A y \in A : <<x, y>> \notin R
    <3> HIDE DEF R, Bad
    <3> QED
      BY <1>3, <1>4, <2>1, LastExists
  <2>3. ASSUME NEW y \in A PROVE y <= x
    <3>1. <<x, y>> \in A \X A /\ x \in Nat /\ y \in Nat
      BY <1>3
    <3>2. ~(x < y)
      BY <2>2, <3>1
    <3> QED
      BY <3>1, <3>2
  <2> QED
    BY <2>3
<1> DEFINE B == A \ {x}
<1>6. PICK s : InOrder(s, B)
  <2>1. B \in SUBSET S /\ B \subseteq A /\ B # A
    BY <1>3, <1>5
  <2>2. B \notin Bad
    <3> HIDE DEF Bad, B
    <3> QED
      BY <1>2, <2>1
  <2> HIDE DEF B
  <2> QED
    BY <2>1, <2>2
<1> DEFINE n == Cardinality(B)
           t == [i \in 1 .. (n + 1) |-> IF i = n + 1 THEN x ELSE s[i]]
<1>7. IsFiniteSet(B) /\ n \in Nat /\ Cardinality(A) = n + 1
  <2>1. IsFiniteSet(B) /\ n \in Nat
    BY <1>3, FS_Subset, FS_CardinalityType
  <2>2. B \union {x} = A /\ x \notin B
    OBVIOUS
  <2> HIDE DEF B
  <2>3. Cardinality(B \union {x}) = Cardinality(B) + 1
    BY <2>1, <2>2, FS_AddElement
  <2> QED
    BY <2>1, <2>2, <2>3
<1>8. InOrder(t, A)
  <2>1. s \in [1 .. n -> B] /\ \A i, j \in 1 .. n : i < j => s[i] < s[j]
    BY <1>6 DEF InOrder
  <2>2. B \subseteq A /\ \A y \in B : y < x
    BY <1>3, <1>5
  <2> HIDE DEF B, n
  <2>3. t \in [1 .. (n + 1) -> A]
    <3> SUFFICES ASSUME NEW i \in 1 .. (n + 1) PROVE t[i] \in A
      OBVIOUS
    <3>1. CASE i = n + 1
      BY <3>1
    <3>2. CASE i \in 1 .. n
      <4>1. s[i] \in B /\ t[i] = s[i]
        BY <1>7, <2>1, <3>2
      <4> QED
        BY <2>2, <4>1
    <3> QED
      BY <1>7, <3>1, <3>2
  <2>4. ASSUME NEW i \in 1 .. (n + 1), NEW j \in 1 .. (n + 1), i < j PROVE t[i] < t[j]
    <3>1. i \in 1 .. n
      BY <1>7, <2>4
    <3>2. CASE j = n + 1
      <4>1. t[i] = s[i] /\ t[j] = x
        BY <1>7, <3>1, <3>2
      <4>2. s[i] \in B
        BY <2>1, <3>1
      <4> QED
        BY <2>2, <4>1, <4>2
    <3>3. CASE j \in 1 .. n
      BY <1>7, <2>1, <2>4, <3>1, <3>3
    <3> QED
      BY <1>7, <3>2, <3>3
  <2> HIDE DEF t
  <2> QED
    BY <1>7, <2>3, <2>4 DEF InOrder
<1> HIDE DEF t, B, n
<1> QED
  BY <1>2, <1>8

(* And going through it in order comes to each of its members.              *)
LEMMA AscendingIs ==
  ASSUME NEW S, AreNumbers(S), IsFiniteSet(S)
  PROVE  /\ Ascending(S) \in Seq(S)
         /\ Range(Ascending(S)) = S
         /\ \A i, j \in DOMAIN Ascending(S) : i < j => Ascending(S)[i] < Ascending(S)[j]
<1> DEFINE s == Ascending(S)
           n == Cardinality(S)
<1>1. InOrder(s, S)
  <2>1. \E x : InOrder(x, S)
    BY OrderExists
  <2>2. \E x \in [1 .. Cardinality(S) -> S] : \A i, j \in DOMAIN x : i < j => x[i] < x[j]
    BY <2>1 DEF InOrder
  <2> QED
    BY <2>2 DEF Ascending, InOrder
<1>2. n \in Nat
  BY FS_CardinalityType
<1>3. s \in [1 .. n -> S] /\ \A i, j \in 1 .. n : i < j => s[i] < s[j]
  BY <1>1 DEF InOrder
<1> HIDE DEF s, n
<1>4. s \in Seq(S) /\ DOMAIN s = 1 .. n
  BY <1>2, <1>3
<1>5. ASSUME NEW i \in 1 .. n, NEW j \in 1 .. n, s[i] = s[j] PROVE i = j
  <2>1. s[i] \in S /\ i \in Nat /\ j \in Nat
    BY <1>2, <1>3
  <2>3. s[i] \in Nat
    BY <2>1 DEF AreNumbers
  <2>2. ~(i < j) /\ ~(j < i)
    BY <1>3, <1>5, <2>3
  <2> QED
    BY <2>1, <2>2
<1>6. Range(s) = S
  <2> DEFINE T == {s[i] : i \in 1 .. n}
  <2>1. IsFiniteSet(1 .. n) /\ Cardinality(1 .. n) = n
    BY <1>2, FS_Interval
  <2>2. IsFiniteSet(T) /\ Cardinality(T) = n
    <3> DEFINE D0 == 1 .. n
    <3>1. IsFiniteSet(D0) /\ DOMAIN s = D0 /\ \A i, j \in D0 : s[i] = s[j] => i = j
      BY <1>4, <1>5, <2>1
    <3> HIDE DEF D0
    <3>2. IsFiniteSet({s[x] : x \in D0}) /\ Cardinality({s[x] : x \in D0}) = Cardinality(D0)
      BY <3>1, ImageOfInjection
    <3> QED
      BY <2>1, <3>2 DEF D0
  <2>3. T \subseteq S
    <3> SUFFICES ASSUME NEW i \in 1 .. n PROVE s[i] \in S
      OBVIOUS
    <3> QED
      BY <1>3
  <2>4. Range(s) = T
    BY <1>4 DEF Range
  <2> HIDE DEF T
  <2>5. Cardinality(T) = Cardinality(S) => T = S
    BY <2>3, FS_Subset
  <2> QED
    BY <2>2, <2>4, <2>5 DEF n
<1>7. \A i, j \in DOMAIN s : i < j => s[i] < s[j]
  BY <1>3, <1>4
<1> QED
  BY <1>4, <1>6, <1>7 DEF s

-----------------------------------------------------------------------------
(* Removing edges.                                                          *)
Arena == {g \in Graphs : EdgesInArena(g)}

(* The same edge, of whatever age.                                          *)
SameEdge(a, b) ==
  a.from = b.from /\ a.to = b.to /\ a.kind = b.kind /\ a.alias = b.alias /\ a.file = b.file

(* What was last takes the place of what is removed.                        *)
CameFrom(n, i, j) == IF j = i THEN n ELSE j

(* remove_edge takes one edge away and moves the last one into its place.   *)
LEMMA EdgeRemoved ==
  ASSUME NEW t \in Arena, NEW i \in DOMAIN t.edges
  PROVE  LET h == RemoveEdge(t, i)
             n == Len(t.edges)
         IN  /\ h \in Arena
             /\ SameButEdges(h, t)
             /\ n \in Nat /\ i \in 1 .. n /\ Len(h.edges) = n - 1 /\ DOMAIN h.edges = 1 .. (n - 1)
             /\ \A j \in 1 .. (n - 1) : SameEdge(h.edges[j], t.edges[CameFrom(n, i, j)])
<1> DEFINE h == RemoveEdge(t, i)
           n == Len(t.edges)
           gone == t.edges[i].age
           rest == SwapRemove(t.edges, i)
           left == [j \in DOMAIN rest |->
                      IF rest[j].age > gone THEN [rest[j] EXCEPT !.age = @ - 1] ELSE rest[j]]
<1>1. IsRecord(t) /\ Typed(t) /\ EdgesInArena(t)
  BY GraphParts DEF Arena
<1>2. t.edges \in Seq(Edges)
  BY <1>1 DEF Typed
<1>3. n \in Nat /\ DOMAIN t.edges = 1 .. n /\ i \in 1 .. n /\ \A j \in 1 .. n : t.edges[j] \in Edges
  BY <1>2
<1>4. DOMAIN rest = 1 .. (n - 1) /\ \A j \in 1 .. (n - 1) : rest[j] = t.edges[CameFrom(n, i, j)]
  BY <1>3 DEF SwapRemove, CameFrom
<1>5. h = [t EXCEPT !.edges = left]
  BY <1>3 DEF RemoveEdge
<1> HIDE DEF rest
<1>6. ASSUME NEW j \in 1 .. (n - 1)
      PROVE  left[j] \in Edges /\ SameEdge(left[j], t.edges[CameFrom(n, i, j)])
  <2> DEFINE e == t.edges[CameFrom(n, i, j)]
  <2>1. CameFrom(n, i, j) \in 1 .. n
    BY <1>3 DEF CameFrom
  <2>2. e \in Edges
    BY <1>3, <2>1
  <2>3. gone \in Nat
    BY <1>3 DEF Edges
  <2>4. rest[j] = e
    BY <1>4
  <2> HIDE DEF e, gone
  <2>5. left[j] = IF e.age > gone THEN [e EXCEPT !.age = @ - 1] ELSE e
    BY <1>4, <2>4 DEF gone
  <2>6. CASE e.age > gone
    <3>1. left[j] = [e EXCEPT !.age = e.age - 1]
      BY <2>5, <2>6
    <3>2. e.age - 1 \in Nat
      BY <2>2, <2>3, <2>6 DEF Edges
    <3>3. left[j] \in Edges
      BY <2>2, <3>1, <3>2 DEF Edges
    <3>4. SameEdge(left[j], e)
      BY <2>2, <3>1 DEF Edges, SameEdge
    <3> QED
      BY <3>3, <3>4 DEF e
  <2>7. CASE ~(e.age > gone)
    <3>1. left[j] = e
      BY <2>5, <2>7
    <3>2. left[j] \in Edges /\ SameEdge(left[j], e)
      BY <2>2, <3>1 DEF SameEdge
    <3> QED
      BY <3>2 DEF e
  <2> QED
    BY <2>6, <2>7
<1>7. DOMAIN left = 1 .. (n - 1)
  BY <1>4
<1> HIDE DEF left
<1>8. IsRecord(h)
  BY <1>1, <1>5 DEF IsRecord, Fields
<1>9. h.edges = left /\ SameButEdges(h, t)
  BY <1>1, <1>5 DEF IsRecord, Fields, SameButEdges
<1> HIDE DEF h, n
<1>10. n - 1 \in Nat
  BY <1>3
<1>11. left \in Seq(Edges) /\ Len(left) = n - 1
  <2>1. left = [j \in 1 .. (n - 1) |-> left[j]]
    BY <1>5, <1>7 DEF left
  <2>2. left \in [1 .. (n - 1) -> Edges]
    BY <1>6, <2>1
  <2> QED
    BY <1>10, <2>2
<1>12. h \in Graphs
  BY <1>1, <1>8, <1>9, <1>11, GraphOfParts DEF Typed, SameButEdges
<1>13. EdgesInArena(h)
  <2> SUFFICES ASSUME NEW e \in Range(h.edges) PROVE {e.from, e.to} \subseteq DOMAIN h.nodes
    BY DEF EdgesInArena
  <2>1. PICK j \in 1 .. (n - 1) : e = left[j]
    BY <1>7, <1>9 DEF Range
  <2>2. CameFrom(n, i, j) \in 1 .. n
    BY <1>3 DEF CameFrom
  <2>3. t.edges[CameFrom(n, i, j)] \in Range(t.edges)
    BY <1>3, <2>2 DEF Range
  <2>4. SameEdge(e, t.edges[CameFrom(n, i, j)])
    BY <1>6, <2>1
  <2> QED
    BY <1>1, <1>9, <2>3, <2>4 DEF EdgesInArena, SameEdge, SameButEdges
<1> QED
  BY <1>3, <1>6, <1>7, <1>9, <1>11, <1>12, <1>13 DEF Arena, h, n

(* An edge, told by its ends, by its position.                              *)
LEMMA ViewAt ==
  ASSUME NEW g, NEW x
  PROVE  x \in EdgeView(g) <=> \E j \in DOMAIN g.edges : x = View(g, g.edges[j])
BY ViewOfEdges DEF Range

(* The same edge between the same nodes looks the same.                     *)
LEMMA SameView ==
  ASSUME NEW g, NEW h, h.nodes = g.nodes, NEW a, NEW b, SameEdge(a, b)
  PROVE  View(h, a) = View(g, b)
BY DEF View, SameEdge

(* The relationships of a file are removed, in the order their positions    *)
(* were collected in.                                                       *)
LEMMA RelationshipsRemoved ==
  ASSUME NEW g \in Sound, NEW f
  PROVE  LET h == RemoveRelationshipsInFile(g, f)
         IN  /\ h \in Sound
             /\ SameButEdges(h, g)
             /\ {x \in EdgeView(g) : x.file # f} \subseteq EdgeView(h)
<1> DEFINE C == {i \in DOMAIN g.edges : g.edges[i].file = f}
           s == Ascending(C)
           n == Len(s)
           T == {t \in Arena : SameButEdges(t, g)}
           keep(t) == \A x \in EdgeView(g) : x.file # f => x \in EdgeView(t)
           due(t, i) == \A m \in (i + 1) .. n : s[m] \in DOMAIN t.edges => t.edges[s[m]].file = f
<1>1. g \in Graphs /\ SoundGraph(g) /\ Typed(g)
  BY GraphParts DEF Sound
<1>2. g.edges \in Seq(Edges)
  BY <1>1 DEF Typed
<1>3. AreNumbers(C) /\ IsFiniteSet(C)
  <2>1. IsFiniteSet(1 .. Len(g.edges))
    BY <1>2, FS_Interval
  <2>2. C \subseteq 1 .. Len(g.edges)
    BY <1>2
  <2> HIDE DEF C
  <2>3. IsFiniteSet(C)
    BY <2>1, <2>2, FS_Subset
  <2> QED
    BY <2>2, <2>3 DEF AreNumbers
<1>4. /\ s \in Seq(C) /\ Range(s) = C
      /\ \A i, j \in DOMAIN s : i < j => s[i] < s[j]
  <2> HIDE DEF C
  <2> QED
    BY <1>3, AscendingIs
<1> HIDE DEF s
<1>5. n \in Nat /\ DOMAIN s = 1 .. n /\ \A i \in 1 .. n : s[i] \in C
  <2> HIDE DEF C
  <2> QED
    BY <1>4
<1>6. \A i \in 1 .. n : s[i] \in Nat \ {0}
  BY <1>2, <1>5
<1>7. ASSUME NEW i \in 1 .. n, NEW t \in T
      PROVE  LET u == Turn("edges", t, s[i])
             IN  /\ u \in T
                 /\ due(t, i - 1) /\ keep(t) => due(u, i) /\ keep(u)
  <2> DEFINE u == RemoveEdge(t, s[i])
             k == Len(t.edges)
  <2>1. t \in Arena /\ SameButEdges(t, g) /\ s[i] \in Nat \ {0}
    BY <1>6
  <2>2. Turn("edges", t, s[i]) = u
    BY DEF Turn
  <2>3. t.edges \in Seq(Edges) /\ k \in Nat /\ DOMAIN t.edges = 1 .. k
    <3>1. t.edges \in Seq(Edges)
      BY <2>1, GraphParts DEF Arena, Typed
    <3> QED
      BY <3>1
  <2>4. CASE s[i] > k
    <3>1. u = t
      BY <2>4 DEF RemoveEdge
    <3>2. due(t, i - 1) => due(t, i)
      BY <1>5
    <3> HIDE DEF u, T, keep, due
    <3> QED
      BY <2>2, <3>1, <3>2
  <2>5. CASE ~(s[i] > k)
    <3>1. s[i] \in DOMAIN t.edges
      BY <2>1, <2>3, <2>5
    <3> HIDE DEF u, k
    <3>2. /\ u \in Arena
          /\ SameButEdges(u, t)
          /\ s[i] \in 1 .. k /\ DOMAIN u.edges = 1 .. (k - 1)
          /\ \A j \in 1 .. (k - 1) : SameEdge(u.edges[j], t.edges[CameFrom(k, s[i], j)])
      BY <2>1, <3>1, EdgeRemoved DEF u, k
    <3>3. u \in T
      BY <2>1, <3>2 DEF SameButEdges
    <3>4. ASSUME due(t, i - 1), NEW m \in (i + 1) .. n, s[m] \in DOMAIN u.edges
          PROVE  u.edges[s[m]].file = f
      <4>1. m \in DOMAIN s /\ i \in DOMAIN s /\ i < m /\ m \in ((i - 1) + 1) .. n
        BY <1>5
      <4>2. s[i] < s[m] /\ s[m] \in 1 .. (k - 1)
        BY <1>4, <3>2, <3>4, <4>1
      <4>3. CameFrom(k, s[i], s[m]) = s[m]
        BY <2>1, <4>2 DEF CameFrom
      <4>4. s[m] \in DOMAIN t.edges
        BY <2>3, <4>2
      <4>5. t.edges[s[m]].file = f
        BY <3>4, <4>1, <4>4
      <4> QED
        BY <3>2, <4>2, <4>3, <4>5 DEF SameEdge
    <3>5. ASSUME due(t, i - 1), keep(t), NEW x \in EdgeView(g), x.file # f
          PROVE  x \in EdgeView(u)
      <4>1. PICK j \in 1 .. k : x = View(t, t.edges[j])
        BY <2>3, <3>5, ViewAt
      <4>2. t.edges[s[i]].file = f
        <5>1. i \in ((i - 1) + 1) .. n
          BY <1>5
        <5> QED
          BY <3>1, <3>5, <5>1
      <4>3. j # s[i]
        BY <3>5, <4>1, <4>2 DEF View
      <4> DEFINE p == IF j = k THEN s[i] ELSE j
      <4>4. p \in 1 .. (k - 1) /\ CameFrom(k, s[i], p) = j
        BY <2>3, <3>2, <4>1, <4>3 DEF CameFrom
      <4> HIDE DEF p
      <4>5. SameEdge(u.edges[p], t.edges[j])
        BY <3>2, <4>4
      <4>6. View(u, u.edges[p]) = x
        BY <3>2, <4>1, <4>5, SameView DEF SameButEdges
      <4> QED
        BY <3>2, <4>4, <4>6, ViewAt
    <3> QED
      BY <2>2, <3>3, <3>4, <3>5
  <2> QED
    BY <2>4, <2>5
<1>8. PICK h : Stages(h, "edges", g, s, T)
  <2>1. g \in T /\ "edges" \in Loops
    BY <1>1 DEF Loops, Arena, SoundGraph, SameButEdges
  <2>2. \A i \in DOMAIN s, t \in T : Turn("edges", t, s[i]) \in T
    BY <1>5, <1>7
  <2> HIDE DEF n, T, C
  <2> QED
    BY <1>4, <2>1, <2>2, LoopStages
<1>9. due(h[n], n) /\ keep(h[n])
  <2> DEFINE P == {i \in 0 .. n : due(h[i], i) /\ keep(h[i])}
  <2>1. 0 \in P
    <3>1. h[0] = g /\ 0 \in 0 .. n
      BY <1>5, <1>8 DEF Stages
    <3>2. due(g, 0)
      BY <1>5
    <3>3. keep(g)
      OBVIOUS
    <3> HIDE DEF due, keep
    <3> QED
      BY <3>1, <3>2, <3>3
  <2>2. ASSUME NEW i \in 1 .. n, i - 1 \in P PROVE i \in P
    <3>1. i \in 0 .. n /\ i - 1 \in 0 .. n
      BY <1>5
    <3>2. h[i - 1] \in T /\ h[i] = Turn("edges", h[i - 1], s[i])
      BY <1>8, <3>1 DEF Stages
    <3> HIDE DEF due, keep, T
    <3>3. due(h[i - 1], i - 1) /\ keep(h[i - 1])
      BY <2>2
    <3> QED
      BY <1>7, <3>1, <3>2, <3>3
  <2> HIDE DEF P
  <2>3. \A i \in 0 .. n : i \in P
    BY <1>5, <2>1, <2>2, UpTo
  <2>4. n \in P
    BY <1>5, <2>3
  <2> QED
    BY <2>4 DEF P
<1>10. h[n] = RemoveRelationshipsInFile(g, f) /\ h[n] \in T
  <2>1. h[n] = Loop("edges", g, s) /\ h[n] \in T
    <3> HIDE DEF T
    <3> QED
      BY <1>5, <1>8 DEF Stages
  <2>2. Loop("edges", g, s) = FoldLeft(RemoveEdge, g, s)
    BY DEF Loop
  <2>3. RemoveRelationshipsInFile(g, f) = FoldLeft(RemoveEdge, g, s)
    BY DEF RemoveRelationshipsInFile, s
  <2> QED
    BY <2>1, <2>2, <2>3
<1>11. h[n] \in Arena /\ SameButEdges(h[n], g) /\ keep(h[n])
  BY <1>9, <1>10
<1>12. SoundGraph(h[n])
  BY <1>1, <1>11 DEF SoundGraph, NodeIndexExact, IndexesSound, SameButEdges, Arena
<1>13. h[n] \in Sound
  BY <1>11, <1>12 DEF Arena, Sound
<1> QED
  BY <1>10, <1>11, <1>13

-----------------------------------------------------------------------------
(* Removing a node: first its edges, one by one, then the node.             *)
(* The positions of a graph's edges.                                        *)
LEMMA EdgePositions ==
  ASSUME NEW t \in Arena
  PROVE  /\ Len(t.edges) \in Nat
         /\ DOMAIN t.edges = 1 .. Len(t.edges)
         /\ \A i \in DOMAIN t.edges : t.edges[i] \in Edges
         /\ IsFiniteSet(DOMAIN t.edges)
<1>1. t.edges \in Seq(Edges)
  BY GraphParts DEF Arena, Typed
<1>2. /\ Len(t.edges) \in Nat
      /\ DOMAIN t.edges = 1 .. Len(t.edges)
      /\ \A i \in DOMAIN t.edges : t.edges[i] \in Edges
  BY <1>1
<1>3. IsFiniteSet(DOMAIN t.edges)
  BY <1>2, FS_Interval
<1> QED
  BY <1>2, <1>3

(* While a node has edges, the next one to go is one of them.               *)
LEMMA NextIsIncident ==
  ASSUME NEW t \in Arena, NEW p, IncidentTo(t, p) # {}
  PROVE  NextEdgeOf(t, p) \in IncidentTo(t, p)
<1> DEFINE out == {i \in DOMAIN t.edges : t.edges[i].from = p}
           in == {i \in DOMAIN t.edges : t.edges[i].to = p}
           youngest(S) == CHOOSE i \in S : \A j \in S : t.edges[i].age >= t.edges[j].age
<1>1. ASSUME NEW S \in SUBSET DOMAIN t.edges, S # {} PROVE youngest(S) \in S
  <2> DEFINE R == {x \in S \X S : t.edges[x[1]].age < t.edges[x[2]].age}
  <2>1. \A i \in S : t.edges[i].age \in Nat
    BY EdgePositions DEF Edges
  <2>2. IsFiniteSet(S)
    BY EdgePositions, FS_Subset
  <2>3. IsStrictOrder(S, R)
    BY <2>1 DEF IsStrictOrder
  <2>4. PICK i \in S : \A j \in S : <<i, j>> \notin R
    <3> HIDE DEF R
    <3> QED
      BY <1>1, <2>2, <2>3, LastExists
  <2>5. ASSUME NEW j \in S PROVE t.edges[i].age >= t.edges[j].age
    <3>1. <<i, j>> \in S \X S
      OBVIOUS
    <3>2. ~(t.edges[i].age < t.edges[j].age)
      BY <2>4, <3>1
    <3> QED
      BY <2>1, <3>2
  <2> QED
    BY <2>5
<1>2. NextEdgeOf(t, p) = IF out # {} THEN youngest(out) ELSE youngest(in)
  BY DEF NextEdgeOf
<1>3. IncidentTo(t, p) = out \union in
  BY DEF IncidentTo
<1>4. out \in SUBSET DOMAIN t.edges /\ in \in SUBSET DOMAIN t.edges
  OBVIOUS
<1> HIDE DEF out, in, youngest
<1> QED
  BY <1>1, <1>2, <1>3, <1>4

(* When one of the edges of a node goes, it has one less.                   *)
LEMMA OneIncidentLess ==
  ASSUME NEW t \in Arena, NEW p, NEW i \in IncidentTo(t, p)
  PROVE  /\ Cardinality(IncidentTo(t, p)) \in Nat
         /\ Cardinality(IncidentTo(RemoveEdge(t, i), p)) = Cardinality(IncidentTo(t, p)) - 1
<1> DEFINE h == RemoveEdge(t, i)
           n == Len(t.edges)
           I == IncidentTo(t, p)
           J == IncidentTo(h, p)
           from == [j \in J |-> CameFrom(n, i, j)]
<1>1. i \in DOMAIN t.edges /\ I \subseteq DOMAIN t.edges /\ i \in I
  BY DEF IncidentTo
<1>2. /\ h \in Arena /\ n \in Nat /\ i \in 1 .. n /\ DOMAIN h.edges = 1 .. (n - 1)
      /\ \A j \in 1 .. (n - 1) : SameEdge(h.edges[j], t.edges[CameFrom(n, i, j)])
  BY <1>1, EdgeRemoved
<1>3. DOMAIN t.edges = 1 .. n /\ IsFiniteSet(I)
  BY <1>1, EdgePositions, FS_Subset
<1> HIDE DEF h, n
<1>4. ASSUME NEW j \in 1 .. (n - 1)
      PROVE  /\ CameFrom(n, i, j) \in (1 .. n) \ {i}
             /\ j \in J <=> CameFrom(n, i, j) \in I
  <2>1. CameFrom(n, i, j) \in (1 .. n) \ {i}
    BY <1>2 DEF CameFrom
  <2>2. SameEdge(h.edges[j], t.edges[CameFrom(n, i, j)])
    BY <1>2
  <2> QED
    BY <1>2, <1>3, <2>1, <2>2 DEF IncidentTo, SameEdge
<1>5. IsFiniteSet(J) /\ J \subseteq 1 .. (n - 1)
  <2>1. J \subseteq DOMAIN h.edges
    BY DEF IncidentTo
  <2> QED
    BY <1>2, <2>1, EdgePositions, FS_Subset
<1>6. {from[j] : j \in J} = I \ {i}
  <2>1. ASSUME NEW j \in J PROVE from[j] \in I \ {i}
    BY <1>4, <1>5
  <2>2. ASSUME NEW k \in I \ {i} PROVE \E j \in J : from[j] = k
    <3> DEFINE j == IF k = n THEN i ELSE k
    <3>1. j \in 1 .. (n - 1) /\ CameFrom(n, i, j) = k
      BY <1>1, <1>2, <1>3 DEF CameFrom
    <3> HIDE DEF j
    <3>2. j \in J
      BY <1>4, <3>1
    <3> QED
      BY <3>1, <3>2
  <2> HIDE DEF I, J, from
  <2> QED
    BY <2>1, <2>2
<1>7. \A j, k \in J : from[j] = from[k] => j = k
  <2> SUFFICES ASSUME NEW j \in J, NEW k \in J, CameFrom(n, i, j) = CameFrom(n, i, k)
               PROVE  j = k
    OBVIOUS
  <2>1. j \in 1 .. (n - 1) /\ k \in 1 .. (n - 1)
    BY <1>5
  <2> QED
    BY <1>2, <2>1 DEF CameFrom
<1>8. DOMAIN from = J
  OBVIOUS
<1> HIDE DEF from, J, I
<1>9. Cardinality(I \ {i}) = Cardinality(J)
  <2>1. IsFiniteSet(J)
    BY <1>5
  <2>2. Cardinality({from[j] : j \in J}) = Cardinality(J)
    BY <1>7, <1>8, <2>1, ImageOfInjection
  <2> QED
    BY <1>6, <2>2
<1>10. Cardinality(I \ {i}) = Cardinality(I) - 1 /\ Cardinality(I) \in Nat
  BY <1>1, <1>3, FS_RemoveElement, FS_CardinalityType
<1> QED
  BY <1>9, <1>10 DEF I, J, h

(* On the way: only edges of the node are gone.                             *)
Bared(u, t, p) ==
  /\ u \in Arena
  /\ SameButEdges(u, t)
  /\ \A k \in DOMAIN t.edges \ IncidentTo(t, p) :
       \E j \in DOMAIN u.edges : SameEdge(u.edges[j], t.edges[k])

(* One turn takes one edge of the node.                                     *)
BareTurn(u, p) == RemoveEdge(u, NextEdgeOf(u, p))

(* It leaves one edge less there, and the other edges.                      *)
LEMMA BareTurnKeeps ==
  ASSUME NEW t, NEW p, NEW u, Bared(u, t, p), IncidentTo(u, p) # {}
  PROVE  /\ Bared(BareTurn(u, p), t, p)
         /\ Cardinality(IncidentTo(u, p)) \in Nat
         /\ Cardinality(IncidentTo(BareTurn(u, p), p)) = Cardinality(IncidentTo(u, p)) - 1
<1> DEFINE i == NextEdgeOf(u, p)
           v == RemoveEdge(u, i)
           n == Len(u.edges)
<1>1. u \in Arena /\ SameButEdges(u, t) /\ i \in IncidentTo(u, p)
  BY NextIsIncident DEF Bared
<1>2. i \in DOMAIN u.edges /\ p \in {u.edges[i].from, u.edges[i].to}
  BY <1>1 DEF IncidentTo
<1>3. DOMAIN u.edges = 1 .. n
  BY <1>1, EdgePositions
<1> HIDE DEF i, n
<1>4. /\ v \in Arena /\ SameButEdges(v, u)
      /\ n \in Nat /\ i \in 1 .. n /\ DOMAIN v.edges = 1 .. (n - 1)
      /\ \A j \in 1 .. (n - 1) : SameEdge(v.edges[j], u.edges[CameFrom(n, i, j)])
  BY <1>1, <1>2, EdgeRemoved DEF n
<1>5. /\ Cardinality(IncidentTo(u, p)) \in Nat
      /\ Cardinality(IncidentTo(v, p)) = Cardinality(IncidentTo(u, p)) - 1
  BY <1>1, OneIncidentLess
<1> HIDE DEF v
<1>6. ASSUME NEW k \in DOMAIN t.edges \ IncidentTo(t, p)
      PROVE  \E j \in DOMAIN v.edges : SameEdge(v.edges[j], t.edges[k])
  <2>1. PICK m \in 1 .. n : SameEdge(u.edges[m], t.edges[k])
    BY <1>3 DEF Bared
  <2>2. p \notin {t.edges[k].from, t.edges[k].to}
    BY DEF IncidentTo
  <2>3. m # i
    BY <1>2, <2>1, <2>2 DEF SameEdge
  <2> DEFINE j == IF m = n THEN i ELSE m
  <2>4. j \in 1 .. (n - 1) /\ CameFrom(n, i, j) = m
    BY <1>4, <2>1, <2>3 DEF CameFrom
  <2> HIDE DEF j
  <2>5. SameEdge(v.edges[j], u.edges[m])
    BY <1>4, <2>4
  <2>6. SameEdge(v.edges[j], t.edges[k])
    BY <2>1, <2>5 DEF SameEdge
  <2> QED
    BY <1>4, <2>4, <2>6
<1>7. SameButEdges(v, t)
  BY <1>1, <1>4 DEF SameButEdges
<1>8. BareTurn(u, p) = v
  BY DEF BareTurn, v, i
<1> QED
  BY <1>4, <1>5, <1>6, <1>7, <1>8 DEF Bared

(* In the end none of the node's edges is left.                             *)
LEMMA EdgesOfRemoved ==
  ASSUME NEW t \in Arena, NEW p
  PROVE  Bared(RemoveEdgesOf(t, p), t, p) /\ IncidentTo(RemoveEdgesOf(t, p), p) = {}
<1> DEFINE I == IncidentTo(t, p)
           T == {u \in Arena : Bared(u, t, p)}
           some(a) == CHOOSE x \in a : TRUE
           pick == [a \in SUBSET I |-> some(a)]
           turn(u) == IF IncidentTo(u, p) # {} THEN BareTurn(u, p) ELSE u
           step == [q \in I \X T |-> turn(q[2])]
           Solves(F) == F = [a \in SUBSET I |-> IF a = {} THEN t ELSE BareTurn(F[a \ {some(a)}], p)]
           left(u) == Cardinality(IncidentTo(u, p))
<1>1. t \in T
  <2>1. ASSUME NEW k \in DOMAIN t.edges PROVE \E j \in DOMAIN t.edges : SameEdge(t.edges[j], t.edges[k])
    BY DEF SameEdge
  <2> QED
    BY <2>1 DEF Bared, SameButEdges
<1>2. IsFiniteSet(I) /\ Cardinality(I) \in Nat
  <2>1. I \subseteq DOMAIN t.edges
    BY DEF IncidentTo
  <2> HIDE DEF I
  <2> QED
    BY <2>1, EdgePositions, FS_Subset, FS_CardinalityType
<1>3. \A a \in SUBSET I : a # {} => some(a) \in a
  OBVIOUS
<1> HIDE DEF some
<1>4. ASSUME NEW F, F[{}] = t,
             \A a \in SUBSET I : a # {} /\ IncidentTo(F[a \ {some(a)}], p) # {}
                                   => F[a] = BareTurn(F[a \ {some(a)}], p)
      PROVE  \A a \in SUBSET I : F[a] \in T /\ left(F[a]) = Cardinality(I) - Cardinality(a)
  <2> DEFINE Good(a) == F[a] \in T /\ left(F[a]) = Cardinality(I) - Cardinality(a)
             Bad == {a \in SUBSET I : ~Good(a)}
  <2>1. SUFFICES ASSUME Bad # {} PROVE FALSE
    OBVIOUS
  <2>2. PICK a \in Bad : \A b \in Bad : b \subseteq a => b = a
    <3>1. Bad \in SUBSET (SUBSET I)
      OBVIOUS
    <3> HIDE DEF Bad, I
    <3> QED
      BY <1>2, <2>1, <3>1, SmallestSet
  <2>3. a \in SUBSET I /\ ~Good(a)
    OBVIOUS
  <2>4. CASE a = {}
    <3>1. Cardinality({}) = 0
      BY FS_EmptySet
    <3>2. Good({})
      <4> HIDE DEF T
      <4> QED
        BY <1>1, <1>2, <1>4, <3>1
    <3> QED
      BY <2>3, <2>4, <3>2
  <2>5. CASE a # {}
    <3> DEFINE b == a \ {some(a)}
    <3>1. some(a) \in a /\ b \in SUBSET I /\ b \subseteq a /\ b # a
      BY <1>3, <2>3, <2>5
    <3>2. Good(b)
      <4> HIDE DEF Good, b
      <4> QED
        BY <2>2, <3>1
    <3>3. /\ IsFiniteSet(a) /\ Cardinality(b) = Cardinality(a) - 1
          /\ Cardinality(a) \in Nat /\ Cardinality(a) <= Cardinality(I)
      <4>1. IsFiniteSet(a) /\ Cardinality(a) <= Cardinality(I)
        <5> HIDE DEF I
        <5> QED
          BY <1>2, <2>3, FS_Subset
      <4> QED
        BY <3>1, <4>1, FS_RemoveElement, FS_CardinalityType
    <3> HIDE DEF b, I
    <3>4. Bared(F[b], t, p) /\ left(F[b]) = Cardinality(I) - Cardinality(b)
      BY <3>2
    <3>5. IncidentTo(F[b], p) # {}
      <4>1. left(F[b]) # 0
        BY <1>2, <3>3, <3>4
      <4> QED
        BY <4>1, FS_EmptySet
    <3>6. F[a] = BareTurn(F[b], p)
      BY <1>4, <2>3, <2>5, <3>5 DEF b
    <3>7. /\ Bared(BareTurn(F[b], p), t, p)
          /\ left(BareTurn(F[b], p)) = left(F[b]) - 1
      BY <3>4, <3>5, BareTurnKeeps
    <3>8. F[a] \in T
      BY <3>6, <3>7 DEF Bared
    <3>9. left(F[a]) = Cardinality(I) - Cardinality(a)
      <4> HIDE DEF left
      <4> QED
        BY <1>2, <3>3, <3>4, <3>6, <3>7
    <3> QED
      BY <2>3, <3>8, <3>9
  <2> QED
    BY <2>4, <2>5
<1>5. PICK f : Recursion(f, I, t, pick, step) /\ \A a \in SUBSET I : f[a] \in T
  <2>1. Chooses(pick, I)
    BY <1>3 DEF Chooses
  <2>2. ASSUME NEW i \in I, NEW u \in T PROVE step[<<i, u>>] \in T
    <3>1. step[<<i, u>>] = turn(u)
      <4> HIDE DEF turn, T
      <4> QED
        OBVIOUS
    <3>2. turn(u) \in T
      <4>1. CASE IncidentTo(u, p) # {}
        <5>1. Bared(BareTurn(u, p), t, p)
          BY <4>1, BareTurnKeeps
        <5> QED
          BY <4>1, <5>1 DEF Bared
      <4>2. CASE IncidentTo(u, p) = {}
        BY <4>2
      <4> QED
        BY <4>1, <4>2
    <3> QED
      BY <3>1, <3>2
  <2> HIDE DEF step, pick, T, I
  <2>3. Closed(step, I, T)
    BY <2>2 DEF Closed
  <2> QED
    BY <1>1, <1>2, <2>1, <2>3, RecursionExists
<1>6. ASSUME NEW a \in SUBSET I, a # {}
      PROVE  f[a] = turn(f[a \ {some(a)}])
  <2>1. pick[a] = some(a) /\ some(a) \in I
    BY <1>3, <1>6
  <2>2. f[a \ {some(a)}] \in T
    <3> HIDE DEF T
    <3> QED
      BY <1>5
  <2>3. step[<<some(a), f[a \ {some(a)}]>>] = turn(f[a \ {some(a)}])
    <3> HIDE DEF turn, T
    <3> QED
      BY <2>1, <2>2
  <2> HIDE DEF step, pick, T, turn
  <2> QED
    BY <1>5, <1>6, <2>1, <2>3 DEF Recursion
<1>7. Solves(f)
  <2>1. f[{}] = t /\ f = [a \in SUBSET I |-> f[a]]
    <3> HIDE DEF step, pick, T
    <3> QED
      BY <1>5 DEF Recursion
  <2>2. \A a \in SUBSET I : left(f[a]) = Cardinality(I) - Cardinality(a)
    <3> HIDE DEF T, left, I
    <3> QED
      BY <1>4, <1>6, <2>1
  <2>3. ASSUME NEW a \in SUBSET I, a # {}
        PROVE  f[a] = BareTurn(f[a \ {some(a)}], p)
    <3> DEFINE b == a \ {some(a)}
    <3>1. some(a) \in a /\ b \in SUBSET I
      BY <1>3, <2>3
    <3>2. IsFiniteSet(a) /\ Cardinality(a) <= Cardinality(I)
      <4> HIDE DEF I
      <4> QED
        BY <1>2, FS_Subset
    <3>3. Cardinality(b) = Cardinality(a) - 1 /\ Cardinality(a) \in Nat
      BY <3>1, <3>2, FS_RemoveElement, FS_CardinalityType
    <3>4. left(f[b]) # 0
      <4> HIDE DEF left, b, I
      <4> QED
        BY <1>2, <2>2, <3>1, <3>2, <3>3
    <3>5. IncidentTo(f[b], p) # {}
      BY <3>4, FS_EmptySet
    <3> QED
      BY <1>6, <2>3, <3>5
  <2> HIDE DEF I
  <2> QED
    BY <2>1, <2>3
<1>8. RemoveEdgesOf(t, p) = (CHOOSE F : Solves(F))[I]
  BY DEF RemoveEdgesOf, FoldSet, MapThenFoldSet, BareTurn, some
<1>9. PICK F : Solves(F) /\ RemoveEdgesOf(t, p) = F[I]
  <2> HIDE DEF Solves
  <2> QED
    BY <1>7, <1>8
<1>10. F[I] \in T /\ left(F[I]) = Cardinality(I) - Cardinality(I)
  <2>1. F[{}] = t
    BY <1>9
  <2>2. \A a \in SUBSET I : a # {} /\ IncidentTo(F[a \ {some(a)}], p) # {}
                              => F[a] = BareTurn(F[a \ {some(a)}], p)
    BY <1>9
  <2> HIDE DEF T, left, I, Solves
  <2> QED
    BY <1>4, <2>1, <2>2
<1>11. IncidentTo(F[I], p) = {}
  <2>1. IsFiniteSet(IncidentTo(F[I], p))
    <3>1. F[I] \in Arena /\ IncidentTo(F[I], p) \subseteq DOMAIN F[I].edges
      BY <1>10 DEF IncidentTo
    <3> QED
      BY <3>1, EdgePositions, FS_Subset
  <2>2. left(F[I]) = 0
    <3> HIDE DEF left, I, T
    <3> QED
      BY <1>2, <1>10
  <2> QED
    BY <2>1, <2>2, FS_EmptySet
<1> QED
  BY <1>9, <1>10, <1>11

(* Graphs that differ in their arenas only.                                 *)
SameMaps(h, g) ==
  /\ h.nodeIndex = g.nodeIndex /\ h.nameIndex = g.nameIndex /\ h.fileIndex = g.fileIndex
  /\ h.symbols = g.symbols /\ h.aliasChains = g.aliasChains /\ h.reexports = g.reexports

(* remove_node takes the node at a position and its edges away, moves the   *)
(* last node into its place, and leaves every other edge as it looked.      *)
LEMMA NodeRemoved ==
  ASSUME NEW t \in Arena, NEW p \in DOMAIN t.nodes
  PROVE  LET h == RemoveNode(t, p)
             n == Len(t.nodes)
         IN  /\ h \in Arena
             /\ SameMaps(h, t)
             /\ n \in Nat /\ p \in 1 .. n /\ Len(h.nodes) = n - 1 /\ DOMAIN h.nodes = 1 .. (n - 1)
             /\ \A j \in 1 .. (n - 1) : h.nodes[j] = t.nodes[CameFrom(n, p, j)]
             /\ \A x \in EdgeView(t) : t.nodes[p] \notin {x.from, x.to} => x \in EdgeView(h)
<1> DEFINE h == RemoveNode(t, p)
           n == Len(t.nodes)
           b == RemoveEdgesOf(t, p)
           moved(i) == IF i = n THEN p ELSE i
           nodes == SwapRemove(t.nodes, p)
           edges == [j \in DOMAIN b.edges |->
                       [b.edges[j] EXCEPT !.from = moved(@), !.to = moved(@)]]
<1>1. t \in Graphs /\ IsRecord(t) /\ Typed(t) /\ EdgesInArena(t)
  BY GraphParts DEF Arena
<1>2. /\ n \in Nat /\ DOMAIN t.nodes = 1 .. n /\ p \in 1 .. n
      /\ \A j \in 1 .. n : t.nodes[j] \in Nodes
  <2>1. t.nodes \in Seq(Nodes)
    BY <1>1 DEF Typed
  <2> QED
    BY <2>1
<1>3. Bared(b, t, p) /\ IncidentTo(b, p) = {}
  BY EdgesOfRemoved
<1>4. b \in Arena /\ SameButEdges(b, t) /\ IsRecord(b) /\ Typed(b) /\ EdgesInArena(b)
  BY <1>3, GraphParts DEF Bared, Arena
<1>5. h = [b EXCEPT !.nodes = SwapRemove(b.nodes, p), !.edges = edges]
  <2>1. ~(p > Len(t.nodes))
    BY <1>2
  <2> HIDE DEF b
  <2>2. RemoveEdgesOf(t, p) = b
    BY DEF b
  <2> QED
    BY <2>1, <2>2 DEF RemoveNode
<1> HIDE DEF b
<1>6. /\ DOMAIN b.edges = 1 .. Len(b.edges) /\ Len(b.edges) \in Nat
      /\ \A j \in DOMAIN b.edges : b.edges[j] \in Edges
  BY <1>4, EdgePositions
<1>7. ASSUME NEW j \in DOMAIN b.edges
      PROVE  /\ b.edges[j].from \in (1 .. n) \ {p}
             /\ b.edges[j].to \in (1 .. n) \ {p}
  <2>1. p \notin {b.edges[j].from, b.edges[j].to}
    BY <1>3 DEF IncidentTo
  <2>2. b.edges[j] \in Range(b.edges)
    BY DEF Range
  <2>3. {b.edges[j].from, b.edges[j].to} \subseteq DOMAIN t.nodes
    BY <1>4, <2>2 DEF EdgesInArena, SameButEdges
  <2> QED
    BY <1>2, <2>1, <2>3
<1>8. ASSUME NEW i \in (1 .. n) \ {p}
      PROVE  moved(i) \in 1 .. (n - 1) /\ CameFrom(n, p, moved(i)) = i /\ moved(i) \in Nat
  BY <1>2 DEF CameFrom
<1>9. nodes = [j \in 1 .. (n - 1) |-> IF j = p THEN t.nodes[n] ELSE t.nodes[j]]
  <2>1. ~(p > Len(t.nodes))
    BY <1>2
  <2> QED
    BY <2>1 DEF SwapRemove
<1> HIDE DEF nodes, moved
<1>10. /\ DOMAIN nodes = 1 .. (n - 1) /\ nodes = [j \in 1 .. (n - 1) |-> nodes[j]]
       /\ \A j \in 1 .. (n - 1) : nodes[j] = t.nodes[CameFrom(n, p, j)]
  BY <1>9 DEF CameFrom
<1>11. nodes \in Seq(Nodes) /\ Len(nodes) = n - 1
  <2>1. n - 1 \in Nat
    BY <1>2
  <2>2. ASSUME NEW j \in 1 .. (n - 1) PROVE nodes[j] \in Nodes
    <3>1. CameFrom(n, p, j) \in 1 .. n
      BY <1>2 DEF CameFrom
    <3> QED
      BY <1>2, <1>10, <3>1
  <2>3. nodes \in [1 .. (n - 1) -> Nodes]
    BY <1>10, <2>2
  <2> QED
    BY <2>1, <2>3
<1>12. ASSUME NEW j \in DOMAIN b.edges
       PROVE  LET e == b.edges[j]
              IN  /\ edges[j] \in Edges
                  /\ edges[j].from = moved(e.from) /\ edges[j].to = moved(e.to)
                  /\ edges[j].kind = e.kind /\ edges[j].alias = e.alias /\ edges[j].file = e.file
  <2> DEFINE e == b.edges[j]
  <2>1. e \in Edges /\ moved(e.from) \in Nat /\ moved(e.to) \in Nat
    BY <1>6, <1>7, <1>8
  <2>2. edges[j] = [e EXCEPT !.from = moved(e.from), !.to = moved(e.to)]
    OBVIOUS
  <2> HIDE DEF e, edges
  <2>3. edges[j] \in Edges
    BY <2>1, <2>2 DEF Edges
  <2>4. /\ edges[j].from = moved(e.from) /\ edges[j].to = moved(e.to)
        /\ edges[j].kind = e.kind /\ edges[j].alias = e.alias /\ edges[j].file = e.file
    BY <2>1, <2>2 DEF Edges
  <2> QED
    BY <2>3, <2>4 DEF e
<1>13. DOMAIN edges = DOMAIN b.edges /\ edges = [j \in DOMAIN b.edges |-> edges[j]]
  OBVIOUS
<1> HIDE DEF edges
<1>14. edges \in Seq(Edges)
  <2>1. edges \in [1 .. Len(b.edges) -> Edges]
    BY <1>6, <1>12, <1>13
  <2> QED
    BY <1>6, <2>1
<1>15. IsRecord(h)
  BY <1>4, <1>5 DEF IsRecord, Fields
<1>16. h.nodes = nodes /\ h.edges = edges /\ SameMaps(h, t)
  <2>1. b.nodes = t.nodes
    BY <1>4 DEF SameButEdges
  <2>2. h.nodes = SwapRemove(b.nodes, p) /\ h.edges = edges /\ SameMaps(h, b)
    BY <1>4, <1>5 DEF IsRecord, Fields, SameMaps
  <2> QED
    BY <1>4, <2>1, <2>2 DEF nodes, SameMaps, SameButEdges
<1> HIDE DEF h, n
<1>17. h \in Graphs
  BY <1>1, <1>11, <1>14, <1>15, <1>16, GraphOfParts DEF Typed, SameMaps
<1>18. EdgesInArena(h)
  <2> SUFFICES ASSUME NEW e \in Range(h.edges) PROVE {e.from, e.to} \subseteq DOMAIN h.nodes
    BY DEF EdgesInArena
  <2>1. PICK j \in DOMAIN b.edges : e = edges[j]
    BY <1>13, <1>16 DEF Range
  <2>2. e.from = moved(b.edges[j].from) /\ e.to = moved(b.edges[j].to)
    BY <1>12, <2>1
  <2>3. e.from \in 1 .. (n - 1) /\ e.to \in 1 .. (n - 1)
    BY <1>7, <1>8, <2>2
  <2> QED
    BY <1>10, <1>16, <2>3
<1>19. ASSUME NEW x \in EdgeView(t), t.nodes[p] \notin {x.from, x.to}
       PROVE  x \in EdgeView(h)
  <2>1. PICK k \in DOMAIN t.edges : x = View(t, t.edges[k])
    BY ViewAt
  <2>2. k \notin IncidentTo(t, p)
    BY <1>19, <2>1 DEF IncidentTo, View
  <2>3. PICK j \in DOMAIN b.edges : SameEdge(b.edges[j], t.edges[k])
    BY <1>3, <2>2 DEF Bared
  <2> DEFINE e == b.edges[j]
  <2>4. /\ moved(e.from) \in 1 .. (n - 1) /\ CameFrom(n, p, moved(e.from)) = e.from
        /\ moved(e.to) \in 1 .. (n - 1) /\ CameFrom(n, p, moved(e.to)) = e.to
    BY <1>7, <1>8
  <2>5. nodes[moved(e.from)] = t.nodes[e.from] /\ nodes[moved(e.to)] = t.nodes[e.to]
    BY <1>10, <2>4
  <2>6. View(h, edges[j]) = x
    BY <1>12, <1>16, <2>1, <2>3, <2>5 DEF View, SameEdge
  <2> QED
    BY <1>13, <1>16, <2>6, ViewAt
<1> QED
  BY <1>2, <1>10, <1>11, <1>16, <1>17, <1>18, <1>19 DEF Arena, h, n

-----------------------------------------------------------------------------
(* Removing the symbols of a file.                                          *)

(* A map with a key less.                                                   *)
IsDelete(h, m, k) ==
  /\ DOMAIN h = DOMAIN m \ {k}
  /\ \A x \in DOMAIN m \ {k} : h[x] = m[x]

(* Deleting a key leaves the other entries as they were.                    *)
LEMMA DeleteMaps ==
  ASSUME NEW K, NEW V, NEW m \in Maps(K, V), NEW k
  PROVE  Delete(m, k) \in Maps(K, V) /\ IsDelete(Delete(m, k), m, k)
<1>1. PICK D0 \in SUBSET K : m \in [D0 -> V]
  BY DEF Maps
<1>2. DOMAIN m = D0
  BY <1>1
<1>3. Delete(m, k) = [x \in D0 \ {k} |-> m[x]]
  BY <1>2 DEF Delete, Restrict
<1>4. D0 \ {k} \in SUBSET K /\ Delete(m, k) \in [D0 \ {k} -> V]
  BY <1>1, <1>3
<1>5. Delete(m, k) \in Maps(K, V)
  BY <1>4 DEF Maps
<1> QED
  BY <1>2, <1>3, <1>5 DEF IsDelete

(* Every id with the file f, declared or not.                               *)
IdsOf(f) == {f} \X Labels

(* An id of a file has its file and name.                                   *)
LEMMA IdsOfFile ==
  ASSUME NEW f \in Files, NEW id \in IdsOf(f)
  PROVE  id \in Declared /\ id \in Nodes /\ FileOf(id) = f /\ NameOf(id) \in Names
<1>1. id \in Declared /\ id[1] = f /\ id[2] \in Labels
  BY DEF IdsOf, Declared
<1>2. id \notin External
  BY <1>1, IdsAssumption
<1> QED
  BY <1>1, <1>2 DEF FileOf, NameOf, Names, Nodes

(* No two positions have the same node.                                     *)
Distinct(g) == \A i, j \in DOMAIN g.nodes : g.nodes[i] = g.nodes[j] => i = j

(* A position that went stale leads past the end, never to another node.    *)
StaleIsPastTheEnd(g) ==
  \A id \in DOMAIN g.nodeIndex :
    /\ g.nodeIndex[id] \in Nat \ {0}
    /\ g.nodeIndex[id] \in DOMAIN g.nodes => g.nodes[g.nodeIndex[id]] = id

NamesSound(g) ==
  \A n \in DOMAIN g.nameIndex : g.nameIndex[n] \subseteq {id \in g.symbols : NameOf(id) = n}

(* What the other files have.                                               *)
Spared(t, g, f) ==
  /\ \A id \in g.symbols \ IdsOf(f) : id \in t.symbols
  /\ \A id \in Range(g.nodes) \ IdsOf(f) : id \in Range(t.nodes)
  /\ \A x \in EdgeView(g) : x.from \notin IdsOf(f) /\ x.to \notin IdsOf(f) => x \in EdgeView(t)

(* A graph while the symbols of file f are removed from g.                  *)
Shedding(g, f) ==
  {t \in Arena : /\ Distinct(t) /\ StaleIsPastTheEnd(t) /\ NamesSound(t)
                 /\ t.symbols \subseteq Range(t.nodes)
                 /\ t.fileIndex = g.fileIndex /\ t.reexports = g.reexports
                 /\ Spared(t, g, f)}

(* A symbol's entries are taken from the maps, before its node is.          *)
Forget(g, id) ==
  [g EXCEPT
     !.symbols = @ \ {id},
     !.nameIndex =
        IF id \in g.symbols /\ NameOf(id) \in DOMAIN @
          THEN Put(@, NameOf(id), @[NameOf(id)] \ {id}) ELSE @,
     !.nodeIndex = Delete(@, id),
     !.aliasChains = Delete(@, id)]

(* What forgetting a symbol leaves of the graph.                            *)
LEMMA Forgotten ==
  ASSUME NEW t \in Arena, NamesSound(t), NEW f \in Files, NEW id \in IdsOf(f)
  PROVE  LET h == Forget(t, id)
         IN  /\ h \in Arena /\ NamesSound(h)
             /\ h.nodes = t.nodes /\ h.edges = t.edges /\ h.fileIndex = t.fileIndex
             /\ h.reexports = t.reexports
             /\ h.symbols = t.symbols \ {id}
             /\ DOMAIN h.nodeIndex = DOMAIN t.nodeIndex \ {id}
             /\ \A x \in DOMAIN t.nodeIndex \ {id} : h.nodeIndex[x] = t.nodeIndex[x]
<1> DEFINE h == Forget(t, id)
           k == NameOf(id)
           names == IF id \in t.symbols /\ k \in DOMAIN t.nameIndex
                      THEN Put(t.nameIndex, k, t.nameIndex[k] \ {id}) ELSE t.nameIndex
<1>1. IsRecord(t) /\ Typed(t) /\ EdgesInArena(t)
  BY GraphParts DEF Arena
<1>2. IsRecord(h)
  BY <1>1 DEF IsRecord, Fields, Forget
<1>3. /\ h.nodes = t.nodes /\ h.edges = t.edges /\ h.fileIndex = t.fileIndex
      /\ h.reexports = t.reexports
      /\ h.symbols = t.symbols \ {id}
      /\ h.nameIndex = names
      /\ h.nodeIndex = Delete(t.nodeIndex, id)
      /\ h.aliasChains = Delete(t.aliasChains, id)
  BY <1>1 DEF IsRecord, Fields, Forget
<1>4. k \in NameKeys /\ NameOf(id) = k
  BY IdsOfFile DEF NameKeys
<1> HIDE DEF h, k
<1>5. /\ h.nodeIndex \in Maps(Nodes, Nat)
      /\ DOMAIN h.nodeIndex = DOMAIN t.nodeIndex \ {id}
      /\ \A x \in DOMAIN t.nodeIndex \ {id} : h.nodeIndex[x] = t.nodeIndex[x]
  <2> DEFINE V == Nat
             m == t.nodeIndex
  <2>1. m \in Maps(Nodes, V)
    BY <1>1 DEF Typed
  <2> HIDE DEF m, V
  <2>2. Delete(m, id) \in Maps(Nodes, V) /\ IsDelete(Delete(m, id), m, id)
    BY <2>1, DeleteMaps
  <2> QED
    BY <1>3, <2>2 DEF IsDelete, m, V
<1>6. h.aliasChains \in Maps(Ids, SUBSET ChainEntries)
  <2> DEFINE V == SUBSET ChainEntries
  <2>1. t.aliasChains \in Maps(Ids, V)
    BY <1>1 DEF Typed
  <2> HIDE DEF V
  <2>2. Delete(t.aliasChains, id) \in Maps(Ids, V)
    BY <2>1, DeleteMaps
  <2> QED
    BY <1>3, <2>2 DEF V
<1>7. names \in Maps(NameKeys, SUBSET Nodes) /\ NamesSound(h)
  <2>1. CASE id \in t.symbols /\ k \in DOMAIN t.nameIndex
    <3> DEFINE V == SUBSET Nodes
               less == t.nameIndex[k] \ {id}
    <3>1. t.nameIndex \in Maps(NameKeys, V)
      BY <1>1 DEF Typed
    <3>2. less \in V
      BY <2>1, <3>1 DEF Maps
    <3> HIDE DEF V, less
    <3>3. /\ Put(t.nameIndex, k, less) \in Maps(NameKeys, V)
          /\ IsPut(Put(t.nameIndex, k, less), t.nameIndex, k, less)
      BY <1>4, <3>1, <3>2, PutMaps
    <3>4. names = Put(t.nameIndex, k, less)
      BY <2>1 DEF less
    <3>5. /\ DOMAIN h.nameIndex = DOMAIN t.nameIndex \union {k}
          /\ h.nameIndex[k] = less
          /\ \A x \in DOMAIN t.nameIndex \ {k} : h.nameIndex[x] = t.nameIndex[x]
      BY <1>3, <3>3, <3>4 DEF IsPut
    <3>6. NamesSound(h)
      <4> SUFFICES ASSUME NEW n \in DOMAIN h.nameIndex, NEW y \in h.nameIndex[n]
                   PROVE  y \in h.symbols /\ NameOf(y) = n
        BY DEF NamesSound
      <4>1. CASE n = k
        <5>1. y \in t.nameIndex[k] /\ y # id
          BY <3>5, <4>1 DEF less
        <5> QED
          BY <1>3, <2>1, <4>1, <5>1 DEF NamesSound
      <4>2. CASE n # k
        <5>1. n \in DOMAIN t.nameIndex /\ y \in t.nameIndex[n]
          BY <3>5, <4>2
        <5>2. y \in t.symbols /\ NameOf(y) = n
          BY <5>1 DEF NamesSound
        <5> QED
          BY <1>3, <1>4, <4>2, <5>2
      <4> QED
        BY <4>1, <4>2
    <3> QED
      BY <3>3, <3>4, <3>6 DEF V
  <2>2. CASE ~(id \in t.symbols /\ k \in DOMAIN t.nameIndex)
    <3>1. names = t.nameIndex
      BY <2>2
    <3> HIDE DEF names
    <3>2. NamesSound(h)
      <4> SUFFICES ASSUME NEW n \in DOMAIN t.nameIndex, NEW y \in t.nameIndex[n]
                   PROVE  y \in h.symbols /\ NameOf(y) = n
        BY <1>3, <3>1 DEF NamesSound
      <4>1. y \in t.symbols /\ NameOf(y) = n
        BY DEF NamesSound
      <4> QED
        BY <1>3, <1>4, <2>2, <4>1
    <3> QED
      BY <1>1, <3>1, <3>2 DEF Typed
  <2> QED
    BY <2>1, <2>2
<1>8. h \in Graphs
  BY <1>1, <1>2, <1>3, <1>5, <1>6, <1>7, GraphOfParts DEF Typed
<1>9. EdgesInArena(h)
  BY <1>1, <1>3 DEF EdgesInArena
<1> QED
  BY <1>3, <1>5, <1>7, <1>8, <1>9 DEF Arena, h

(* One turn of the loop: what is forgotten takes its own node along, or     *)
(* leaves it where a stale position does not find it; no neighbour goes.    *)
LEMMA SymbolShed ==
  ASSUME NEW g, NEW f \in Files, NEW t \in Shedding(g, f), NEW id \in IdsOf(f)
  PROVE  RemoveSymbol(t, id) \in Shedding(g, f)
<1> DEFINE h == Forget(t, id)
           p == t.nodeIndex[id]
           u == RemoveSymbol(t, id)
<1>1. /\ t \in Arena /\ Distinct(t) /\ StaleIsPastTheEnd(t) /\ NamesSound(t)
      /\ t.symbols \subseteq Range(t.nodes)
      /\ t.fileIndex = g.fileIndex /\ t.reexports = g.reexports
      /\ Spared(t, g, f)
  BY DEF Shedding
<1>2. /\ h \in Arena /\ NamesSound(h)
      /\ h.nodes = t.nodes /\ h.edges = t.edges /\ h.fileIndex = t.fileIndex
      /\ h.reexports = t.reexports
      /\ h.symbols = t.symbols \ {id}
      /\ DOMAIN h.nodeIndex = DOMAIN t.nodeIndex \ {id}
      /\ \A x \in DOMAIN t.nodeIndex \ {id} : h.nodeIndex[x] = t.nodeIndex[x]
  BY <1>1, Forgotten
<1>3. u = IF id \in DOMAIN t.nodeIndex THEN RemoveNode(h, p) ELSE h
  BY DEF RemoveSymbol, Forget
<1>4. DOMAIN t.nodes = 1 .. Len(t.nodes) /\ Len(t.nodes) \in Nat
  <2>1. t.nodes \in Seq(Nodes)
    BY <1>1, GraphParts DEF Arena, Typed
  <2> QED
    BY <2>1
<1>5. EdgeView(h) = EdgeView(t)
  BY <1>2 DEF EdgeView
<1> HIDE DEF h, u
<1>6. h \in Shedding(g, f)
  <2>1. Distinct(h) /\ h.symbols \subseteq Range(h.nodes)
    BY <1>1, <1>2 DEF Distinct
  <2>2. StaleIsPastTheEnd(h)
    BY <1>1, <1>2 DEF StaleIsPastTheEnd
  <2>3. Spared(h, g, f)
    BY <1>1, <1>2, <1>5 DEF Spared
  <2> QED
    BY <1>1, <1>2, <2>1, <2>2, <2>3 DEF Shedding
<1>7. CASE id \notin DOMAIN t.nodeIndex
  BY <1>3, <1>6, <1>7 DEF u
<1>8. CASE id \in DOMAIN t.nodeIndex /\ p \notin DOMAIN t.nodes
  <2>1. p \in Nat \ {0}
    BY <1>1, <1>8 DEF StaleIsPastTheEnd
  <2>2. p > Len(h.nodes)
    BY <1>2, <1>4, <1>8, <2>1
  <2>3. RemoveNode(h, p) = h
    BY <2>2 DEF RemoveNode
  <2> QED
    BY <1>3, <1>6, <1>8, <2>3 DEF u
<1>9. CASE id \in DOMAIN t.nodeIndex /\ p \in DOMAIN t.nodes
  <2> DEFINE n == Len(t.nodes)
  <2>1. t.nodes[p] = id
    BY <1>1, <1>9 DEF StaleIsPastTheEnd
  <2>2. u = RemoveNode(h, p)
    BY <1>3, <1>9
  <2> HIDE DEF p, n
  <2>3. /\ u \in Arena
        /\ SameMaps(u, h)
        /\ n \in Nat /\ p \in 1 .. n /\ DOMAIN u.nodes = 1 .. (n - 1)
        /\ \A j \in 1 .. (n - 1) : u.nodes[j] = h.nodes[CameFrom(n, p, j)]
        /\ \A x \in EdgeView(h) : h.nodes[p] \notin {x.from, x.to} => x \in EdgeView(u)
    BY <1>2, <1>9, <2>2, NodeRemoved DEF n
  <2>4. DOMAIN t.nodes = 1 .. n
    BY <1>4 DEF n
  <2>5. ASSUME NEW j \in 1 .. (n - 1)
        PROVE  /\ CameFrom(n, p, j) \in (1 .. n) \ {p}
               /\ u.nodes[j] = t.nodes[CameFrom(n, p, j)]
    BY <1>2, <2>3 DEF CameFrom
  <2>6. Distinct(u)
    <3> SUFFICES ASSUME NEW i \in 1 .. (n - 1), NEW j \in 1 .. (n - 1), u.nodes[i] = u.nodes[j]
                 PROVE  i = j
      BY <2>3 DEF Distinct
    <3>1. CameFrom(n, p, i) = CameFrom(n, p, j)
      BY <1>1, <2>4, <2>5 DEF Distinct
    <3>2. n \in Nat /\ p \in 1 .. n /\ i \in 1 .. (n - 1) /\ j \in 1 .. (n - 1)
      BY <2>3
    <3> QED
      BY <3>1, <3>2 DEF CameFrom
  <2>7. \A x \in Range(t.nodes) \ {id} : x \in Range(u.nodes)
    <3> SUFFICES ASSUME NEW x \in Range(t.nodes), x # id PROVE x \in Range(u.nodes)
      OBVIOUS
    <3>1. PICK k \in 1 .. n : x = t.nodes[k]
      BY <2>4 DEF Range
    <3>2. k # p
      BY <2>1, <3>1
    <3> DEFINE j == IF k = n THEN p ELSE k
    <3>3. j \in 1 .. (n - 1) /\ CameFrom(n, p, j) = k
      BY <2>3, <3>1, <3>2 DEF CameFrom
    <3> HIDE DEF j
    <3>4. u.nodes[j] = x
      BY <2>5, <3>1, <3>3
    <3> QED
      BY <2>3, <3>3, <3>4 DEF Range
  <2>8. StaleIsPastTheEnd(u)
    <3> SUFFICES ASSUME NEW x \in DOMAIN h.nodeIndex
                 PROVE  /\ h.nodeIndex[x] \in Nat \ {0}
                        /\ h.nodeIndex[x] \in DOMAIN u.nodes => u.nodes[h.nodeIndex[x]] = x
      BY <2>3 DEF StaleIsPastTheEnd, SameMaps
    <3> DEFINE q == t.nodeIndex[x]
    <3>1. x \in DOMAIN t.nodeIndex /\ x # id /\ h.nodeIndex[x] = q
      BY <1>2
    <3>2. q \in Nat \ {0} /\ (q \in 1 .. n => t.nodes[q] = x)
      BY <1>1, <2>4, <3>1 DEF StaleIsPastTheEnd
    <3> HIDE DEF q
    <3>3. ASSUME q \in 1 .. (n - 1) PROVE u.nodes[q] = x
      <4>1. q # p /\ q \in 1 .. n
        BY <2>1, <2>3, <3>1, <3>2, <3>3
      <4>2. CameFrom(n, p, q) = q
        BY <4>1 DEF CameFrom
      <4> QED
        BY <2>5, <3>2, <3>3, <4>1, <4>2
    <3> QED
      BY <2>3, <3>1, <3>2, <3>3
  <2>9. NamesSound(u)
    BY <1>2, <2>3 DEF NamesSound, SameMaps
  <2>10. u.symbols \subseteq Range(u.nodes)
    BY <1>1, <1>2, <2>3, <2>7 DEF SameMaps
  <2>11. Spared(u, g, f)
    <3>1. \A x \in g.symbols \ IdsOf(f) : x \in u.symbols
      BY <1>6, <2>3 DEF Shedding, Spared, SameMaps
    <3>2. \A x \in Range(g.nodes) \ IdsOf(f) : x \in Range(u.nodes)
      BY <1>1, <2>7 DEF Spared
    <3>3. \A x \in EdgeView(g) :
             x.from \notin IdsOf(f) /\ x.to \notin IdsOf(f) => x \in EdgeView(u)
      BY <1>1, <1>2, <1>5, <2>1, <2>3 DEF Spared
    <3> QED
      BY <3>1, <3>2, <3>3 DEF Spared
  <2> QED
    BY <1>1, <1>2, <2>3, <2>6, <2>8, <2>9, <2>10, <2>11 DEF Shedding, SameMaps, u
<1> QED
  BY <1>7, <1>8, <1>9

(* The labels of a file's symbols, in their order.                          *)
LEMMA LabelsOfFile ==
  ASSUME NEW g \in Sound, NEW f \in Files
  PROVE  Ascending({id[2] : id \in Lookup(g.fileIndex, f, {})}) \in Seq(Labels)
<1> DEFINE ids == Lookup(g.fileIndex, f, {})
           M == {id[2] : id \in ids}
           of == [id \in ids |-> id[2]]
<1>1. SoundGraph(g) /\ Typed(g)
  BY GraphParts DEF Sound
<1>2. ids \subseteq {id \in g.symbols : FileOf(id) = f}
  BY <1>1 DEF Lookup, SoundGraph, IndexesSound
<1> HIDE DEF ids
<1>3. ASSUME NEW id \in ids PROVE id[2] \in Labels
  <2>1. id \in Nodes /\ FileOf(id) = f
    BY <1>1, <1>2 DEF Typed
  <2>2. id \notin External
    BY <2>1, FilesAssumption DEF FileOf, NoFile
  <2>3. id \in Declared
    BY <2>1, <2>2 DEF Nodes
  <2> QED
    BY <2>3 DEF Declared
<1>4. IsFiniteSet(ids)
  <2> DEFINE D0 == DOMAIN g.nodes
  <2>1. g.nodes \in Seq(Nodes)
    BY <1>1 DEF Typed
  <2>2. D0 = 1 .. Len(g.nodes) /\ Len(g.nodes) \in Nat
    BY <2>1
  <2>3. IsFiniteSet(D0)
    BY <2>2, FS_Interval
  <2> HIDE DEF D0
  <2>4. IsFiniteSet({g.nodes[i] : i \in D0})
    BY <2>3, ImageIsFinite DEF D0
  <2>5. ids \subseteq {g.nodes[i] : i \in D0}
    BY <1>1, <1>2 DEF SoundGraph, Range, D0
  <2> QED
    BY <2>4, <2>5, FS_Subset
<1>5. IsFiniteSet(M)
  <2>1. M = {of[id] : id \in ids} /\ DOMAIN of = ids
    OBVIOUS
  <2> HIDE DEF M, of
  <2> QED
    BY <1>4, <2>1, ImageIsFinite
<1>6. M \subseteq Labels /\ AreNumbers(M)
  BY <1>3, LabelsAssumption DEF AreNumbers
<1> HIDE DEF M
<1>7. Ascending(M) \in Seq(M)
  BY <1>5, <1>6, AscendingIs
<1>8. Ascending(M) \in Seq(Labels)
  BY <1>6, <1>7
<1> QED
  BY <1>8 DEF M, ids

(* A graph without anything removed yet.                                    *)
LEMMA SheddingStarts ==
  ASSUME NEW g \in Sound, NEW f
  PROVE  g \in Shedding(g, f)
<1>1. g \in Graphs /\ SoundGraph(g) /\ Typed(g)
  BY GraphParts DEF Sound
<1>2. DOMAIN g.nodes = 1 .. Len(g.nodes)
  BY <1>1 DEF Typed
<1>3. Distinct(g)
  BY <1>1 DEF Distinct, SoundGraph, NodeIndexExact
<1>4. StaleIsPastTheEnd(g)
  <2> SUFFICES ASSUME NEW id \in DOMAIN g.nodeIndex
               PROVE  g.nodeIndex[id] \in Nat \ {0} /\ g.nodes[g.nodeIndex[id]] = id
    BY DEF StaleIsPastTheEnd
  <2>1. PICK i \in DOMAIN g.nodes : g.nodes[i] = id
    BY <1>1 DEF SoundGraph, NodeIndexExact, Range
  <2>2. g.nodeIndex[id] = i
    BY <1>1, <2>1 DEF SoundGraph, NodeIndexExact
  <2>3. i \in Nat \ {0}
    BY <1>2, <2>1
  <2> QED
    BY <2>1, <2>2, <2>3
<1>5. NamesSound(g) /\ EdgesInArena(g) /\ g.symbols \subseteq Range(g.nodes)
  BY <1>1 DEF SoundGraph, IndexesSound, NamesSound
<1>6. Spared(g, g, f)
  BY DEF Spared
<1> QED
  BY <1>1, <1>3, <1>4, <1>5, <1>6 DEF Shedding, Arena

(* Without the entry of a file.                                             *)
LEMMA FileUnlisted ==
  ASSUME NEW g \in Sound, NEW f
  PROVE  LET m == Delete(g.fileIndex, f)
         IN  m \in Maps(FileKeys, SUBSET Nodes) /\ IsDelete(m, g.fileIndex, f)
<1> DEFINE V == SUBSET Nodes
           files == g.fileIndex
<1>1. files \in Maps(FileKeys, V)
  BY GraphParts DEF Sound, Typed
<1> HIDE DEF V, files
<1>2. Delete(files, f) \in Maps(FileKeys, V) /\ IsDelete(Delete(files, f), files, f)
  BY <1>1, DeleteMaps
<1> QED
  BY <1>2 DEF V, files

(* Afterwards the index is made anew, which leads every position to its     *)
(* own node again.                                                          *)
LEMMA RebuiltIsSound ==
  ASSUME NEW g \in Sound, NEW f \in Files, NEW t \in Shedding(g, f)
  PROVE  LET h == RebuildNodeIndex([t EXCEPT !.fileIndex = Delete(@, f),
                                             !.reexports = @ \ {f}])
         IN  h \in Sound /\ Spared(h, g, f)
<1> DEFINE k == [t EXCEPT !.fileIndex = Delete(@, f), !.reexports = @ \ {f}]
           h == RebuildNodeIndex(k)
           at(id) == CHOOSE i \in DOMAIN k.nodes :
                       /\ k.nodes[i] = id
                       /\ \A j \in DOMAIN k.nodes : k.nodes[j] = id => j <= i
           index == [id \in Range(k.nodes) |-> at(id)]
<1>1. /\ IsRecord(t) /\ Typed(t) /\ EdgesInArena(t)
      /\ Distinct(t) /\ NamesSound(t)
      /\ t.symbols \subseteq Range(t.nodes)
      /\ t.fileIndex = g.fileIndex
      /\ Spared(t, g, f)
  BY GraphParts DEF Shedding, Arena
<1>2. IsRecord(k)
  BY <1>1 DEF IsRecord, Fields
<1>3. /\ k.nodes = t.nodes /\ k.edges = t.edges /\ k.nameIndex = t.nameIndex
      /\ k.symbols = t.symbols /\ k.aliasChains = t.aliasChains
      /\ k.fileIndex = Delete(g.fileIndex, f) /\ k.reexports = t.reexports \ {f}
  BY <1>1 DEF IsRecord, Fields
<1>4. h = [k EXCEPT !.nodeIndex = index]
  BY DEF RebuildNodeIndex
<1> HIDE DEF k
<1>5. DOMAIN k.nodes = 1 .. Len(k.nodes) /\ \A i \in DOMAIN k.nodes : k.nodes[i] \in Nodes
  <2>1. k.nodes \in Seq(Nodes)
    BY <1>1, <1>3 DEF Typed
  <2> QED
    BY <2>1
<1>6. ASSUME NEW i \in DOMAIN k.nodes PROVE at(k.nodes[i]) = i
  <2> DEFINE right(j) == /\ k.nodes[j] = k.nodes[i]
                         /\ \A m \in DOMAIN k.nodes : k.nodes[m] = k.nodes[i] => m <= j
  <2>1. \A j \in DOMAIN k.nodes : k.nodes[j] = k.nodes[i] => j = i
    BY <1>1, <1>3 DEF Distinct
  <2>2. i <= i
    BY <1>5
  <2>3. right(i)
    BY <2>1, <2>2
  <2>4. \A j \in DOMAIN k.nodes : right(j) => j = i
    BY <2>1
  <2>5. at(k.nodes[i]) = CHOOSE j \in DOMAIN k.nodes : right(j)
    OBVIOUS
  <2> HIDE DEF right, at
  <2> QED
    BY <2>3, <2>4, <2>5
<1> HIDE DEF at
<1>7. index \in Maps(Nodes, Nat)
  <2>1. ASSUME NEW id \in Range(k.nodes) PROVE id \in Nodes /\ at(id) \in Nat
    <3>1. PICK i \in DOMAIN k.nodes : id = k.nodes[i]
      BY DEF Range
    <3> QED
      BY <1>5, <1>6, <3>1
  <2> DEFINE D0 == Range(k.nodes)
             V == Nat
  <2>2. D0 \in SUBSET Nodes /\ index \in [D0 -> V]
    BY <2>1
  <2> HIDE DEF D0, V, index
  <2>3. index \in Maps(Nodes, V)
    BY <2>2 DEF Maps
  <2> QED
    BY <2>3 DEF V
<1>8. DOMAIN index = Range(k.nodes) /\ \A i \in DOMAIN k.nodes : index[k.nodes[i]] = i
  BY <1>6 DEF Range
<1> HIDE DEF index
<1>9. /\ IsRecord(h) /\ h.nodeIndex = index
      /\ h.nodes = k.nodes /\ h.edges = k.edges /\ h.nameIndex = k.nameIndex
      /\ h.symbols = k.symbols /\ h.aliasChains = k.aliasChains
      /\ h.fileIndex = k.fileIndex /\ h.reexports = k.reexports
  BY <1>2, <1>4 DEF IsRecord, Fields
<1> HIDE DEF h
<1>10. /\ h.fileIndex \in Maps(FileKeys, SUBSET Nodes)
       /\ DOMAIN h.fileIndex = DOMAIN g.fileIndex \ {f}
       /\ \A x \in DOMAIN g.fileIndex \ {f} : h.fileIndex[x] = g.fileIndex[x]
  <2> DEFINE m == Delete(g.fileIndex, f)
  <2>1. m \in Maps(FileKeys, SUBSET Nodes) /\ IsDelete(m, g.fileIndex, f)
    BY FileUnlisted
  <2>2. h.fileIndex = m
    BY <1>3, <1>9
  <2> HIDE DEF m
  <2> QED
    BY <2>1, <2>2 DEF IsDelete
<1>11. h \in Graphs
  <2>1. Typed(h)
    BY <1>1, <1>3, <1>7, <1>9, <1>10 DEF Typed
  <2> QED
    BY <1>9, <2>1, GraphOfParts
<1>12. NodeIndexExact(h)
  BY <1>8, <1>9 DEF NodeIndexExact
<1>13. IndexesSound(h)
  <2>1. \A n \in DOMAIN h.nameIndex : h.nameIndex[n] \subseteq {id \in h.symbols : NameOf(id) = n}
    BY <1>1, <1>3, <1>9 DEF NamesSound
  <2>2. ASSUME NEW x \in DOMAIN h.fileIndex, NEW id \in h.fileIndex[x]
        PROVE  id \in h.symbols /\ FileOf(id) = x
    <3>1. x \in DOMAIN g.fileIndex /\ x # f /\ id \in g.fileIndex[x]
      BY <1>10
    <3>2. id \in g.symbols /\ FileOf(id) = x
      BY <3>1 DEF Sound, SoundGraph, IndexesSound
    <3>3. id \notin IdsOf(f)
      BY <3>1, <3>2, IdsOfFile
    <3> QED
      BY <1>1, <1>3, <1>9, <3>2, <3>3 DEF Spared
  <2> QED
    BY <2>1, <2>2 DEF IndexesSound
<1>14. EdgesInArena(h) /\ h.symbols \subseteq Range(h.nodes)
  BY <1>1, <1>3, <1>9 DEF EdgesInArena
<1>15. Spared(h, g, f)
  <2>1. EdgeView(h) = EdgeView(t)
    BY <1>3, <1>9 DEF EdgeView
  <2> QED
    BY <1>1, <1>3, <1>9, <2>1 DEF Spared
<1> QED
  BY <1>11, <1>12, <1>13, <1>14, <1>15 DEF Sound, SoundGraph, h, k

(* remove_file keeps a graph sound, and spares the other files.             *)
LEMMA FileRemoved ==
  ASSUME NEW g \in Sound, NEW f \in Files
  PROVE  RemoveFile(g, f) \in Sound /\ Spared(RemoveFile(g, f), g, f)
<1> DEFINE labels == Ascending({id[2] : id \in Lookup(g.fileIndex, f, {})})
           s == [i \in DOMAIN labels |-> <<f, labels[i]>>]
           t == FoldLeft(RemoveSymbol, g, s)
           T == Shedding(g, f)
<1>1. labels \in Seq(Labels)
  BY LabelsOfFile
<1>2. RemoveFile(g, f) = RebuildNodeIndex([t EXCEPT !.fileIndex = Delete(@, f),
                                                    !.reexports = @ \ {f}])
  BY DEF RemoveFile
<1> HIDE DEF labels
<1>3. s \in Seq(IdsOf(f))
  <2>1. DOMAIN labels = 1 .. Len(labels) /\ Len(labels) \in Nat
    BY <1>1
  <2>2. ASSUME NEW i \in 1 .. Len(labels) PROVE s[i] \in IdsOf(f)
    BY <1>1, <2>1 DEF IdsOf
  <2>3. s = [i \in 1 .. Len(labels) |-> s[i]]
    BY <2>1
  <2> HIDE DEF s
  <2>4. s \in [1 .. Len(labels) -> IdsOf(f)]
    BY <2>2, <2>3
  <2> QED
    BY <2>1, <2>4
<1> HIDE DEF s
<1>4. \A i \in DOMAIN s, u \in T : Turn("removals", u, s[i]) \in T
  <2> SUFFICES ASSUME NEW i \in DOMAIN s, NEW u \in T PROVE RemoveSymbol(u, s[i]) \in T
    BY DEF Turn
  <2>1. s[i] \in IdsOf(f)
    BY <1>3
  <2> QED
    BY <2>1, SymbolShed
<1>5. g \in T /\ "removals" \in Loops
  BY SheddingStarts DEF Loops
<1>6. PICK h : Stages(h, "removals", g, s, T)
  <2> HIDE DEF T
  <2> QED
    BY <1>3, <1>4, <1>5, LoopStages
<1>7. t \in T
  <2>1. Len(s) \in 0 .. Len(s)
    BY <1>3
  <2> HIDE DEF T
  <2> QED
    BY <1>6, <2>1 DEF Stages, Loop
<1> HIDE DEF t
<1> QED
  BY <1>2, <1>7, RebuiltIsSound

-----------------------------------------------------------------------------
(* A file is replaced.                                                      *)

(* A file is entered in, or taken from, the list of re-exporting files.     *)
LEMMA ReexportsSound ==
  ASSUME NEW g \in Sound, NEW F \in SUBSET Files
  PROVE  LET h == [g EXCEPT !.reexports = F]
         IN  /\ h \in Sound /\ h.symbols = g.symbols /\ h.nodes = g.nodes
             /\ EdgeView(h) = EdgeView(g)
<1> DEFINE h == [g EXCEPT !.reexports = F]
<1>1. SoundGraph(g) /\ IsRecord(g) /\ Typed(g)
  BY GraphParts DEF Sound
<1>2. /\ IsRecord(h) /\ h.reexports = F
      /\ h.nodes = g.nodes /\ h.edges = g.edges /\ h.nodeIndex = g.nodeIndex
      /\ h.nameIndex = g.nameIndex /\ h.fileIndex = g.fileIndex /\ h.symbols = g.symbols
      /\ h.aliasChains = g.aliasChains
  BY <1>1 DEF IsRecord, Fields
<1> HIDE DEF h
<1>3. h \in Graphs
  <2>1. Typed(h)
    BY <1>1, <1>2 DEF Typed
  <2> QED
    BY <1>2, <2>1, GraphOfParts
<1>4. NodeIndexExact(h) /\ EdgesInArena(h) /\ h.symbols \subseteq Range(h.nodes)
  BY <1>1, <1>2 DEF SoundGraph, NodeIndexExact, EdgesInArena
<1>5. IndexesSound(h)
  BY <1>1, <1>2 DEF SoundGraph, IndexesSound
<1>6. EdgeView(h) = EdgeView(g)
  BY <1>2 DEF EdgeView
<1> QED
  BY <1>2, <1>3, <1>4, <1>5, <1>6 DEF Sound, SoundGraph, h

(* What of a graph is no matter of file f.                                  *)
OthersKept(h, g, f) ==
  /\ \A id \in g.symbols \ IdsOf(f) : id \in h.symbols
  /\ \A id \in Range(g.nodes) \ IdsOf(f) : id \in Range(h.nodes)
  /\ \A x \in EdgeView(g) :
       x.file # f /\ x.from \notin IdsOf(f) /\ x.to \notin IdsOf(f) => x \in EdgeView(h)

(* replace_file_ir keeps a graph sound, declares the new symbols and leaves *)
(* alone what is no matter of the file.                                     *)
LEMMA FileReplaced ==
  ASSUME NEW g \in Sound, NEW f \in Files, NEW ir, IsFileIR(ir, f)
  PROVE  LET h == ReplaceFileIr(g, f, ir)
         IN  /\ h \in Sound
             /\ Range(ir.symbols) \subseteq h.symbols
             /\ OthersKept(h, g, f)
<1> DEFINE a == RemoveRelationshipsInFile(g, f)
           b == RemoveFile(a, f)
           c == [b EXCEPT !.reexports = b.reexports \union {f}]
           d == FoldLeft(AddSymbol, c, ir.symbols)
           h == FoldLeft(AddRelationship, d, ir.relationships)
<1>1. ReplaceFileIr(g, f, ir) = h
  BY DEF ReplaceFileIr, AddFileSymbols
<1>2. /\ a \in Sound
      /\ SameButEdges(a, g)
      /\ {x \in EdgeView(g) : x.file # f} \subseteq EdgeView(a)
  BY RelationshipsRemoved
<1> HIDE DEF a
<1>3. b \in Sound /\ Spared(b, a, f)
  BY <1>2, FileRemoved
<1> HIDE DEF b
<1>4. c \in Sound /\ c.symbols = b.symbols /\ c.nodes = b.nodes /\ EdgeView(c) = EdgeView(b)
  <2>1. b.reexports \union {f} \in SUBSET Files
    BY <1>3, GraphParts DEF Sound, Typed
  <2> QED
    BY <1>3, <2>1, ReexportsSound
<1> HIDE DEF c
<1>5. ir.symbols \in Seq(Nodes) /\ ir.relationships \in Seq(Relationships(Files))
  <2>1. ir.symbols \in Seq(Nodes)
    BY FileIRParts DEF IsFileIR, Nodes, Declared
  <2>2. ir.relationships \in Seq(Relationships({f}))
    BY DEF IsFileIR
  <2>3. \A i \in DOMAIN ir.relationships : ir.relationships[i] \in Relationships(Files)
    BY FileIRParts
  <2> QED
    BY <2>1, <2>2, <2>3
<1>6. d \in Sound /\ Grows(d, c) /\ Range(ir.symbols) \subseteq d.symbols
  BY <1>4, <1>5, SymbolsSound
<1> HIDE DEF d
<1>7. h \in Sound /\ Grows(h, d)
  BY <1>5, <1>6, LinksSound
<1> HIDE DEF h
<1>8. OthersKept(h, g, f)
  <2>1. \A id \in g.symbols \ IdsOf(f) : id \in h.symbols
    BY <1>2, <1>3, <1>4, <1>6, <1>7 DEF SameButEdges, Spared, Grows
  <2>2. \A id \in Range(g.nodes) \ IdsOf(f) : id \in Range(h.nodes)
    BY <1>2, <1>3, <1>4, <1>6, <1>7 DEF SameButEdges, Spared, Grows
  <2>3. \A x \in EdgeView(g) :
          x.file # f /\ x.from \notin IdsOf(f) /\ x.to \notin IdsOf(f) => x \in EdgeView(h)
    BY <1>2, <1>3, <1>4, <1>6, <1>7 DEF Spared, Grows
  <2> QED
    BY <2>1, <2>2, <2>3 DEF OthersKept
<1> QED
  BY <1>1, <1>6, <1>7, <1>8 DEF Grows

-----------------------------------------------------------------------------
(* The graph is built, in the order of the files.                           *)

(* The files one after the other, each with its FileIR.                     *)
Queue(R, files) == [i \in DOMAIN files |-> <<files[i], R[files[i]]>>]

(* After the first loop, the graph has every symbol and nothing else.       *)
LEMMA AllDeclared ==
  ASSUME NEW R, IsRepo(R, Files), NEW files \in Seq(Files), Range(files) = Files
  PROVE  LET h == Loop("declare", EmptyGraph, Queue(R, files))
         IN  h \in Whole /\ SymbolsIn(R, Files) \subseteq h.symbols
<1> DEFINE q == Queue(R, files)
           n == Len(files)
           T == Whole
<1>1. /\ n \in Nat /\ DOMAIN files = 1 .. n /\ DOMAIN q = 1 .. n
      /\ \A i \in 1 .. n : q[i] = <<files[i], R[files[i]]>> /\ files[i] \in Files
  BY DEF Queue
<1>2. q \in Seq(Range(q)) /\ Len(q) = n
  BY <1>1 DEF Queue, Range
<1> HIDE DEF q, n
<1>3. ASSUME NEW i \in 1 .. n, NEW t \in Whole
      PROVE  /\ Turn("declare", t, q[i]) \in Whole
             /\ Turn("declare", t, q[i]).symbols = t.symbols \union Range(R[files[i]].symbols)
  <2> DEFINE ir == R[files[i]]
  <2>1. files[i] \in Files /\ IsFileIR(ir, files[i])
    BY <1>1 DEF IsRepo
  <2>2. Turn("declare", t, q[i]) = AddFileSymbols(t, ir)
    BY <1>1 DEF Turn
  <2> HIDE DEF ir
  <2>3. AddFileSymbols(t, ir) \in Whole
        /\ AddFileSymbols(t, ir).symbols = t.symbols \union Range(ir.symbols)
    BY <2>1, FileSymbolsAdded
  <2> QED
    BY <2>2, <2>3 DEF ir
<1>4. PICK h : Stages(h, "declare", EmptyGraph, q, T)
  <2>1. EmptyGraph \in T /\ "declare" \in Loops
    BY EmptyIsWhole DEF Loops
  <2>2. \A i \in DOMAIN q, t \in T : Turn("declare", t, q[i]) \in T
    BY <1>1, <1>3
  <2> HIDE DEF T
  <2> QED
    BY <1>2, <2>1, <2>2, LoopStages
<1>5. \A i \in 0 .. n : \A j \in 1 .. i : Range(R[files[j]].symbols) \subseteq h[i].symbols
  <2> DEFINE P == {i \in 0 .. n : \A j \in 1 .. i : Range(R[files[j]].symbols) \subseteq h[i].symbols}
  <2>1. 0 \in P
    BY <1>1
  <2>2. ASSUME NEW i \in 1 .. n, i - 1 \in P PROVE i \in P
    <3>1. i \in 0 .. n /\ i - 1 \in 0 .. n /\ 1 .. i = (1 .. (i - 1)) \union {i}
      BY <1>1
    <3>2. h[i - 1] \in Whole /\ h[i] = Turn("declare", h[i - 1], q[i])
      BY <1>2, <1>4, <3>1 DEF Stages
    <3>3. h[i].symbols = h[i - 1].symbols \union Range(R[files[i]].symbols)
      BY <1>3, <3>2
    <3> QED
      BY <2>2, <3>1, <3>3
  <2> HIDE DEF P
  <2>3. \A i \in 0 .. n : i \in P
    BY <1>1, <2>1, <2>2, UpTo
  <2> QED
    BY <2>3 DEF P
<1>6. h[n] = Loop("declare", EmptyGraph, q) /\ h[n] \in Whole
  BY <1>1, <1>2, <1>4 DEF Stages
<1>7. ASSUME NEW id \in SymbolsIn(R, Files) PROVE id \in h[n].symbols
  <2>1. PICK f \in Files : id \in Range(R[f].symbols)
    BY SymbolsInAre
  <2>2. PICK j \in 1 .. n : f = files[j]
    BY <1>1 DEF Range
  <2>3. n \in 0 .. n
    BY <1>1
  <2> QED
    BY <1>5, <2>1, <2>2, <2>3
<1> QED
  BY <1>6, <1>7 DEF q

(* The second loop keeps it coherent and what it has.                       *)
LEMMA AllLinked ==
  ASSUME NEW R, IsRepo(R, Files), NEW files \in Seq(Files), NEW g \in Whole,
         SymbolsIn(R, Files) \subseteq g.symbols
  PROVE  LET h == Loop("link", g, Queue(R, files))
         IN  h \in Whole /\ SymbolsIn(R, Files) \subseteq h.symbols
<1> DEFINE q == Queue(R, files)
           n == Len(files)
           T == {t \in Whole : SymbolsIn(R, Files) \subseteq t.symbols}
<1>1. /\ n \in Nat /\ DOMAIN files = 1 .. n /\ DOMAIN q = 1 .. n
      /\ \A i \in 1 .. n : q[i] = <<files[i], R[files[i]]>> /\ files[i] \in Files
  BY DEF Queue
<1>2. q \in Seq(Range(q)) /\ Len(q) = n
  BY <1>1 DEF Queue, Range
<1> HIDE DEF q, n
<1>3. ASSUME NEW i \in 1 .. n, NEW t \in T PROVE Turn("link", t, q[i]) \in T
  <2> DEFINE ir == R[files[i]]
             f == files[i]
             u == AddFileRelationships(t, f, ir)
  <2>1. f \in Files /\ IsFileIR(ir, f) /\ t \in Whole
    BY <1>1 DEF IsRepo
  <2>2. Turn("link", t, q[i]) = u
    BY <1>1 DEF Turn
  <2>3. Range(ir.symbols) \subseteq t.symbols
    BY <2>1, SymbolsInAre
  <2> HIDE DEF ir, f, u
  <2>4. u \in Whole /\ Linked(u, t, ir.relationships, Len(ir.relationships))
    BY <2>1, <2>3, FileRelationshipsAdded DEF u
  <2>5. t.symbols \subseteq u.symbols
    BY <2>4 DEF Linked
  <2> QED
    BY <2>2, <2>4, <2>5
<1>4. PICK h : Stages(h, "link", g, q, T)
  <2>1. g \in T /\ "link" \in Loops
    BY DEF Loops
  <2>2. \A i \in DOMAIN q, t \in T : Turn("link", t, q[i]) \in T
    BY <1>1, <1>3
  <2> HIDE DEF T
  <2> QED
    BY <1>2, <2>1, <2>2, LoopStages
<1>5. h[n] = Loop("link", g, q) /\ h[n] \in T
  BY <1>1, <1>2, <1>4 DEF Stages
<1> QED
  BY <1>5 DEF q

(* A graph built from a repository is sound and has what it declares.       *)
LEMMA BuildIsSound ==
  ASSUME NEW R, IsRepo(R, Files)
  PROVE  Build(R) \in Sound /\ SymbolsIn(R, Files) \subseteq Build(R).symbols
<1> DEFINE files == Ascending(Files)
           d == Loop("declare", EmptyGraph, Queue(R, files))
           h == Loop("link", d, Queue(R, files))
<1>1. AreNumbers(Files) /\ IsFiniteSet(Files)
  BY FilesAssumption DEF AreNumbers
<1>2. files \in Seq(Files) /\ Range(files) = Files
  BY <1>1, AscendingIs
<1>3. Build(R) = h
  BY DEF Build, Queue, Loop
<1> HIDE DEF files
<1>4. d \in Whole /\ SymbolsIn(R, Files) \subseteq d.symbols
  BY <1>2, AllDeclared
<1> HIDE DEF d
<1>5. h \in Whole /\ SymbolsIn(R, Files) \subseteq h.symbols
  BY <1>2, <1>4, AllLinked
<1> HIDE DEF h
<1> QED
  BY <1>3, <1>5, WholeIsSound

-----------------------------------------------------------------------------
(* The graph follows its files.                                             *)

(* However often files were replaced.                                       *)
FollowInv ==
  /\ IsRepo(source, Files)
  /\ kept \in Sound
  /\ SymbolsIn(source, Files) \subseteq kept.symbols

(* A graph that is built, or stays empty, is as it should be.               *)
LEMMA FollowStarts == LifeInit => FollowInv
<1>1. ASSUME FollowInit PROVE FollowInv
  <2>1. IsRepo(source, Files)
    BY <1>1, ReposAreRepos DEF FollowInit
  <2> QED
    BY <1>1, <2>1, BuildIsSound DEF FollowInit, FollowInv
<1>2. ASSUME NotFollowed PROVE FollowInv
  <2>1. \A f \in Files : source[f].symbols = << >> /\ source[f].relationships = << >>
    BY <1>2 DEF NotFollowed
  <2>2. IsRepo(source, Files)
    <3>1. DOMAIN source = Files
      BY <1>2 DEF NotFollowed
    <3>2. ASSUME NEW f \in Files PROVE IsFileIR(source[f], f)
      <4>1. Range(source[f].relationships) = {}
        BY <2>1 DEF Range
      <4> DEFINE S == {f} \X Labels
                 L == Relationships({f})
      <4> HIDE DEF S, L
      <4>2. << >> \in Seq(S) /\ << >> \in Seq(L)
        OBVIOUS
      <4>3. source[f].symbols \in Seq(S) /\ source[f].relationships \in Seq(L)
        BY <2>1, <4>2
      <4> QED
        BY <4>1, <4>3 DEF IsFileIR, S, L
    <3> QED
      BY <3>1, <3>2 DEF IsRepo
  <2>3. SymbolsIn(source, Files) = {}
    <3>1. \A f \in Files : Range(source[f].symbols) = {}
      BY <2>1 DEF Range
    <3> QED
      BY <3>1, SymbolsInAre
  <2>4. kept \in Sound
    BY <1>2, EmptyIsWhole, WholeIsSound DEF NotFollowed
  <2> QED
    BY <2>2, <2>3, <2>4 DEF FollowInv
<1> QED
  BY <1>1, <1>2 DEF LifeInit

(* What a replacement does to a graph that follows its files.               *)
LEMMA FollowsOn ==
  ASSUME FollowInv, NEW f \in Files, NEW ir \in Rewrites(source, f), ReplaceFile(f, ir)
  PROVE  FollowInv' /\ OthersKept(kept', kept, f)
<1>1. IsFileIR(ir, f)
  <2>1. PICK size \in Sizes : ir \in PlainIRs[<<f, size>>]
    BY DEF Rewrites
  <2>2. ir \in FileIRs(f, size) /\ size \in Nat \X Nat
    BY <2>1, FollowedAssumption, BoundsAssumption DEF PlainIRs, Sizes
  <2> QED
    BY <2>2, FileIRsAreFileIRs
<1>2. /\ source' = [source EXCEPT ![f] = ir] /\ kept' = ReplaceFileIr(kept, f, ir)
      /\ IsRepo(source, Files) /\ kept \in Sound
      /\ SymbolsIn(source, Files) \subseteq kept.symbols
  BY DEF ReplaceFile, FollowInv
<1>3. /\ kept' \in Sound
      /\ Range(ir.symbols) \subseteq kept'.symbols
      /\ OthersKept(kept', kept, f)
  BY <1>1, <1>2, FileReplaced
<1>4. /\ DOMAIN source' = Files /\ source'[f] = ir
      /\ \A k \in Files \ {f} : source'[k] = source[k]
  BY <1>2 DEF IsRepo
<1>5. IsRepo(source', Files)
  BY <1>1, <1>2, <1>4 DEF IsRepo
<1>6. ASSUME NEW id \in SymbolsIn(source', Files) PROVE id \in kept'.symbols
  <2>1. PICK k \in Files : id \in Range(source'[k].symbols)
    BY SymbolsInAre
  <2>2. CASE k = f
    BY <1>3, <1>4, <2>1, <2>2
  <2>3. CASE k # f
    <3>1. id \in Range(source[k].symbols)
      BY <1>4, <2>1, <2>3
    <3>2. id \in kept.symbols
      BY <1>2, <3>1, SymbolsInAre
    <3>3. id \in IdsOf(k)
      <4>1. source[k].symbols \in Seq({k} \X Labels)
        BY <1>2 DEF IsRepo, IsFileIR
      <4> QED
        BY <3>1, <4>1 DEF Range, IdsOf
    <3>4. id \notin IdsOf(f)
      BY <2>3, <3>3, IdsOfFile
    <3> QED
      BY <1>3, <3>2, <3>4 DEF OthersKept
  <2> QED
    BY <2>2, <2>3
<1> QED
  BY <1>3, <1>5, <1>6 DEF FollowInv

(* So it is after every replacement.                                        *)
LEMMA FollowGoesOn == FollowInv /\ [BuildIt \/ FollowIt]_life => FollowInv'
<1> SUFFICES ASSUME FollowInv, [BuildIt \/ FollowIt]_life PROVE FollowInv'
  OBVIOUS
<1>1. CASE UNCHANGED followed
  BY <1>1 DEF followed, FollowInv
<1>2. CASE FollowNext
  <2>1. PICK f \in Files : \E ir \in Rewrites(source, f) : ReplaceFile(f, ir)
    BY <1>2 DEF FollowNext
  <2>2. PICK ir \in Rewrites(source, f) : ReplaceFile(f, ir)
    BY <2>1
  <2> QED
    BY <2>2, FollowsOn
<1> QED
  BY <1>1, <1>2 DEF BuildIt, FollowIt, life

(* A followed graph is sound and has its declared symbols, always.          *)
LEMMA FollowKeepsInv == LifeSpec => []FollowInv
BY FollowStarts, FollowGoesOn, PTL DEF LifeSpec

(* After any replacements, whatever positions went stale in their removals, *)
(* each position leads to its own node, no edge hangs in the air and no     *)
(* index names a symbol that is gone (incremental.rs, replace_file_ir).     *)
THEOREM FollowedGraphIsAddressable == LifeSpec => []Addressable
<1>1. FollowInv => Addressable
  BY DEF FollowInv, Sound, SoundGraph, Addressable
<1> QED
  BY <1>1, FollowKeepsInv, PTL

(* And every symbol its files declare has a symbol and a node, though the   *)
(* removal of the file's former symbols may have missed a node.             *)
THEOREM DeclaredSymbolsArePresent == LifeSpec => []DeclaredIsPresent
<1>1. FollowInv => DeclaredIsPresent
  <2> SUFFICES ASSUME FollowInv, NEW f \in Files, NEW id \in Range(source[f].symbols)
               PROVE  id \in kept.symbols /\ id \in Range(kept.nodes)
    BY DEF DeclaredIsPresent
  <2>1. id \in SymbolsIn(source, Files)
    BY SymbolsInAre
  <2> QED
    BY <2>1 DEF FollowInv, Sound, SoundGraph
<1> QED
  BY <1>1, FollowKeepsInv, PTL

(* The nodes of a file are the ids of it that have a node.                  *)
LEMMA NodesOfFile ==
  ASSUME NEW g, NEW f \in Files, NEW id
  PROVE  id \in NodesOf(g, f) <=> id \in Range(g.nodes) /\ id \in IdsOf(f)
<1>1. ASSUME id \in Declared, FileOf(id) = f PROVE id \in IdsOf(f)
  <2>1. id \notin External
    BY <1>1, IdsAssumption
  <2> QED
    BY <1>1, <2>1 DEF FileOf, Declared, IdsOf
<1>2. ASSUME id \in IdsOf(f) PROVE id \in Declared /\ FileOf(id) = f
  BY <1>2, IdsOfFile
<1> QED
  BY <1>1, <1>2 DEF NodesOf

(* A replacement never removes a neighbour by a stale position: the symbols *)
(* and nodes of the other files and the edges among them survive it.        *)
THEOREM NeighboursSurvive == LifeSpec => NeighboursKept
<1> DEFINE Step == \A f \in Files : source'[f] # source[f] =>
                      /\ \A h \in Files \ {f} : NodesOf(kept, h) \subseteq NodesOf(kept', h)
                      /\ {id \in kept.symbols : FileOf(id) # f} \subseteq kept'.symbols
                      /\ EdgesApartFrom(kept, f) \subseteq EdgeView(kept')
<1>1. ASSUME FollowInv, NEW k \in Files, NEW ir \in Rewrites(source, k), ReplaceFile(k, ir)
      PROVE  Step
  <2> SUFFICES ASSUME NEW f \in Files, source'[f] # source[f]
               PROVE  /\ \A h \in Files \ {f} : NodesOf(kept, h) \subseteq NodesOf(kept', h)
                      /\ {id \in kept.symbols : FileOf(id) # f} \subseteq kept'.symbols
                      /\ EdgesApartFrom(kept, f) \subseteq EdgeView(kept')
    OBVIOUS
  <2>1. k = f
    BY <1>1 DEF ReplaceFile, FollowInv, IsRepo
  <2>2. OthersKept(kept', kept, f)
    BY <1>1, <2>1, FollowsOn
  <2>3. ASSUME NEW h \in Files \ {f}, NEW id \in NodesOf(kept, h) PROVE id \in NodesOf(kept', h)
    <3>1. id \in Range(kept.nodes) /\ id \in IdsOf(h)
      BY <2>3, NodesOfFile
    <3>2. id \notin IdsOf(f)
      BY <3>1, IdsOfFile
    <3> QED
      BY <2>2, <3>1, <3>2, NodesOfFile DEF OthersKept
  <2>4. ASSUME NEW id \in kept.symbols, FileOf(id) # f PROVE id \in kept'.symbols
    BY <2>2, <2>4, IdsOfFile DEF OthersKept
  <2>5. ASSUME NEW x \in EdgesApartFrom(kept, f) PROVE x \in EdgeView(kept')
    <3>1. x \in EdgeView(kept) /\ x.file # f
          /\ x.from \notin NodesOf(kept, f) /\ x.to \notin NodesOf(kept, f)
      BY DEF EdgesApartFrom
    <3>2. PICK j \in DOMAIN kept.edges : x = View(kept, kept.edges[j])
      BY <3>1, ViewAt
    <3>3. x.from \in Range(kept.nodes) /\ x.to \in Range(kept.nodes)
      BY <1>1, <3>2 DEF FollowInv, Sound, SoundGraph, EdgesInArena, View, Range
    <3>4. x.from \notin IdsOf(f) /\ x.to \notin IdsOf(f)
      BY <3>1, <3>3, NodesOfFile
    <3> QED
      BY <2>2, <3>1, <3>4 DEF OthersKept
  <2> QED
    BY <2>3, <2>4, <2>5
<1>2. FollowInv /\ [BuildIt \/ FollowIt]_life => [Step]_followed
  <2> SUFFICES ASSUME FollowInv, FollowNext PROVE Step
    BY DEF BuildIt, FollowIt, life
  <2>1. PICK f \in Files : \E ir \in Rewrites(source, f) : ReplaceFile(f, ir)
    BY DEF FollowNext
  <2>2. PICK ir \in Rewrites(source, f) : ReplaceFile(f, ir)
    BY <2>1
  <2> HIDE DEF Step
  <2> QED
    BY <1>1, <2>2
<1>3. [][Step]_followed => NeighboursKept
  BY PTL DEF NeighboursKept
<1> HIDE DEF Step
<1> QED
  BY <1>2, <1>3, FollowKeepsInv, PTL DEF LifeSpec
=============================================================================
