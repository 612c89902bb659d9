------------------------------ MODULE Traversal ------------------------------
(***************************************************************************)
(* The queries of core query.rs: blast_radius and dependencies walk breadth *)
(* first from one symbol, file_impact from each symbol of a file in turn.   *)
(* One step is one turn of traverse's loop, a node taken off the queue; in  *)
(* which order petgraph lists that node's edges is left open.               *)
(***************************************************************************)
EXTENDS References, SequencesExt

CONSTANTS
  Masks,   \* sets of kinds asked for
  NONE     \* no file, no symbol

ASSUME NoneAssumption == NONE \notin Files

VARIABLES
  pc,       \* "ready", "traverse" or "answered"
  question, \* a symbol or, for file_impact, a file, and the options
  roots,    \* symbols still to be walked from
  queue, visited,
  rows,     \* of the walk from one root
  answer    \* rows a caller gets

traversal == <<roots, queue, visited, rows, answer>>
asking == <<pc, question, traversal>>

Questions(symbols, files, directions) ==
  [symbol : symbols, file : files, direction : directions,
   depth : Depths, kinds : Masks, floor : {Structural, Resolved}]
Rows == [edge : [from : Symbols, to : Symbols, line : Lines, kind : Kinds], hop : Nat]

SymbolsOf(file) == {s \in Symbols : FileOf[s] = file}
Least(S) == CHOOSE s \in S : \A t \in S : s <= t

Ready ==
  /\ pc = "ready"
  /\ question = NONE
  /\ roots = {}
  /\ queue = <<>>
  /\ visited = {}
  /\ rows = {}
  /\ answer = {}

(* The root is visited, at depth 0.                                         *)
WalkFrom(root) ==
  /\ queue' = <<[node |-> root, depth |-> 0]>>
  /\ visited' = {root}
  /\ rows' = {}

(* blast_radius, dependencies.                                              *)
Query ==
  /\ pc = "ready"
  /\ question' \in Questions(Symbols, {NONE}, {"incoming", "outgoing"})
  /\ WalkFrom(question'.symbol)
  /\ pc' = "traverse"
  /\ UNCHANGED <<roots, answer>>

(* file_impact: the symbols of the file in the order of their ids.          *)
Impact ==
  /\ pc = "ready"
  /\ question' \in Questions({NONE}, {f \in Files : SymbolsOf(f) # {}}, {"incoming"})
  /\ LET defined == SymbolsOf(question'.file) IN
       /\ WalkFrom(Least(defined))
       /\ roots' = defined \ {Least(defined)}
  /\ pc' = "traverse"
  /\ UNCHANGED answer

Near(e) == IF question.direction = "incoming" THEN e.to ELSE e.from
Far(e) == IF question.direction = "incoming" THEN e.from ELSE e.to

Admits(e) == e.kind \in question.kinds /\ Resolution(e) >= question.floor

EdgesAt(node) == {e \in graph : Near(e) = node}

(* One node, with its edges that are rows and those that are walked.        *)
VisitBy(taken, walked) ==
  /\ pc = "traverse"
  /\ queue # <<>>
  /\ LET hop == Head(queue).depth + 1
         new == {Far(e) : e \in walked} \ visited
     IN  /\ rows' = rows \union {[edge |-> e, hop |-> hop] : e \in taken}
         /\ visited' = visited \union new
         /\ \E order \in SetToSeqs(new) :
              queue' = Tail(queue) \o [i \in DOMAIN order |-> [node |-> order[i], depth |-> hop]]
  /\ UNCHANGED <<pc, question, roots, answer>>

WithinDepth == Head(queue).depth < question.depth
Open == {e \in EdgesAt(Head(queue).node) : WithinDepth}

(* A plausible slip: the filter is on the rows, not on the walk.            *)
VisitAll == VisitBy({e \in Open : Admits(e)}, Open)

(* A node off the queue: beyond the depth it is dropped, otherwise its      *)
(* admitted edges are rows and their far ends, unless visited, are queued.  *)
Visit == VisitBy({e \in Open : Admits(e)}, {e \in Open : Admits(e)})

-----------------------------------------------------------------------------
(* dedupe_edges sorts by hop, file, line, to, kind and from, and keeps the  *)
(* first row of every fact. Before compares rows of one file, line and to.  *)
Before(q, r) ==
  \/ q.hop < r.hop
  \/ /\ q.hop = r.hop
     /\ \/ KindPrecedes(q.edge.kind, r.edge.kind)
        \/ q.edge.kind = r.edge.kind /\ q.edge.from < r.edge.from

Fact(r) == <<r.edge.to, FileOf[r.edge.from], r.edge.line, r.edge.kind>>

Dedupe(rs) == {r \in rs : \A q \in rs : Fact(q) = Fact(r) => ~Before(q, r)}

(* A plausible slip: two callers in the same line of two files are one.     *)
PlaceOfTarget(r) == <<r.edge.to, r.edge.line>>

(* file_impact keeps rows from outside the file, and the first of those for *)
(* one pair of symbols and line.                                            *)
Place(r) == <<r.edge.from, r.edge.to, r.edge.line>>

Outside(rs) ==
  LET outside == {r \in rs : FileOf[r.edge.from] # question.file}
  IN  {r \in outside : /\ \A q \in answer : Place(q) # Place(r)
                       /\ \A q \in outside : Place(q) = Place(r) => ~Before(q, r)}

(* The queue is empty: the rows are collapsed, and the next root walked.    *)
Collapse ==
  /\ pc = "traverse"
  /\ queue = <<>>
  /\ answer' = IF question.file = NONE THEN Dedupe(rows)
               ELSE answer \union Outside(Dedupe(rows))
  /\ IF roots = {}
       THEN pc' = "answered" /\ UNCHANGED <<roots, queue, visited, rows>>
       ELSE /\ WalkFrom(Least(roots))
            /\ roots' = roots \ {Least(roots)}
            /\ UNCHANGED pc
  /\ UNCHANGED question

(* The answer is printed and forgotten.                                     *)
Done ==
  /\ pc = "answered"
  /\ pc' = "ready"
  /\ question' = NONE
  /\ roots' = {}
  /\ queue' = <<>>
  /\ visited' = {}
  /\ rows' = {}
  /\ answer' = {}

Step == Query \/ Impact \/ Visit \/ Collapse \/ Done

-----------------------------------------------------------------------------
(* The symbols at most k admitted edges away from S: the reference          *)
(* definition.                                                              *)
Away(S) ==
  LET within[k \in Nat] ==
        IF k = 0 THEN S
        ELSE within[k - 1] \union
             {Far(e) : e \in {e \in graph : Admits(e) /\ Near(e) \in within[k - 1]}}
  IN  within

(* blast_radius and dependencies: the rows are admitted edges at symbols    *)
(* reached by admitted edges alone, their hop is the shortest way there,    *)
(* and every fact within the depth has its row, with the shortest hop of    *)
(* all edges that state it - in whatever order petgraph lists edges.        *)
AnswerIsNeighbourhood ==
  pc = "answered" /\ question.file = NONE =>
    LET away == Away({question.symbol})
        HopIs(e, h) == Near(e) \in away[h - 1] \ (IF h = 1 THEN {} ELSE away[h - 2])
    IN  /\ \A r \in answer : r.edge \in graph /\ Admits(r.edge) /\ HopIs(r.edge, r.hop)
        /\ \A e \in graph, h \in 1 .. question.depth :
             Admits(e) /\ HopIs(e, h) =>
               Cardinality({r \in answer : r.hop <= h /\ Fact(r) = Fact([edge |-> e])}) = 1

(* file_impact: the files named as dependents are exactly those from which  *)
(* the file's symbols are reached within the depth. No dependent is lost    *)
(* where rows are collapsed within a walk, between walks of two symbols, or *)
(* between the kinds of one reference.                                      *)
ImpactNamesEveryDependent ==
  pc = "answered" /\ question.file # NONE /\ question.depth > 0 =>
    {FileOf[r.edge.from] : r \in answer} =
      {FileOf[e.from] : e \in {e \in graph :
         Admits(e) /\ e.to \in Away(SymbolsOf(question.file))[question.depth - 1]}}
        \ {question.file}
=============================================================================
