----------------------------- MODULE References -----------------------------
(***************************************************************************)
(* The graph as queries see it: symbols and the relationships between them, *)
(* with what the dispatcher has derived from those of the test files (lang  *)
(* dispatch.rs). Positions, and how the graph is built, are the subject of  *)
(* CodeGraph.                                                               *)
(***************************************************************************)
EXTENDS Naturals, FiniteSets

CONSTANTS
  Symbols,       \* ids as numbers, for they are compared
  Files,
  FileOf,        \* the file of each symbol
  TestFiles,     \* the files their language's spec takes for tests
  Lines,         \* where in its file a reference is
  Depths,        \* values of --depth
  MaxReferences  \* model bound: references in a repository

ASSUME SymbolsAssumption == Symbols \subseteq Nat /\ IsFiniteSet(Symbols)
ASSUME FilesAssumption == FileOf \in [Symbols -> Files] /\ TestFiles \subseteq Files
ASSUME LinesAssumption == Lines \subseteq Nat /\ Depths \subseteq Nat

VARIABLES
  structural,  \* files of languages without import resolution
  references   \* what the adapters found

repository == <<structural, references>>

References == [from : Symbols, to : Symbols, line : Lines]

(* In the order of their names, by which rows are sorted.                   *)
Kinds == {"Calls", "Tests"}
KindPrecedes(k, l) == k = "Calls" /\ l = "Tests"

(* run_adapter stamps what a file's own pipeline resolved.                  *)
Structural == 0
Resolved == 1
Resolution(e) == IF FileOf[e.from] \in structural THEN Structural ELSE Resolved

(* What an adapter can find: a structural one looks no further than the     *)
(* file, and no other has ids of such a file's symbols.                     *)
CanRefer(r) ==
  {FileOf[r.from], FileOf[r.to]} \cap structural # {} => FileOf[r.from] = FileOf[r.to]

Of(kind, rs) ==
  {[from |-> r.from, to |-> r.to, line |-> r.line, kind |-> kind] : r \in rs}

(* add_test_edges: what a test file refers to outside the tests it tests,   *)
(* once for each pair of symbols.                                           *)
Exercises ==
  {r \in references :
     /\ FileOf[r.from] \in TestFiles
     /\ FileOf[r.to] \notin TestFiles
     /\ \A q \in references : q.from = r.from /\ q.to = r.to => r.line <= q.line}

graph == Of("Calls", references) \union Of("Tests", Exercises)

(* query.rs, structural_files                                               *)
StructuralFiles == {FileOf[e.from] : e \in {e \in graph : Resolution(e) = Structural}}

-----------------------------------------------------------------------------
(* A repository without a reference, and its programmers.                   *)
Empty == structural \in SUBSET Files /\ references = {}

Refer(r) ==
  /\ Cardinality(references) < MaxReferences
  /\ r.from # r.to
  /\ CanRefer(r)
  /\ references' = references \union {r}
  /\ UNCHANGED structural

-----------------------------------------------------------------------------
(* The symbols from which one of S is reached in at most k references that  *)
(* meet the floor: the reference definition answers are compared with.      *)
Callers(S, floor) ==
  {r.from : r \in {r \in references : r.to \in S /\ Resolution(r) >= floor}}

Upstream(S, floor) ==
  LET within[k \in Nat] ==
        IF k = 0 THEN S ELSE within[k - 1] \union Callers(within[k - 1], floor)
  IN  within
=============================================================================
