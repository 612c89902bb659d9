----------------------------- MODULE SharedStore -----------------------------
(***************************************************************************)
(* What the processes that work on one repository meet in: the tree they    *)
(* scan, and the stores they write. RocksDB admits one opener of a store at *)
(* a time, within a process too, and turns a second one away at once.       *)
(*                                                                          *)
(* The tree is the number of the last edit. A scan takes its time and edits *)
(* go on meanwhile, so a graph is the number of the last edit before its    *)
(* scan began: what it certainly contains. 0 is no graph.                   *)
(***************************************************************************)
EXTENDS Naturals

CONSTANTS
  Roots,     \* directories with a .graphyn/db
  Root,      \* the one of the repository
  Calls,     \* tool calls of an MCP server in flight at a time, as holders of a LOCK
  Nobody,
  MaxEdits   \* model bound: edits in one behaviour

ASSUME RootAssumption == Root \in Roots
ASSUME CallsAssumption == Nobody \notin Calls
ASSUME EditsAssumption == MaxEdits \in Nat

VARIABLES
  tree,    \* the last edit
  stored,  \* the graph in each directory's store
  holder   \* who has each store open

shared == <<tree, stored, holder>>

Greater(m, n) == IF m > n THEN m ELSE n

SharedInit ==
  /\ tree = 1
  /\ stored \in [Roots -> {0, 1}]
  /\ holder = [r \in Roots |-> Nobody]
=============================================================================
