---------------------------- MODULE RevisionStore ----------------------------
(***************************************************************************)
(* The persistent store of graphyn-store/src/rocksdb.rs: one RocksDB        *)
(* database under .graphyn/db that holds the working graph in the default   *)
(* column family and any number of revision snapshots in the "revisions"    *)
(* family, with an index entry per revision, a write counter and a layout   *)
(* stamp.                                                                   *)
(*                                                                          *)
(* Every call of the code that touches more than one key does it with one   *)
(* RocksDB write per key and no batch, so a process that is killed, or a    *)
(* write that fails and returns early through `?`, leaves the keys written  *)
(* so far: each write is an action here and Interrupt may come between any  *)
(* two of them. RocksDB takes an exclusive LOCK on open, so at most one     *)
(* process has the store open: pc = "closed" says that nobody has, and an   *)
(* opener that finds it taken fails without changing anything.              *)
(***************************************************************************)
EXTENDS Naturals, FiniteSets

CONSTANTS
  Revisions,    \* revision names, numbered in the byte order of the names
  Graphs,       \* the graphs an analysis can produce
  Layouts,      \* REVISION_LAYOUT_VERSION of the binaries that open the store
  Keeps,        \* the values of --keep-snapshots in use
  MaxSequence,  \* u64::MAX, where saturating_add stops counting
  SaveBound,    \* model bound: no save starts once the counter is past it
  NONE          \* an absent key

ASSUME RevisionsAssumption == Revisions \subseteq Nat
ASSUME KeepsAssumption == Keeps \subseteq Nat
ASSUME MaxSequenceAssumption == MaxSequence \in Nat \ {0}
ASSUME SaveBoundAssumption == SaveBound \in Nat
ASSUME NoneAssumption ==
  NONE \notin Revisions \union Graphs \union Layouts \union [graph : Graphs, layout : Layouts]

VARIABLES
  \* on disk
  working,    \* graph_snapshot_v1, the working graph
  snapshots,  \* snapshot|<revision>: a graph, and the layout that keyed it
  index,      \* index|<revision>: the sequence of the last save, 0 if absent
  sequence,   \* revision_sequence, 0 if absent
  layout,     \* revision_layout_version
  \* the process that has the store open
  pc,         \* what it does next
  binary,     \* the layout version compiled into it
  graph,      \* the graph it last saved
  target,     \* the revision it is recording
  assigned,   \* the sequence next_sequence gave it
  keep,       \* the retention it was asked for
  todo,       \* revisions of the delete loop it is in
  deleting    \* the one whose snapshot is gone and whose index entry is not

disk == <<working, snapshots, index, sequence, layout>>
process == <<pc, binary, graph, target, assigned, keep, todo, deleting>>
vars == <<disk, process>>

SnapshotRecord == [graph : Graphs, layout : Layouts]
Steps == {"closed", "opened", "dropping", "stamping", "ready", "saved",
          "numbered", "stored", "indexed", "pruning", "done"}

-----------------------------------------------------------------------------
(* list_revisions                                                           *)

Listed == {r \in Revisions : index[r] # 0}

(* Faulty variants, each named Faulty..., stand for a plausible bug in the  *)
(* definition that follows: the properties below must tell them apart.      *)
FaultyNewer(q, r) == \/ index[q] < index[r]
                     \/ index[q] = index[r] /\ q < r

(* The listing order: highest sequence first, then by name.                 *)
Newer(q, r) == \/ index[q] > index[r]
               \/ index[q] = index[r] /\ q < r

FaultyStale(k) ==
  {r \in Listed : Cardinality({q \in Listed : Newer(q, r)}) > k}

(* skip(keep): the listed revisions that at least k others precede.         *)
Stale(k) == {r \in Listed : Cardinality({q \in Listed : Newer(q, r)}) >= k}

(* A delete loop takes its revisions in listing order.                      *)
IsNextToDelete(r) == /\ r \in todo
                     /\ \A q \in todo \ {r} : Newer(r, q)

-----------------------------------------------------------------------------
(* An empty directory: DB::open_cf_descriptors creates the families.        *)
Init ==
  /\ working = NONE
  /\ snapshots = [r \in Revisions |-> NONE]
  /\ index = [r \in Revisions |-> 0]
  /\ sequence = 0
  /\ layout = NONE
  /\ pc = "closed"
  /\ binary = NONE
  /\ graph = NONE
  /\ target = NONE
  /\ assigned = 0
  /\ keep = 0
  /\ todo = {}
  /\ deleting = NONE

(* What a process knows is gone when it drops the store.                    *)
Forget ==
  /\ pc' = "closed"
  /\ binary' = NONE
  /\ graph' = NONE
  /\ target' = NONE
  /\ assigned' = 0
  /\ keep' = 0
  /\ todo' = {}
  /\ deleting' = NONE

(* RocksGraphStore::open, as far as the LOCK.                               *)
Open(b) ==
  /\ pc = "closed"
  /\ pc' = "opened"
  /\ binary' = b
  /\ UNCHANGED <<disk, graph, target, assigned, keep, todo, deleting>>

(* reconcile_revision_layout finds its own version, or none and writes it.  *)
AdoptLayout ==
  /\ pc = "opened"
  /\ layout \in {binary, NONE}
  /\ layout' = binary
  /\ pc' = "ready"
  /\ UNCHANGED <<working, snapshots, index, sequence,
                 binary, graph, target, assigned, keep, todo, deleting>>

(* The stamp is written before the delete loop instead of after it.         *)
FaultyBeginDrop ==
  /\ pc = "opened"
  /\ layout \notin {binary, NONE}
  /\ layout' = binary
  /\ todo' = Listed
  /\ pc' = "dropping"
  /\ UNCHANGED <<working, snapshots, index, sequence,
                 binary, graph, target, assigned, keep, deleting>>

(* The counter is reset before the delete loop instead of after it.         *)
ResetFirstBeginDrop ==
  /\ pc = "opened"
  /\ layout \notin {binary, NONE}
  /\ sequence' = 0
  /\ todo' = Listed
  /\ pc' = "dropping"
  /\ UNCHANGED <<working, snapshots, index, layout,
                 binary, graph, target, assigned, keep, deleting>>

(* It finds another version and starts deleting what is listed.             *)
BeginDrop ==
  /\ pc = "opened"
  /\ layout \notin {binary, NONE}
  /\ todo' = Listed
  /\ pc' = "dropping"
  /\ UNCHANGED <<disk, binary, graph, target, assigned, keep, deleting>>

(* delete_revision, first write.                                            *)
DeleteSnapshot ==
  /\ pc \in {"dropping", "pruning"}
  /\ deleting = NONE
  /\ \E r \in Revisions :
       /\ IsNextToDelete(r)
       /\ snapshots' = [snapshots EXCEPT ![r] = NONE]
       /\ deleting' = r
  /\ UNCHANGED <<working, index, sequence, layout,
                 pc, binary, graph, target, assigned, keep, todo>>

(* delete_revision, second write.                                           *)
DeleteIndex ==
  /\ pc \in {"dropping", "pruning"}
  /\ deleting # NONE
  /\ index' = [index EXCEPT ![deleting] = 0]
  /\ todo' = todo \ {deleting}
  /\ deleting' = NONE
  /\ UNCHANGED <<working, snapshots, sequence, layout,
                 pc, binary, graph, target, assigned, keep>>

(* The counter is deleted once the delete loop of the layout change ended.  *)
ResetSequence ==
  /\ pc = "dropping"
  /\ todo = {}
  /\ sequence' = 0
  /\ pc' = "stamping"
  /\ UNCHANGED <<working, snapshots, index, layout,
                 binary, graph, target, assigned, keep, todo, deleting>>

StampLayout ==
  /\ pc = "stamping"
  /\ layout' = binary
  /\ pc' = "ready"
  /\ UNCHANGED <<working, snapshots, index, sequence,
                 binary, graph, target, assigned, keep, todo, deleting>>

(* save_graph: `analyze` calls it once, `watch` for every change it handles.*)
SaveGraph(g) ==
  /\ pc \in {"ready", "saved"}
  /\ working' = g
  /\ graph' = g
  /\ pc' = "saved"
  /\ UNCHANGED <<snapshots, index, sequence, layout,
                 binary, target, assigned, keep, todo, deleting>>

(* A sum that does not saturate.                                            *)
FaultySuccessor == sequence + 1

(* saturating_add(1).                                                       *)
Successor == IF sequence < MaxSequence THEN sequence + 1 ELSE MaxSequence

(* next_sequence does not store the counter it hands out.                   *)
FaultyNextSequence(r) ==
  /\ pc = "saved"
  /\ sequence <= SaveBound
  /\ assigned' = Successor
  /\ target' = r
  /\ pc' = "numbered"
  /\ UNCHANGED <<disk, binary, graph, keep, todo, deleting>>

(* save_revision, first write: next_sequence.                               *)
NextSequence(r) ==
  /\ pc = "saved"
  /\ sequence <= SaveBound
  /\ sequence' = Successor
  /\ assigned' = Successor
  /\ target' = r
  /\ pc' = "numbered"
  /\ UNCHANGED <<working, snapshots, index, layout,
                 binary, graph, keep, todo, deleting>>

(* save_revision, second write.                                             *)
PutSnapshot ==
  /\ pc = "numbered"
  /\ snapshots' = [snapshots EXCEPT
                     ![target] = [graph |-> graph, layout |-> binary]]
  /\ pc' = "stored"
  /\ UNCHANGED <<working, index, sequence, layout,
                 binary, graph, target, assigned, keep, todo, deleting>>

(* save_revision, third write.                                              *)
PutIndex ==
  /\ pc = "stored"
  /\ index' = [index EXCEPT ![target] = assigned]
  /\ pc' = "indexed"
  /\ UNCHANGED <<working, snapshots, sequence, layout,
                 binary, graph, target, assigned, keep, todo, deleting>>

(* prune_revisions lists once, then deletes what it skipped to.             *)
BeginPrune(k) ==
  /\ pc = "indexed"
  /\ todo' = Stale(k)
  /\ keep' = k
  /\ pc' = "pruning"
  /\ UNCHANGED <<disk, binary, graph, target, assigned, deleting>>

FinishPrune ==
  /\ pc = "pruning"
  /\ todo = {}
  /\ pc' = "done"
  /\ UNCHANGED <<disk, binary, graph, target, assigned, keep, todo, deleting>>

(* The command ends: a query that only read, `analyze` without --snapshot,  *)
(* or `analyze --snapshot` after retention.                                 *)
Close ==
  /\ pc \in {"ready", "saved", "done"}
  /\ Forget
  /\ UNCHANGED disk

(* The process is killed, as the hooks' timeout does, or a write fails and  *)
(* `?` returns: the store is dropped with its work half done.               *)
Interrupt ==
  /\ pc \notin {"closed", "ready", "saved", "done"}
  /\ Forget
  /\ UNCHANGED disk

Next ==
  \/ \E b \in Layouts : Open(b)
  \/ AdoptLayout
  \/ BeginDrop
  \/ DeleteSnapshot
  \/ DeleteIndex
  \/ ResetSequence
  \/ StampLayout
  \/ \E g \in Graphs : SaveGraph(g)
  \/ \E r \in Revisions : NextSequence(r)
  \/ PutSnapshot
  \/ PutIndex
  \/ \E k \in Keeps : BeginPrune(k)
  \/ FinishPrune
  \/ Close
  \/ Interrupt

Spec == Init /\ [][Next]_vars

-----------------------------------------------------------------------------
(* The type of the store and of the process that has it open.               *)
TypeOK ==
  /\ working \in Graphs \union {NONE}
  /\ snapshots \in [Revisions -> SnapshotRecord \union {NONE}]
  /\ index \in [Revisions -> 0 .. MaxSequence]
  /\ sequence \in 0 .. MaxSequence
  /\ layout \in Layouts \union {NONE}
  /\ pc \in Steps
  /\ binary \in Layouts \union {NONE}
  /\ graph \in Graphs \union {NONE}
  /\ target \in Revisions \union {NONE}
  /\ assigned \in 0 .. MaxSequence
  /\ keep \in Keeps \union {0}
  /\ todo \in SUBSET Revisions
  /\ deleting \in Revisions \union {NONE}

(* The counter is at least every recorded sequence, through layout changes  *)
(* and interruptions: a revision saved next is listed before all others.    *)
CounterCoversIndex == \A r \in Revisions : index[r] <= sequence

(* No two listed revisions share a sequence, so the name never decides the  *)
(* listing order - until the counter has saturated.                         *)
SequencesUnique ==
  \A r, q \in Listed : r # q /\ index[r] = index[q] => index[r] = MaxSequence

(* A listed revision that loads was written under the layout the store is   *)
(* stamped with, whenever and however often a layout change was cut short.  *)
ListedMatchLayout ==
  \A r \in Listed : snapshots[r] # NONE => snapshots[r].layout = layout

(* What `analyze --snapshot` promises when it ends without an error: both   *)
(* the working graph and the revision are the graph it analysed, and the    *)
(* revision comes first in the listing. Retention deletes the revision it   *)
(* was asked to record only when it is told to keep none.                   *)
RecordedRevisionLoads ==
  pc = "done" /\ keep > 0 /\ sequence < MaxSequence =>
    /\ snapshots[target] = [graph |-> graph, layout |-> layout]
    /\ working = graph
    /\ \A r \in Revisions \ {target} : index[r] < index[target]

(* prune_revisions leaves at most `keep` entries, also when an earlier run  *)
(* of it was interrupted.                                                   *)
RetentionBounds == pc = "done" => Cardinality(Listed) <= keep

(* Retention drops a revision only when `keep` others that were recorded no *)
(* earlier stay listed.                                                     *)
RetentionKeepsNewest ==
  [][\A r \in Listed \ Listed' :
       pc = "pruning" =>
         Cardinality({q \in Listed' : index[q] >= index[r]}) >= keep]_vars
=============================================================================
